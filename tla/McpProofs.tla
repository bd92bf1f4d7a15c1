------------------------------ MODULE McpProofs ------------------------------
(***************************************************************************)
(* Theorems about POST /mcp: what the scanner diverts, what the decoder    *)
(* makes of it and what an upload leaves on the card, for every body; and  *)
(* what the two waits answer, for every run of frames and every history of *)
(* the file.                                                               *)
(***************************************************************************)
EXTENDS McpServer, SequenceTheorems, WellFoundedInduction, TLAPS

-----------------------------------------------------------------------------
(* screen_wait *)

LEMMA ThumbDiffIrreflexive == \A f \in Int : ~screen_thumb_diff(f, f)
BY ScreenWaitAssumption DEF screen_thumb_diff

LEMMA ScreenBeginRight ==
    ASSUME NEW mode \in {"change", "stable"}, ScreenWaitBegin(mode)
    PROVE  ScreenWaitRight'
<1>1. CASE sw' = [at |-> "refused"]
  BY <1>1 DEF ScreenWaitRight
<1>2. CASE sw' = [at |-> "capture", mode |-> mode, slot |-> <<0, 0>>, ref |-> 1,
                  have_ref |-> FALSE, now |-> 0, stable_since |-> 0, met |-> FALSE]
  <2>1. frames' = <<>> /\ Len(frames') = 0
    BY DEF ScreenWaitBegin
  <2>2. <<0, 0>> \in [1..2 -> Int]
    OBVIOUS
  <2>3. sw' \in ScreenWaits
    BY <1>2, <2>2 DEF ScreenWaits
  <2>4. sw'.have_ref = FALSE /\ sw'.met = FALSE
    BY <1>2
  <2>5. QED
    BY <2>1, <2>3, <2>4 DEF ScreenWaitRight
<1>3. QED
  BY <1>1, <1>2 DEF ScreenWaitBegin

\* The fields of a wait under way.
LEMMA ScreenFields ==
    ASSUME NEW w \in ScreenWaits
    PROVE  /\ w.at \in {"capture", "decide", "answered"} /\ w.mode \in {"change", "stable"}
           /\ w.slot \in [1..2 -> Int] /\ w.ref \in 1..2 /\ w.now \in Nat
           /\ w.stable_since \in Nat /\ w.have_ref \in BOOLEAN /\ w.met \in BOOLEAN
BY DEF ScreenWaits

LEMMA FrameFields ==
    ASSUME frames \in Seq(Captured)
    PROVE  \A i \in 1..Len(frames) : frames[i].frame \in Int /\ frames[i].time \in Nat
<1>1. \A i \in 1..Len(frames) : frames[i] \in Captured
  OBVIOUS
<1>2. QED
  BY <1>1 DEF Captured

LEMMA CaptureFailsRight ==
    ASSUME ScreenWaitRight, CaptureFails
    PROVE  ScreenWaitRight'
<1>1. sw.at = "capture" /\ sw \in ScreenWaits /\ frames' = frames
  BY DEF CaptureFails, ScreenWaitRight
<1>2. PICK f \in Frames :
         sw' = [sw EXCEPT !.at = "decide", !.slot[IF sw.have_ref THEN 3 - sw.ref ELSE sw.ref] = f]
  BY DEF CaptureFails
<1> DEFINE k == IF sw.have_ref THEN 3 - sw.ref ELSE sw.ref
<1>3. k \in 1..2 /\ (sw.have_ref => k # sw.ref) /\ f \in Int
  BY <1>1, ScreenFields, ScreenWaitAssumption
<1>4. sw' = [sw EXCEPT !.at = "decide", !.slot[k] = f]
  BY <1>2
<1> HIDE DEF k
<1>5. /\ sw'.at = "decide" /\ sw'.slot = [sw.slot EXCEPT ![k] = f]
      /\ sw'.mode = sw.mode /\ sw'.ref = sw.ref /\ sw'.have_ref = sw.have_ref
      /\ sw'.now = sw.now /\ sw'.stable_since = sw.stable_since /\ sw'.met = sw.met
  BY <1>1, <1>4 DEF ScreenWaits
<1>6. sw' \in ScreenWaits
  BY <1>1, <1>3, <1>4 DEF ScreenWaits
<1>7. sw.have_ref => sw'.slot[sw.ref] = sw.slot[sw.ref]
  BY <1>1, <1>3, <1>5, ScreenFields
<1>8. QED
  BY <1>1, <1>5, <1>6, <1>7 DEF ScreenWaitRight, Differ

LEMMA ScreenDecideRight ==
    ASSUME ScreenWaitRight, ScreenDecide
    PROVE  ScreenWaitRight'
<1>1. sw.at = "decide" /\ sw \in ScreenWaits /\ frames' = frames /\ frames \in Seq(Captured)
  BY DEF ScreenDecide, ScreenWaitRight
<1>2. CASE sw' = [sw EXCEPT !.at = "answered"]
  <2>1. /\ sw'.at = "answered" /\ sw'.slot = sw.slot
        /\ sw'.mode = sw.mode /\ sw'.ref = sw.ref /\ sw'.have_ref = sw.have_ref
        /\ sw'.now = sw.now /\ sw'.stable_since = sw.stable_since /\ sw'.met = sw.met
        /\ sw' \in ScreenWaits
    BY <1>1, <1>2 DEF ScreenWaits
  <2>2. QED
    BY <1>1, <2>1 DEF ScreenWaitRight, Differ
<1>3. CASE ~sw.met /\ sw' = [sw EXCEPT !.at = "capture", !.now = @ + 1]
  <2>1. /\ sw'.at = "capture" /\ sw'.slot = sw.slot
        /\ sw'.mode = sw.mode /\ sw'.ref = sw.ref /\ sw'.have_ref = sw.have_ref
        /\ sw'.now = sw.now + 1 /\ sw'.stable_since = sw.stable_since /\ sw'.met = sw.met
        /\ sw' \in ScreenWaits
    <3> DEFINE later == sw.now + 1
    <3>1. later \in Nat /\ sw' = [sw EXCEPT !.at = "capture", !.now = later]
      BY <1>1, <1>3, ScreenFields
    <3> HIDE DEF later
    <3>2. /\ sw'.at = "capture" /\ sw'.slot = sw.slot
          /\ sw'.mode = sw.mode /\ sw'.ref = sw.ref /\ sw'.have_ref = sw.have_ref
          /\ sw'.now = later /\ sw'.stable_since = sw.stable_since /\ sw'.met = sw.met
          /\ sw' \in ScreenWaits
      BY <1>1, <3>1 DEF ScreenWaits
    <3>3. QED
      BY <3>2 DEF later
  <2>2. \A i \in 1..Len(frames) : frames[i].time <= sw'.now
    <3>1. \A i \in 1..Len(frames) : frames[i].time \in Nat /\ frames[i].time <= sw.now
      BY <1>1, FrameFields DEF ScreenWaitRight
    <3>2. sw.now \in Nat
      BY <1>1, ScreenFields
    <3>3. QED
      BY <2>1, <3>1, <3>2
  <2>3. QED
    BY <1>1, <1>3, <2>1, <2>2 DEF ScreenWaitRight, Differ
<1>4. QED
  BY <1>2, <1>3 DEF ScreenDecide

\* What a capture appends, and the pairs of frames it leaves alone.
LEMMA CaptureAppends ==
    ASSUME frames \in Seq(Captured), NEW f \in Int, NEW now \in Nat,
           frames' = Append(frames, [frame |-> f, time |-> now])
    PROVE  /\ frames' \in Seq(Captured) /\ Len(frames') = Len(frames) + 1 /\ Len(frames) \in Nat
           /\ frames'[Len(frames) + 1].frame = f /\ frames'[Len(frames) + 1].time = now
           /\ \A i \in 1..Len(frames) : frames'[i] = frames[i]
           /\ \A i \in 1..Len(frames) : frames[i].frame \in Int /\ frames[i].time \in Nat
<1>1. [frame |-> f, time |-> now] \in Captured
  BY DEF Captured
<1> DEFINE new == [frame |-> f, time |-> now]
<1>2. new.frame = f /\ new.time = now
  OBVIOUS
<1> HIDE DEF new
<1>3. /\ frames' \in Seq(Captured) /\ Len(frames') = Len(frames) + 1 /\ Len(frames) \in Nat
      /\ frames'[Len(frames) + 1] = new
      /\ \A i \in 1..Len(frames) : frames'[i] = frames[i]
  BY <1>1 DEF new
<1>4. \A i \in 1..Len(frames) : frames[i].frame \in Int /\ frames[i].time \in Nat
  BY FrameFields
<1>5. QED
  BY <1>2, <1>3, <1>4

LEMMA CaptureRight ==
    ASSUME ScreenWaitRight, Capture
    PROVE  ScreenWaitRight'
<1>1. /\ sw.at = "capture" /\ sw \in ScreenWaits /\ frames \in Seq(Captured) /\ ~sw.met
      /\ sw.have_ref <=> Len(frames) > 0
  BY DEF Capture, ScreenWaitRight
<1>2. PICK f \in Frames :
         /\ sw' = [(IF ~sw.have_ref
                      THEN [sw EXCEPT !.have_ref = TRUE, !.stable_since = sw.now,
                                      !.slot[sw.ref] = f]
                      ELSE Compared([sw EXCEPT !.slot[3 - sw.ref] = f],
                                    screen_thumb_diff(sw.slot[sw.ref], f)))
                   EXCEPT !.at = "decide"]
         /\ frames' = Append(frames, [frame |-> f, time |-> sw.now])
  BY DEF Capture
<1>3. f \in Int /\ sw.now \in Nat /\ sw.ref \in 1..2 /\ sw.slot \in [1..2 -> Int]
  BY <1>1, ScreenFields, ScreenWaitAssumption
<1>0. PICK n \in Nat : n = Len(frames)
  BY <1>1
<1>4. /\ frames' \in Seq(Captured) /\ Len(frames') = n + 1 /\ n \in Nat
      /\ frames'[n + 1].frame = f /\ frames'[n + 1].time = sw.now
      /\ \A i \in 1..n : frames'[i] = frames[i]
      /\ \A i \in 1..n : frames[i].frame \in Int /\ frames[i].time \in Nat
  BY <1>0, <1>1, <1>2, <1>3, CaptureAppends
<1>5. \A i \in 1..(n + 1) : frames'[i].time <= sw.now
  <2>1. \A i \in 1..n : frames[i].time <= sw.now
    BY <1>0, <1>1 DEF ScreenWaitRight
  <2>2. \A i \in 1..(n + 1) : i \in 1..n \/ i = n + 1
    BY <1>4
  <2>3. QED
    BY <1>3, <1>4, <2>1, <2>2
<1>6. CASE ~sw.have_ref
  <2>1. n = 0
    BY <1>0, <1>1, <1>4, <1>6
  <2>2. sw' = [sw EXCEPT !.have_ref = TRUE, !.stable_since = sw.now, !.slot[sw.ref] = f,
                         !.at = "decide"]
    BY <1>1, <1>2, <1>6 DEF ScreenWaits
  <2>3. /\ sw'.at = "decide" /\ sw'.slot = [sw.slot EXCEPT ![sw.ref] = f]
        /\ sw'.mode = sw.mode /\ sw'.ref = sw.ref /\ sw'.have_ref = TRUE
        /\ sw'.now = sw.now /\ sw'.stable_since = sw.now /\ sw'.met = sw.met
        /\ sw' \in ScreenWaits
    BY <1>1, <1>3, <2>2 DEF ScreenWaits
  <2>4. sw'.slot[sw'.ref] = f
    BY <1>3, <2>3
  <2>5. Len(frames') = 1 /\ frames'[1].frame = f /\ frames'[1].time = sw.now
    BY <1>4, <2>1
  <2>6. ~Differ(1, 1)'
    BY <1>3, <2>5, ThumbDiffIrreflexive DEF Differ
  <2>7. QED
    BY <1>1, <1>3, <1>4, <1>5, <2>1, <2>3, <2>4, <2>5, <2>6 DEF ScreenWaitRight
<1> DEFINE diff == screen_thumb_diff(sw.slot[sw.ref], f)
<1> DEFINE k == 3 - sw.ref
<1>7. k \in 1..2 /\ k # sw.ref /\ diff \in BOOLEAN
  BY <1>3 DEF screen_thumb_diff
<1>8. CASE sw.have_ref /\ sw.mode = "change"
  <2>1. sw' = [sw EXCEPT !.slot[k] = f, !.met = diff, !.at = "decide"]
    <3> HIDE DEF diff, k
    <3>1. sw' = [[[sw EXCEPT !.slot[k] = f] EXCEPT !.met = diff] EXCEPT !.at = "decide"]
      BY <1>1, <1>2, <1>8 DEF Compared, ScreenWaits, diff, k
    <3>2. QED
      BY <1>1, <3>1 DEF ScreenWaits
  <2> HIDE DEF diff, k
  <2>2. /\ sw'.at = "decide" /\ sw'.slot = [sw.slot EXCEPT ![k] = f]
        /\ sw'.mode = sw.mode /\ sw'.ref = sw.ref /\ sw'.have_ref = sw.have_ref
        /\ sw'.now = sw.now /\ sw'.stable_since = sw.stable_since /\ sw'.met = diff
        /\ sw' \in ScreenWaits
    BY <1>1, <1>3, <1>7, <2>1 DEF ScreenWaits
  <2>3. sw'.slot[sw'.ref] = sw.slot[sw.ref] /\ sw.slot[sw.ref] = frames[1].frame
    BY <1>1, <1>3, <1>7, <1>8, <2>2 DEF ScreenWaitRight
  <2>4. n > 0 /\ frames'[1] = frames[1]
    BY <1>0, <1>1, <1>4, <1>8
  <2>5. Differ(1, Len(frames))' <=> diff
    BY <1>4, <2>3, <2>4 DEF Differ, diff
  <2>6. QED
    BY <1>1, <1>4, <1>5, <1>8, <2>2, <2>3, <2>4, <2>5 DEF ScreenWaitRight
<1>9. CASE sw.have_ref /\ sw.mode = "stable"
  <2> DEFINE since == IF diff THEN sw.now ELSE sw.stable_since
  <2> DEFINE met == ~diff /\ sw.now - sw.stable_since >= StableMs
  <2>1. sw' = [sw EXCEPT !.slot[k] = f, !.stable_since = since, !.met = met, !.ref = k,
                         !.at = "decide"]
    <3>1. sw' = [Compared([sw EXCEPT !.slot[k] = f], diff) EXCEPT !.at = "decide"]
      BY <1>2, <1>9
    <3> DEFINE v == [sw EXCEPT !.slot[k] = f]
    <3>2. /\ v.mode = "stable" /\ v.now = sw.now /\ v.stable_since = sw.stable_since
          /\ v.ref = sw.ref
      BY <1>1, <1>9 DEF ScreenWaits
    <3>3. Compared(v, diff) = [v EXCEPT !.stable_since = since, !.met = met, !.ref = k]
      <4> HIDE DEF v, diff
      <4> QED
        BY <3>2 DEF Compared
    <3> HIDE DEF diff, k, since, met
    <3>4. QED
      BY <1>1, <3>1, <3>3 DEF ScreenWaits
  <2>2. since \in Nat /\ met \in BOOLEAN /\ sw.stable_since \in Nat
    BY <1>1, <1>3, ScreenFields
  <2>3. /\ n > 0 /\ frames'[1] = frames[1] /\ sw.slot[sw.ref] = frames[n].frame
        /\ frames[1].time <= sw.stable_since /\ frames[1].time \in Nat
        /\ \A i \in 2..n : frames[i].time > sw.stable_since => ~Differ(i - 1, i)
    BY <1>0, <1>1, <1>4, <1>9 DEF ScreenWaitRight
  <2>4. /\ diff => since = sw.now
        /\ ~diff => since = sw.stable_since
        /\ met => ~diff /\ sw.now - since >= StableMs
    OBVIOUS
  <2> HIDE DEF since, met, k
  <2>5. Differ(n, n + 1)' <=> diff
    BY <1>4, <2>3 DEF Differ
  <2> HIDE DEF diff
  <2>6. /\ sw'.at = "decide" /\ sw'.slot = [sw.slot EXCEPT ![k] = f]
        /\ sw'.mode = sw.mode /\ sw'.ref = k /\ sw'.have_ref = sw.have_ref
        /\ sw'.now = sw.now /\ sw'.stable_since = since /\ sw'.met = met
        /\ sw' \in ScreenWaits
    BY <1>1, <1>3, <1>7, <2>1, <2>2 DEF ScreenWaits
  <2>7. sw'.slot[sw'.ref] = f
    BY <1>3, <1>7, <2>6
  <2>8. frames'[1].time <= since
    BY <1>3, <1>4, <2>2, <2>3, <2>4, <1>5
  <2>9. \A i \in 2..(n + 1) : frames'[i].time > since => ~Differ(i - 1, i)'
    <3> SUFFICES ASSUME NEW i \in 2..(n + 1), frames'[i].time > since
                 PROVE  ~Differ(i - 1, i)'
      OBVIOUS
    <3>1. i \in 1..(n + 1) /\ frames'[i].time <= sw.now /\ frames'[i].time \in Nat
      BY <1>3, <1>4, <1>5
    <3>2. ~diff /\ since = sw.stable_since
      BY <1>3, <2>2, <2>4, <3>1
    <3>3. CASE i = n + 1
      BY <1>4, <2>5, <3>2, <3>3
    <3>4. CASE i # n + 1
      <4>1. i \in 2..n /\ i - 1 \in 1..n /\ i \in 1..n
        BY <1>4, <3>4
      <4>2. Differ(i - 1, i)' <=> Differ(i - 1, i)
        BY <1>4, <4>1 DEF Differ
      <4>3. frames[i].time > sw.stable_since
        BY <1>4, <3>2, <4>1
      <4>4. QED
        BY <2>3, <4>1, <4>2, <4>3
    <3>5. QED
      BY <3>3, <3>4
  <2>10. QED
    BY <1>1, <1>4, <1>5, <1>9, <2>3, <2>4, <2>6, <2>7, <2>8, <2>9 DEF ScreenWaitRight
<1>10. QED
  BY <1>1, <1>6, <1>8, <1>9, ScreenFields

LEMMA ScreenWaitRightNext == ScreenWaitRight /\ [Next]_vars => ScreenWaitRight'
<1> SUFFICES ASSUME ScreenWaitRight, [Next]_vars PROVE ScreenWaitRight'
  OBVIOUS
<1>1. CASE UNCHANGED screenWaitVars
  BY <1>1 DEF screenWaitVars, ScreenWaitRight, Differ
<1>2. CASE ToolWait
  BY <1>1, <1>2, ScreenBeginRight DEF ToolWait
<1>3. CASE Waiting
  BY <1>1, <1>3, CaptureRight, CaptureFailsRight, ScreenDecideRight DEF Waiting, screen_wait
<1>4. CASE WaitAnswered
  BY <1>4 DEF WaitAnswered, ScreenWaitRight, NoScreenWait
<1>5. CASE UNCHANGED vars
  BY <1>1, <1>5 DEF vars, waitVars
<1>6. ASSUME Next, ~ToolWait, ~Waiting, ~WaitAnswered PROVE UNCHANGED screenWaitVars
  BY <1>6 DEF Next, PostRefused, PostBegin, Feed, ChunkEnds, PostFails, PostParsed, Dispatch,
     ToolUpload, UploadRemove, UploadRename, UploadRenameFails, NextPost, PowerLost, waitVars
<1>7. QED
  BY <1>1, <1>2, <1>3, <1>4, <1>5, <1>6

\* However many frames are captured, whichever captures fail and wherever the
\* wait is cut off: a change is reported exactly when the last frame differs
\* from the first, stability only after stable_ms without two frames in a row
\* that differ.
THEOREM ScreenWaitsTellTruth == Spec => []ScreenWaitTellsTruth
<1>1. Init => ScreenWaitRight
  BY DEF Init, ScreenWaitInit, NoScreenWait, ScreenWaitRight
<1>2. ScreenWaitRight => ScreenWaitTellsTruth
  <2> SUFFICES ASSUME ScreenWaitRight, sw.at = "answered" PROVE ScreenWaitTellsTruth
    BY DEF ScreenWaitTellsTruth
  <2> DEFINE n == Len(frames)
  <2>1. /\ sw \in ScreenWaits /\ frames \in Seq(Captured) /\ n \in Nat
        /\ sw.have_ref <=> n > 0
        /\ sw.met => sw.have_ref
    BY DEF ScreenWaitRight
  <2>2. ASSUME sw.mode = "change" PROVE sw.met <=> n > 0 /\ Differ(1, n)
    BY <2>1, <2>2 DEF ScreenWaitRight
  <2>3. ASSUME sw.mode = "stable", sw.met
        PROVE  /\ Last(frames).time - frames[1].time >= StableMs
               /\ \A i \in 2..n : frames[i].time > Last(frames).time - StableMs => ~Differ(i - 1, i)
    <3>1. /\ frames[1].time <= sw.stable_since
          /\ \A i \in 2..n : frames[i].time > sw.stable_since => ~Differ(i - 1, i)
          /\ frames[n].time - sw.stable_since >= StableMs
      BY <2>1, <2>3 DEF ScreenWaitRight
    <3>2. Last(frames) = frames[n]
      BY DEF Last
    <3>3. /\ \A i \in 2..n : frames[i].time \in Nat
          /\ frames[n].time \in Nat /\ frames[1].time \in Nat /\ sw.stable_since \in Nat
          /\ StableMs \in Nat
      BY <2>1, <2>3, FrameFields, ScreenFields, ScreenWaitAssumption
    <3> HIDE DEF n
    <3>4. \A i \in 2..n : frames[i].time > frames[n].time - StableMs => frames[i].time > sw.stable_since
      BY <3>1, <3>3
    <3>5. frames[n].time - frames[1].time >= StableMs
      BY <3>1, <3>3
    <3>6. QED
      BY <3>1, <3>2, <3>4, <3>5
  <2>4. sw.mode \in {"change", "stable"}
    BY <2>1, ScreenFields
  <2>5. QED
    BY <2>2, <2>3, <2>4 DEF ScreenWaitTellsTruth
<1>3. QED
  BY <1>1, <1>2, ScreenWaitRightNext, PTL DEF Spec

-----------------------------------------------------------------------------
(* The scanner and the writer of the body: their fields. *)

Frame == [obj : BOOLEAN, key : Seq(NameChars)]
Level == [is_obj : BOOLEAN, on_path : BOOLEAN]

LEMMA BodyFields ==
    ASSUME NEW w \in Bodies
    PROVE  /\ w.stack \in Seq(Frame) /\ Len(w.stack) \in Nat /\ w.n \in Nat
           /\ w.at \in {"value", "first_value", "first_key", "next_key", "key", "key_escape",
                        "colon", "string", "escape", "after", "done"}
           /\ \A i \in 1..Len(w.stack) : /\ w.stack[i] \in Frame /\ w.stack[i].obj \in BOOLEAN
                                         /\ w.stack[i].key \in Seq(NameChars)
<1>1. /\ w.stack \in Seq(Frame) /\ w.n \in Nat
      /\ w.at \in {"value", "first_value", "first_key", "next_key", "key", "key_escape",
                   "colon", "string", "escape", "after", "done"}
  BY DEF Bodies, Frame
<1>2. \A i \in 1..Len(w.stack) : w.stack[i] \in Frame
  BY <1>1
<1>3. QED
  BY <1>1, <1>2 DEF Frame

LEMMA ScannerFields ==
    ASSUME NEW s \in Jstreams
    PROVE  /\ s.doc_len \in Nat /\ s.levels \in Seq(Level) /\ Len(s.levels) \in Nat
           /\ s.in_string \in BOOLEAN /\ s.is_key \in BOOLEAN /\ s.esc \in BOOLEAN
           /\ s.next_is_key \in BOOLEAN /\ s.on_path_next \in BOOLEAN
           /\ s.content_next \in BOOLEAN /\ s.divert \in BOOLEAN
           /\ s.content_found \in BOOLEAN /\ s.key \in Seq(NameChars)
           /\ s.key_overflow \in BOOLEAN
           /\ s.err \in {"none", "EDOC", "EDEPTH", "EDUP", "ECONTENT"}
BY DEF Jstreams, Level

\* Equal but for the length of the document.
Alike(s, t) ==
    /\ t.levels = s.levels /\ t.in_string = s.in_string /\ t.is_key = s.is_key /\ t.esc = s.esc
    /\ t.next_is_key = s.next_is_key /\ t.on_path_next = s.on_path_next
    /\ t.content_next = s.content_next /\ t.divert = s.divert /\ t.key = s.key
    /\ t.key_overflow = s.key_overflow

LEMMA FailedType ==
    ASSUME NEW s \in Jstreams, NEW e \in {"EDOC", "EDEPTH", "EDUP", "ECONTENT"}
    PROVE  Failed(s, e) \in Jstreams /\ Failed(s, e).err = e
BY DEF Jstreams, Failed

LEMMA CopiedFacts ==
    ASSUME NEW s \in Jstreams
    PROVE  /\ Copied(s) \in Jstreams
           /\ Copied(s).err = "none" => Alike(s, Copied(s)) /\ s.err = "none"
<1>1. CASE s.doc_len + 1 > DocMax
  BY <1>1, FailedType DEF Copied
<1>2. CASE ~(s.doc_len + 1 > DocMax)
  <2> DEFINE n == s.doc_len + 1
  <2>1. n \in Nat /\ Copied(s) = [s EXCEPT !.doc_len = n]
    BY <1>2, ScannerFields DEF Copied
  <2> HIDE DEF n
  <2>2. QED
    BY <2>1 DEF Jstreams, Alike
<1>3. QED
  BY <1>1, <1>2

LEMMA TracksAlike ==
    ASSUME NEW s, NEW t, NEW w, Alike(s, t), Tracks(s, w)
    PROVE  Tracks(t, w)
BY DEF Alike, Tracks

LEMMA TargetFacts ==
    /\ \A i \in 1..3 : Len(kTarget[i]) = 1
    /\ \A i \in 1..3 : kTarget[i] # <<>> /\ \A l \in EscapedLetters : kTarget[i] # <<l>>
<1>1. kTarget[1] = <<"p">> /\ kTarget[2] = <<"a">> /\ kTarget[3] = <<"c">>
  BY DEF kTarget
<1>2. \A i \in 1..3 : i = 1 \/ i = 2 \/ i = 3
  OBVIOUS
<1>3. \A x : Len(<<x>>) = 1 /\ <<x>>[1] = x
  OBVIOUS
<1>4. Len(<<>>) = 0
  OBVIOUS
<1>5. \A x \in {"p", "a", "c"} : x \notin EscapedLetters
  BY DEF EscapedLetters
<1>6. \A x \in {"p", "a", "c"} :
         Len(<<x>>) = 1 /\ <<x>> # <<>> /\ \A l \in EscapedLetters : <<x>> # <<l>>
  BY <1>3, <1>4, <1>5
<1>7. \A i \in 1..3 : \E x \in {"p", "a", "c"} : kTarget[i] = <<x>>
  BY <1>1, <1>2
<1>8. QED
  BY <1>6, <1>7

\* Not a name of the target path.
Off(key) == key # <<>> /\ \A i \in 1..3 : key # kTarget[i]

\* A name that grew, or one that ends in an escape, is none of them.
LEMMA LongerIsOff ==
    ASSUME NEW key \in Seq(NameChars), NEW l
    PROVE  /\ key # <<>> => Off(Append(key, l))
           /\ l \in EscapedLetters => Off(Append(key, l))
<1>1. Len(key) \in Nat /\ Len(Append(key, l)) = Len(key) + 1 /\ Append(key, l) # <<>>
  OBVIOUS
<1>2. key # <<>> => Len(Append(key, l)) # 1
  BY <1>1
<1>3. key = <<>> => Append(key, l) = <<l>>
  OBVIOUS
<1>4. QED
  BY <1>1, <1>2, <1>3, TargetFacts, Zenon DEF Off

LEMMA Positive ==
    \A n \in Nat : /\ n > 1 => n > 0
                   /\ n = 1 => n > 0 /\ ~(n > 1)
                   /\ n > 0 => n >= 1
OBVIOUS

LEMMA CountIs == \A n, m \in Nat : 1..n = 1..m => n = m
<1> SUFFICES ASSUME NEW n \in Nat, NEW m \in Nat, 1..n = 1..m PROVE n = m
  OBVIOUS
<1>1. n > 0 => n \in 1..m
  OBVIOUS
<1>2. m > 0 => m \in 1..n
  OBVIOUS
<1>3. QED
  BY <1>1, <1>2

LEMMA ContentPathFacts ==
    ASSUME NEW w \in Bodies
    PROVE  w.stack = ContentPath <=> Len(w.stack) = 3 /\ AtTarget(w.stack, 3)
<1>1. DOMAIN ContentPath = 1..3 /\ \A i \in 1..3 : ContentPath[i] = [obj |-> TRUE, key |-> kTarget[i]]
  BY DEF ContentPath
<1>2. ASSUME w.stack = ContentPath PROVE Len(w.stack) = 3 /\ AtTarget(w.stack, 3)
  <2>1. DOMAIN w.stack = 1..3
    BY <1>1, <1>2
  <2>2. Len(w.stack) = 3
    <3>1. DOMAIN w.stack = 1..Len(w.stack) /\ Len(w.stack) \in Nat
      <4>1. w.stack \in Seq(Frame)
        BY BodyFields
      <4>2. QED
        BY <4>1
    <3>2. QED
      BY <2>1, <3>1, CountIs
  <2>3. \A i \in 1..3 : w.stack[i].obj = TRUE /\ w.stack[i].key = kTarget[i]
    BY <1>1, <1>2
  <2>4. QED
    BY <2>2, <2>3 DEF AtTarget, OnPath
<1>3. ASSUME Len(w.stack) = 3, AtTarget(w.stack, 3) PROVE w.stack = ContentPath
  <2>1. \A i \in 1..3 : w.stack[i] \in Frame /\ w.stack[i].obj = TRUE /\ w.stack[i].key = kTarget[i]
    <3>1. \A i \in 1..3 : w.stack[i] \in Frame /\ w.stack[i].obj = TRUE
      BY <1>3, BodyFields DEF AtTarget, OnPath
    <3>2. \A i \in 1..2 : w.stack[i].key = kTarget[i]
      BY <1>3 DEF AtTarget, OnPath
    <3>3. w.stack[3].key = kTarget[3]
      BY <1>3 DEF AtTarget
    <3>4. QED
      BY <3>1, <3>2, <3>3
  <2>2. \A i \in 1..3 : w.stack[i] = [obj |-> TRUE, key |-> kTarget[i]]
    BY <2>1 DEF Frame
  <2>3. w.stack = [i \in 1..3 |-> w.stack[i]]
    <3>1. w.stack \in Seq(Frame)
      BY BodyFields
    <3>2. w.stack = [i \in 1..Len(w.stack) |-> w.stack[i]]
      BY <3>1
    <3>3. QED
      BY <1>3, <3>2
  <2>4. QED
    BY <2>2, <2>3 DEF ContentPath
<1>4. QED
  BY <1>2, <1>3

-----------------------------------------------------------------------------
(* One character: the scanner keeps track of the writer. *)

Good(s, w) == s \in Jstreams /\ w \in Bodies /\ s.err = "none" /\ WellFormed(w) /\ Tracks(s, w)
Follows(t, v) ==
    t \in Jstreams /\ v \in Bodies /\ (t.err = "none" => WellFormed(v) /\ Tracks(t, v))

\* The writer stands elsewhere in the same containers.
Moved(w, v, place) == v \in Bodies /\ v.stack = w.stack /\ v.at = place

LEMMA MovedFacts ==
    ASSUME NEW w \in Bodies
    PROVE  /\ \A x \in {"value", "first_value", "first_key", "next_key", "key", "key_escape",
                        "colon", "string", "escape", "after", "done"} :
                 Moved(w, [w EXCEPT !.at = x], x)
           /\ Moved(w, Wrote(w), IF w.stack = <<>> THEN "done" ELSE "after")
           /\ Moved(w, [w EXCEPT !.n = @ + 1], w.at)
           /\ Moved(w, [[w EXCEPT !.n = @ + 1] EXCEPT !.at = "escape"], "escape")
<1>1. \A x \in {"value", "first_value", "first_key", "next_key", "key", "key_escape",
                "colon", "string", "escape", "after", "done"} :
         Moved(w, [w EXCEPT !.at = x], x)
  BY DEF Moved, Bodies
<1>2. Moved(w, Wrote(w), IF w.stack = <<>> THEN "done" ELSE "after")
  BY DEF Moved, Bodies, Wrote
<1> DEFINE m == w.n + 1
<1>3. m \in Nat
  BY BodyFields
<1> HIDE DEF m
<1>4. /\ Moved(w, [w EXCEPT !.n = m], w.at)
      /\ Moved(w, [[w EXCEPT !.n = m] EXCEPT !.at = "escape"], "escape")
  BY <1>3 DEF Moved, Bodies
<1>5. QED
  BY <1>1, <1>2, <1>4 DEF m

\* Inside a string that is copied.
LEMMA CopiedString ==
    ASSUME NEW s, NEW w, NEW v, NEW c, Good(s, w), w.stack # ContentPath,
           \/ w.at = "string" /\ c = "quote" /\ Moved(w, v, IF w.stack = <<>> THEN "done" ELSE "after")
           \/ w.at = "string" /\ c = "backslash" /\ Moved(w, v, "escape")
           \/ w.at = "string" /\ c \notin {"quote", "backslash"} /\ Moved(w, v, "string")
           \/ w.at = "escape" /\ Moved(w, v, "string")
    PROVE  Follows(jstream_feed(s, c), v)
<1>1. /\ s \in Jstreams /\ s.err = "none" /\ s.in_string = TRUE /\ s.is_key = FALSE
      /\ s.esc = (w.at = "escape") /\ s.divert = FALSE
  BY ScannerFields DEF Good, Tracks
<1> DEFINE u == Copied(s)
<1>2. jstream_feed(s, c) = InString(s, c)
  BY <1>1 DEF jstream_feed
<1>3. u \in Jstreams /\ (u.err = "none" => Alike(s, u))
  BY <1>1, CopiedFacts
<1> HIDE DEF u
<1>4. CASE u.err # "none"
  BY <1>2, <1>3, <1>4 DEF InString, Follows, Moved, u
<1>5. CASE u.err = "none"
  <2>1. Tracks(u, w) /\ u.is_key = FALSE /\ u.esc = (w.at = "escape")
    BY <1>1, <1>3, <1>5, TracksAlike DEF Good, Alike
  <2>2. CASE w.at = "string" /\ c = "quote"
    <3> DEFINE t == [u EXCEPT !.in_string = FALSE]
    <3>1. InString(s, c) = t
      BY <1>5, <2>1, <2>2 DEF InString, u
    <3>2. /\ t \in Jstreams /\ t.levels = u.levels /\ t.in_string = FALSE /\ t.esc = u.esc
          /\ t.on_path_next = u.on_path_next /\ t.content_next = u.content_next
          /\ t.divert = u.divert
      BY <1>3 DEF Jstreams
    <3> HIDE DEF t
    <3>3. v \in Bodies /\ v.stack = w.stack /\ v.at = IF w.stack = <<>> THEN "done" ELSE "after"
      BY <2>2 DEF Moved
    <3>4. WellFormed(v)
      <4>1. w.stack # <<>> => Len(w.stack) > 0
        BY BodyFields DEF Good
      <4>2. QED
        BY <3>3, <4>1 DEF WellFormed
    <3>5. Tracks(t, v)
      BY <2>1, <2>2, <3>2, <3>3 DEF Tracks, Good
    <3>6. QED
      BY <1>2, <3>1, <3>2, <3>3, <3>4, <3>5 DEF Follows
  <2>3. CASE w.at = "string" /\ c \notin {"quote", "backslash"}
    <3>1. InString(s, c) = u
      BY <1>5, <2>1, <2>3 DEF InString, u
    <3>2. v \in Bodies /\ v.stack = w.stack /\ v.at = "string"
      BY <2>3 DEF Moved
    <3>3. WellFormed(v)
      BY <3>2 DEF WellFormed
    <3>4. Tracks(u, v)
      BY <2>1, <2>3, <3>2 DEF Tracks
    <3>5. QED
      BY <1>2, <1>3, <3>1, <3>2, <3>3, <3>4 DEF Follows
  <2>4. CASE w.at = "string" /\ c = "backslash"
    <3> DEFINE t == [u EXCEPT !.esc = TRUE]
    <3>1. InString(s, c) = t
      BY <1>5, <2>1, <2>4 DEF InString, u
    <3>2. /\ t \in Jstreams /\ t.levels = u.levels /\ t.in_string = u.in_string /\ t.esc = TRUE
          /\ t.on_path_next = u.on_path_next /\ t.content_next = u.content_next
          /\ t.divert = u.divert /\ t.is_key = u.is_key
      BY <1>3 DEF Jstreams
    <3> HIDE DEF t
    <3>3. v \in Bodies /\ v.stack = w.stack /\ v.at = "escape"
      BY <2>4 DEF Moved
    <3>4. WellFormed(v)
      BY <3>3 DEF WellFormed
    <3>5. Tracks(t, v)
      BY <2>1, <2>4, <3>2, <3>3 DEF Tracks
    <3>6. QED
      BY <1>2, <3>1, <3>2, <3>3, <3>4, <3>5 DEF Follows
  <2>5. CASE w.at = "escape"
    <3> DEFINE t == [u EXCEPT !.esc = FALSE]
    <3>1. InString(s, c) = t
      <4>1. InString(s, c) = [u EXCEPT !.esc = FALSE, !.key_overflow = @ \/ u.is_key]
        BY <1>5, <2>1, <2>5 DEF InString, u
      <4>2. (u.key_overflow \/ u.is_key) = u.key_overflow
        BY <1>3, <2>1, ScannerFields
      <4>3. QED
        BY <1>3, <4>1, <4>2 DEF Jstreams
    <3>2. /\ t \in Jstreams /\ t.levels = u.levels /\ t.in_string = u.in_string /\ t.esc = FALSE
          /\ t.on_path_next = u.on_path_next /\ t.content_next = u.content_next
          /\ t.divert = u.divert /\ t.is_key = u.is_key
      BY <1>3 DEF Jstreams
    <3> HIDE DEF t
    <3>3. v \in Bodies /\ v.stack = w.stack /\ v.at = "string"
      BY <2>5 DEF Moved
    <3>4. WellFormed(v)
      BY <3>3 DEF WellFormed
    <3>5. Tracks(t, v)
      BY <2>1, <2>5, <3>2, <3>3 DEF Tracks
    <3>6. QED
      BY <1>2, <3>1, <3>2, <3>3, <3>4, <3>5 DEF Follows
  <2>6. QED
    BY <2>2, <2>3, <2>4, <2>5
<1>6. QED
  BY <1>4, <1>5

\* Inside the diverted string.
LEMMA DivertedString ==
    ASSUME NEW s, NEW w, NEW v, NEW c, Good(s, w), w.stack = ContentPath,
           \/ w.at = "string" /\ c = "quote" /\ Moved(w, v, "after")
           \/ w.at = "string" /\ c = "backslash" /\ Moved(w, v, "escape")
           \/ w.at = "string" /\ c \notin {"quote", "backslash"} /\ Moved(w, v, "string")
           \/ w.at = "escape" /\ Moved(w, v, "string")
    PROVE  Follows(jstream_feed(s, c), v)
<1>1. /\ s \in Jstreams /\ s.err = "none" /\ s.divert = TRUE
      /\ s.esc = (w.at = "escape") /\ Tracks(s, w)
  BY ScannerFields DEF Good, Tracks
<1>2. jstream_feed(s, c) = Diverted(s, c)
  BY <1>1 DEF jstream_feed
<1>3. w \in Bodies /\ Len(w.stack) > 0
  BY ContentPathFacts DEF Good
<1>4. CASE w.at = "string" /\ c = "quote" /\ Moved(w, v, "after")
  <2> DEFINE t == [s EXCEPT !.divert = FALSE]
  <2>1. Diverted(s, c) = t
    BY <1>1, <1>4 DEF Diverted
  <2>2. /\ t \in Jstreams /\ t.levels = s.levels /\ t.in_string = s.in_string /\ t.esc = s.esc
        /\ t.on_path_next = s.on_path_next /\ t.content_next = s.content_next
        /\ t.divert = FALSE
    BY <1>1 DEF Jstreams
  <2> HIDE DEF t
  <2>3. v \in Bodies /\ v.stack = w.stack /\ v.at = "after"
    BY <1>4 DEF Moved
  <2>4. WellFormed(v)
    BY <1>3, <2>3 DEF WellFormed
  <2>5. Tracks(t, v)
    BY <1>1, <1>4, <2>2, <2>3 DEF Tracks
  <2>6. QED
    BY <1>2, <2>1, <2>2, <2>3, <2>4, <2>5 DEF Follows
<1>5. CASE w.at = "string" /\ c = "backslash" /\ Moved(w, v, "escape")
  <2> DEFINE t == [s EXCEPT !.esc = TRUE]
  <2>1. Diverted(s, c) = t
    BY <1>1, <1>5 DEF Diverted
  <2>2. /\ t \in Jstreams /\ t.levels = s.levels /\ t.in_string = s.in_string /\ t.esc = TRUE
        /\ t.on_path_next = s.on_path_next /\ t.content_next = s.content_next
        /\ t.divert = s.divert
    BY <1>1 DEF Jstreams
  <2> HIDE DEF t
  <2>3. v \in Bodies /\ v.stack = w.stack /\ v.at = "escape"
    BY <1>5 DEF Moved
  <2>4. WellFormed(v)
    BY <2>3 DEF WellFormed
  <2>5. Tracks(t, v)
    BY <1>1, <1>5, <2>2, <2>3 DEF Tracks
  <2>6. QED
    BY <1>2, <2>1, <2>2, <2>3, <2>4, <2>5 DEF Follows
<1>6. CASE w.at = "string" /\ c \notin {"quote", "backslash"} /\ Moved(w, v, "string")
  <2>1. Diverted(s, c) = s
    BY <1>1, <1>6 DEF Diverted
  <2>2. v \in Bodies /\ v.stack = w.stack /\ v.at = "string"
    BY <1>6 DEF Moved
  <2>3. WellFormed(v)
    BY <2>2 DEF WellFormed
  <2>4. Tracks(s, v)
    BY <1>1, <1>6, <2>2 DEF Tracks
  <2>5. QED
    BY <1>1, <1>2, <2>1, <2>2, <2>3, <2>4 DEF Follows
<1>7. CASE w.at = "escape" /\ Moved(w, v, "string")
  <2>1. v \in Bodies /\ v.stack = w.stack /\ v.at = "string"
    BY <1>7 DEF Moved
  <2>2. CASE c \notin {"slash", "n", "r"}
    BY <1>1, <1>2, <1>7, <2>1, <2>2, FailedType DEF Diverted, Follows
  <2>3. CASE c \in {"slash", "n", "r"}
    <3> DEFINE t == [s EXCEPT !.esc = FALSE]
    <3>1. Diverted(s, c) = t
      BY <1>1, <1>7, <2>3 DEF Diverted
    <3>2. /\ t \in Jstreams /\ t.levels = s.levels /\ t.in_string = s.in_string /\ t.esc = FALSE
          /\ t.on_path_next = s.on_path_next /\ t.content_next = s.content_next
          /\ t.divert = s.divert
      BY <1>1 DEF Jstreams
    <3> HIDE DEF t
    <3>3. WellFormed(v)
      BY <2>1 DEF WellFormed
    <3>4. Tracks(t, v)
      BY <1>1, <1>7, <2>1, <3>2 DEF Tracks
    <3>5. QED
      BY <1>2, <2>1, <3>1, <3>2, <3>3, <3>4 DEF Follows
  <2>4. QED
    BY <2>2, <2>3
<1>8. QED
  BY <1>4, <1>5, <1>6, <1>7

\* Between strings the scanner sees the structure.
LEMMA StructuralFacts ==
    ASSUME NEW s, NEW w, NEW c, Good(s, w), w.at \notin {"key", "key_escape", "string", "escape"}
    PROVE  /\ s \in Jstreams /\ w \in Bodies /\ s.err = "none" /\ Tracks(s, w) /\ WellFormed(w)
           /\ s.in_string = FALSE /\ s.esc = FALSE /\ s.divert = FALSE
           /\ jstream_feed(s, c) = Structural(s, c)
<1>1. /\ s \in Jstreams /\ w \in Bodies /\ s.err = "none" /\ Tracks(s, w) /\ WellFormed(w)
      /\ s.in_string = FALSE /\ s.esc = FALSE /\ s.divert = FALSE
  BY ScannerFields DEF Good, Tracks
<1>2. QED
  BY <1>1 DEF jstream_feed

LEMMA NoMatchFacts ==
    ASSUME NEW s \in Jstreams
    PROVE  /\ NoMatch(s) \in Jstreams /\ NoMatch(s).err = s.err /\ NoMatch(s).levels = s.levels
           /\ NoMatch(s).in_string = s.in_string /\ NoMatch(s).is_key = s.is_key
           /\ NoMatch(s).esc = s.esc /\ NoMatch(s).next_is_key = s.next_is_key
           /\ NoMatch(s).on_path_next = FALSE /\ NoMatch(s).content_next = FALSE
           /\ NoMatch(s).divert = s.divert
BY DEF NoMatch, Jstreams

LEMMA CopiedFollows ==
    ASSUME NEW s, NEW v, s \in Jstreams, v \in Bodies, s.err = "none" => WellFormed(v) /\ Tracks(s, v)
    PROVE  Follows(Copied(s), v)
BY CopiedFacts, TracksAlike DEF Follows

\* A number, true, false or null.
LEMMA ScalarValue ==
    ASSUME NEW s, NEW w, NEW v, Good(s, w), w.at \in {"value", "first_value"},
           Moved(w, v, IF w.stack = <<>> THEN "done" ELSE "after")
    PROVE  Follows(jstream_feed(s, "1"), v)
<1>1. /\ s \in Jstreams /\ w \in Bodies /\ Tracks(s, w) /\ s.in_string = FALSE /\ s.esc = FALSE
      /\ s.divert = FALSE /\ jstream_feed(s, "1") = Structural(s, "1")
  BY StructuralFacts
<1>2. Structural(s, "1") = Copied(NoMatch(s))
  BY DEF Structural
<1> DEFINE t == NoMatch(s)
<1>3. /\ t \in Jstreams /\ t.levels = s.levels /\ t.in_string = FALSE /\ t.esc = FALSE
      /\ t.on_path_next = FALSE /\ t.content_next = FALSE /\ t.divert = FALSE
  BY <1>1, NoMatchFacts
<1> HIDE DEF t
<1>4. v \in Bodies /\ v.stack = w.stack /\ v.at = IF w.stack = <<>> THEN "done" ELSE "after"
  BY DEF Moved
<1>5. WellFormed(v)
  <2>1. w.stack # <<>> => Len(w.stack) > 0
    BY <1>1, BodyFields
  <2>2. QED
    BY <1>4, <2>1 DEF WellFormed
<1>6. Tracks(t, v)
  BY <1>1, <1>3, <1>4 DEF Tracks
<1>7. QED
  BY <1>1, <1>2, <1>3, <1>4, <1>5, <1>6, CopiedFollows DEF t

LEMMA StringValue ==
    ASSUME NEW s, NEW w, NEW v, Good(s, w), w.at \in {"value", "first_value"},
           Moved(w, v, "string")
    PROVE  Follows(jstream_feed(s, "quote"), v)
<1> DEFINE d == Len(w.stack)
<1>1. /\ s \in Jstreams /\ w \in Bodies /\ Tracks(s, w) /\ WellFormed(w) /\ s.in_string = FALSE
      /\ s.esc = FALSE /\ s.divert = FALSE /\ jstream_feed(s, "quote") = Structural(s, "quote")
      /\ d \in Nat /\ s.err = "none"
  BY StructuralFacts, BodyFields
<1>2. Structural(s, "quote") = OpenString(s)
  BY DEF Structural
<1>3. ~(InObject(s) /\ s.next_is_key)
  <2> SUFFICES ASSUME InObject(s), s.next_is_key PROVE FALSE
    OBVIOUS
  <2>1. Len(s.levels) = d /\ d >= 1 /\ Last(s.levels) = s.levels[d]
    BY <1>1 DEF InObject, Depth, Tracks, Last
  <2>2. d \in 1..d /\ s.levels[d].is_obj
    BY <1>1, <2>1 DEF InObject
  <2>3. w.stack[d].obj
    BY <1>1, <2>2 DEF Tracks
  <2>4. w.at = "value"
    BY <1>1, <2>1, <2>3 DEF WellFormed
  <2>5. QED
    BY <1>1, <2>1, <2>3, <2>4 DEF Tracks
<1>4. v \in Bodies /\ v.stack = w.stack /\ v.at = "string" /\ WellFormed(v)
  BY DEF Moved, WellFormed
<1>5. s.content_next <=> w.stack = ContentPath
  <2>1. w.stack = ContentPath <=> d = 3 /\ AtTarget(w.stack, 3)
    BY <1>1, ContentPathFacts
  <2>2. s.content_next <=> w.at \in {"colon", "value"} /\ d = 3 /\ AtTarget(w.stack, d)
    BY <1>1 DEF Tracks
  <2>3. w.at = "first_value" => ~AtTarget(w.stack, 3) \/ d # 3
    BY <1>1 DEF WellFormed, AtTarget, OnPath
  <2>4. QED
    BY <2>1, <2>2, <2>3
<1> DEFINE u == NoMatch(s)
<1>6. /\ u \in Jstreams /\ u.levels = s.levels /\ u.in_string = FALSE /\ u.esc = FALSE
      /\ u.on_path_next = FALSE /\ u.content_next = FALSE /\ u.divert = FALSE
  BY <1>1, NoMatchFacts
<1> HIDE DEF u, d
<1>7. CASE s.content_next /\ s.content_found
  <2>1. OpenString(s) = Failed(u, "EDUP")
    BY <1>3, <1>7 DEF OpenString, u
  <2>2. QED
    BY <1>1, <1>2, <1>4, <1>6, <2>1, FailedType DEF Follows
<1>8. CASE s.content_next /\ ~s.content_found
  <2> DEFINE t == [u EXCEPT !.content_found = TRUE, !.divert = TRUE]
  <2>1. OpenString(s) = Copied(t)
    BY <1>3, <1>8 DEF OpenString, u
  <2>2. /\ t \in Jstreams /\ t.levels = u.levels /\ t.in_string = u.in_string /\ t.esc = u.esc
        /\ t.on_path_next = u.on_path_next /\ t.content_next = u.content_next
        /\ t.divert = TRUE
    BY <1>6 DEF Jstreams
  <2> HIDE DEF t
  <2>3. Tracks(t, v)
    BY <1>1, <1>4, <1>5, <1>6, <1>8, <2>2 DEF Tracks
  <2>4. QED
    BY <1>1, <1>2, <1>4, <2>1, <2>2, <2>3, CopiedFollows
<1>9. CASE ~s.content_next
  <2> DEFINE t == [u EXCEPT !.in_string = TRUE, !.is_key = FALSE, !.key = <<>>,
                            !.key_overflow = FALSE]
  <2>1. OpenString(s) = Copied(t)
    <3> DEFINE starting == InObject(s) /\ s.next_is_key
    <3>1. starting = FALSE
      BY <1>3
    <3> HIDE DEF starting
    <3>2. OpenString(s) = Copied([(IF starting THEN s ELSE u) EXCEPT
                    !.in_string = TRUE, !.is_key = starting, !.key = <<>>, !.key_overflow = FALSE])
      BY <1>9 DEF OpenString, starting, u
    <3>3. QED
      BY <3>1, <3>2
  <2>2. /\ t \in Jstreams /\ t.levels = u.levels /\ t.in_string = TRUE /\ t.is_key = FALSE
        /\ t.esc = u.esc /\ t.on_path_next = u.on_path_next /\ t.content_next = u.content_next
        /\ t.divert = u.divert
    <3>1. <<>> \in Seq(NameChars)
      OBVIOUS
    <3>2. QED
      BY <1>6, <3>1 DEF Jstreams
  <2> HIDE DEF t
  <2>3. Tracks(t, v)
    BY <1>1, <1>4, <1>5, <1>6, <1>9, <2>2 DEF Tracks
  <2>4. QED
    BY <1>1, <1>2, <1>4, <2>1, <2>2, <2>3, CopiedFollows
<1>10. QED
  BY <1>7, <1>8, <1>9

LEMMA ColonWritten ==
    ASSUME NEW s, NEW w, NEW v, Good(s, w), w.at = "colon", Moved(w, v, "value")
    PROVE  Follows(jstream_feed(s, ":"), v)
<1>1. /\ s \in Jstreams /\ w \in Bodies /\ Tracks(s, w) /\ s.in_string = FALSE /\ s.esc = FALSE
      /\ s.divert = FALSE /\ jstream_feed(s, ":") = Structural(s, ":")
  BY StructuralFacts
<1> DEFINE t == [s EXCEPT !.next_is_key = FALSE]
<1>2. Structural(s, ":") = Copied(t)
  BY DEF Structural
<1>3. /\ t \in Jstreams /\ t.levels = s.levels /\ t.in_string = FALSE /\ t.esc = FALSE
      /\ t.on_path_next = s.on_path_next /\ t.content_next = s.content_next /\ t.divert = FALSE
      /\ t.next_is_key = FALSE
  BY <1>1 DEF Jstreams
<1> HIDE DEF t
<1>4. v \in Bodies /\ v.stack = w.stack /\ v.at = "value" /\ WellFormed(v)
  BY DEF Moved, WellFormed
<1>5. Tracks(t, v)
  BY <1>1, <1>3, <1>4 DEF Tracks
<1>6. QED
  BY <1>1, <1>2, <1>3, <1>4, <1>5, CopiedFollows

LEMMA CommaWritten ==
    ASSUME NEW s, NEW w, NEW v, Good(s, w), w.at = "after",
           Moved(w, v, IF Last(w.stack).obj THEN "next_key" ELSE "value")
    PROVE  Follows(jstream_feed(s, ","), v)
<1> DEFINE d == Len(w.stack)
<1>1. /\ s \in Jstreams /\ w \in Bodies /\ Tracks(s, w) /\ s.in_string = FALSE /\ s.esc = FALSE
      /\ s.divert = FALSE /\ jstream_feed(s, ",") = Structural(s, ",")
      /\ d \in Nat /\ d > 0 /\ Last(w.stack) = w.stack[d] /\ d \in 1..d
  <2>1. /\ s \in Jstreams /\ w \in Bodies /\ Tracks(s, w) /\ s.in_string = FALSE /\ s.esc = FALSE
        /\ s.divert = FALSE /\ jstream_feed(s, ",") = Structural(s, ",") /\ WellFormed(w)
    BY StructuralFacts
  <2>2. d \in Nat /\ d > 0
    BY <2>1, BodyFields DEF WellFormed
  <2>3. Last(w.stack) = w.stack[d]
    BY DEF Last
  <2>4. d \in 1..d
    BY <2>2
  <2>5. QED
    BY <2>1, <2>2, <2>3, <2>4
<1>2. InObject(s) <=> w.stack[d].obj
  <2>1. Len(s.levels) = d /\ (s.levels[d].is_obj <=> w.stack[d].obj)
    BY <1>1 DEF Tracks
  <2>2. Last(s.levels) = s.levels[d] /\ Depth(s) = d
    BY <2>1 DEF Last, Depth
  <2>3. InObject(s) <=> Last(s.levels).is_obj
    <3>1. Depth(s) >= 1
      BY <1>1, <2>2, Positive, Zenon
    <3>2. QED
      BY <3>1, Zenon DEF InObject
  <2>4. QED
    BY <2>1, <2>2, <2>3
<1> DEFINE key == InObject(s)
<1> DEFINE t == [s EXCEPT !.next_is_key = key]
<1>3. Structural(s, ",") = Copied(t)
  BY DEF Structural
<1>4. key \in BOOLEAN
  BY <1>1 DEF InObject
<1>5. /\ t \in Jstreams /\ t.levels = s.levels /\ t.in_string = FALSE /\ t.esc = FALSE
      /\ t.on_path_next = s.on_path_next /\ t.content_next = s.content_next /\ t.divert = FALSE
      /\ t.next_is_key = key
  <2> HIDE DEF key
  <2> QED
    BY <1>1, <1>4 DEF Jstreams
<1> HIDE DEF t, key
<1>6. v \in Bodies /\ v.stack = w.stack /\ v.at = IF w.stack[d].obj THEN "next_key" ELSE "value"
  BY <1>1 DEF Moved
<1>7. WellFormed(v)
  BY <1>1, <1>6 DEF WellFormed
<1>8. Tracks(t, v)
  <2>1. /\ ~s.on_path_next /\ ~s.content_next
        /\ \A i \in 1..d : /\ s.levels[i].is_obj <=> w.stack[i].obj
                           /\ s.levels[i].on_path <=> OnPath(w.stack, i)
        /\ Len(s.levels) = d
    BY <1>1 DEF Tracks
  <2>2. ~w.stack[d].obj => ~AtTarget(w.stack, d)
    BY <1>1 DEF AtTarget, OnPath
  <2>3. t.next_is_key <=> w.stack[d].obj
    BY <1>2, <1>5 DEF key
  <2>4. QED
    BY <1>5, <1>6, <2>1, <2>2, <2>3 DEF Tracks
<1>9. QED
  BY <1>1, <1>3, <1>5, <1>6, <1>7, <1>8, CopiedFollows

\* The keys of a writer's innermost object do not decide which levels are on
\* the path.
LEMMA OnPathBelow ==
    ASSUME NEW a, NEW b, NEW i \in Int,
           \A j \in 1..i : a[j].obj = b[j].obj,
           \A j \in 1..(i - 1) : a[j].key = b[j].key
    PROVE  OnPath(a, i) <=> OnPath(b, i)
BY DEF OnPath

\* Writing the innermost object's key.
Keyed(w, v, key) ==
    LET d == Len(w.stack) IN
    /\ v \in Bodies /\ v.at = "key" /\ Len(v.stack) = d
    /\ \A i \in 1..d : v.stack[i].obj = w.stack[i].obj
    /\ \A i \in 1..(d - 1) : v.stack[i].key = w.stack[i].key
    /\ v.stack[d].key = key

LEMMA KeyedFacts ==
    ASSUME NEW w \in Bodies, Len(w.stack) > 0, NEW key \in Seq(NameChars)
    PROVE  Keyed(w, [w EXCEPT !.stack[Len(w.stack)].key = key, !.at = "key"], key)
<1> DEFINE d == Len(w.stack)
<1> DEFINE v == [w EXCEPT !.stack[d].key = key, !.at = "key"]
<1>1. w.stack \in Seq(Frame) /\ d \in Nat /\ d \in 1..d
  BY BodyFields
<1>2. \A i \in 1..d : w.stack[i] \in Frame
  BY <1>1
<1> DEFINE new == [w.stack EXCEPT ![d].key = key]
<1>3. v = [w EXCEPT !.stack = new, !.at = "key"]
  BY DEF Bodies
<1> DEFINE f == [w.stack[d] EXCEPT !.key = key]
<1>4. f \in Frame /\ f.obj = w.stack[d].obj /\ f.key = key
  BY <1>1, <1>2 DEF Frame
<1>5. new = [w.stack EXCEPT ![d] = f]
  OBVIOUS
<1> HIDE DEF f, new, d
<1>6. new \in Seq(Frame) /\ Len(new) = d /\ new[d] = f /\ \A i \in 1..(d - 1) : new[i] = w.stack[i]
  BY <1>1, <1>4, <1>5 DEF d
<1>7. v \in Bodies /\ v.at = "key" /\ v.stack = new
  BY <1>3, <1>6 DEF Bodies, Frame
<1>8. \A i \in 1..d : i \in 1..(d - 1) \/ i = d
  BY <1>1
<1>9. QED
  BY <1>1, <1>4, <1>6, <1>7, <1>8 DEF Keyed, d

LEMMA KeyedTracks ==
    ASSUME NEW s, NEW t, NEW w, NEW v, NEW key, Good(s, w), Keyed(w, v, key),
           w.at \in {"first_key", "next_key", "key", "key_escape"},
           t.levels = s.levels, t.in_string = TRUE, t.is_key = TRUE, t.esc = FALSE,
           t.divert = FALSE, t.on_path_next = s.on_path_next, t.content_next = s.content_next,
           ~t.key_overflow => t.key = key,
           t.key_overflow => Off(key)
    PROVE  WellFormed(v) /\ Tracks(t, v)
<1> DEFINE d == Len(w.stack)
<1>1. /\ d \in Nat /\ d > 0 /\ w.stack[d].obj /\ Tracks(s, w) /\ v \in Bodies
      /\ ~s.on_path_next /\ ~s.content_next /\ d \in 1..d
  BY BodyFields DEF Good, WellFormed, Tracks, Keyed
<1>2. /\ v.at = "key" /\ Len(v.stack) = d
      /\ \A i \in 1..d : v.stack[i].obj = w.stack[i].obj
      /\ \A i \in 1..(d - 1) : v.stack[i].key = w.stack[i].key
      /\ v.stack[d].key = key
  BY DEF Keyed
<1>3. WellFormed(v)
  BY <1>1, <1>2 DEF WellFormed
<1>4. /\ Len(s.levels) = d
      /\ \A i \in 1..d : /\ s.levels[i].is_obj <=> w.stack[i].obj
                         /\ s.levels[i].on_path <=> OnPath(w.stack, i)
  BY <1>1 DEF Tracks
<1> HIDE DEF d
<1>5. \A i \in 1..d : OnPath(w.stack, i) <=> OnPath(v.stack, i)
  <2> TAKE i \in 1..d
  <2>1. \A j \in 1..i : w.stack[j].obj = v.stack[j].obj
    BY <1>1, <1>2
  <2>2. \A j \in 1..(i - 1) : w.stack[j].key = v.stack[j].key
    BY <1>1, <1>2
  <2>3. QED
    BY <2>1, <2>2, OnPathBelow
<1>6. \A i \in 1..d : /\ t.levels[i].is_obj <=> v.stack[i].obj
                      /\ t.levels[i].on_path <=> OnPath(v.stack, i)
  BY <1>2, <1>4, <1>5
<1>7. QED
  BY <1>1, <1>2, <1>3, <1>4, <1>6 DEF Tracks, Off

LEMMA KeyOpened ==
    ASSUME NEW s, NEW w, NEW v, Good(s, w), w.at \in {"first_key", "next_key"}, Keyed(w, v, <<>>)
    PROVE  Follows(jstream_feed(s, "quote"), v)
<1> DEFINE d == Len(w.stack)
<1>1. /\ s \in Jstreams /\ w \in Bodies /\ Tracks(s, w) /\ s.in_string = FALSE /\ s.esc = FALSE
      /\ s.divert = FALSE /\ jstream_feed(s, "quote") = Structural(s, "quote") /\ WellFormed(w)
  BY StructuralFacts
<1>2. d \in Nat /\ d > 0 /\ w.stack[d].obj /\ d \in 1..d /\ s.next_is_key
  BY <1>1, BodyFields DEF WellFormed, Tracks
<1>3. InObject(s) /\ s.next_is_key
  <2>1. Len(s.levels) = d /\ s.levels[d].is_obj
    BY <1>1, <1>2 DEF Tracks
  <2>2. Last(s.levels) = s.levels[d] /\ Depth(s) = d
    BY <2>1 DEF Last, Depth
  <2>3. QED
    BY <1>2, <2>1, <2>2 DEF InObject
<1> DEFINE t == [s EXCEPT !.in_string = TRUE, !.is_key = TRUE, !.key = <<>>, !.key_overflow = FALSE]
<1>4. Structural(s, "quote") = Copied(t)
  <2> DEFINE starting == InObject(s) /\ s.next_is_key
  <2>1. starting = TRUE
    BY <1>3
  <2> HIDE DEF starting
  <2>2. OpenString(s) = Copied([(IF starting THEN s ELSE NoMatch(s)) EXCEPT
                  !.in_string = TRUE, !.is_key = starting, !.key = <<>>, !.key_overflow = FALSE])
    BY <2>1 DEF OpenString, starting
  <2>3. QED
    BY <2>1, <2>2 DEF Structural
<1>5. /\ t \in Jstreams /\ t.levels = s.levels /\ t.in_string = TRUE /\ t.is_key = TRUE
      /\ t.esc = s.esc /\ t.on_path_next = s.on_path_next /\ t.content_next = s.content_next
      /\ t.divert = s.divert /\ t.key = <<>> /\ t.key_overflow = FALSE
  <2>1. <<>> \in Seq(NameChars)
    OBVIOUS
  <2>2. QED
    BY <1>1, <2>1 DEF Jstreams
<1> HIDE DEF t
<1>6. WellFormed(v) /\ Tracks(t, v)
  BY <1>1, <1>5, KeyedTracks
<1>7. QED
  BY <1>1, <1>4, <1>5, <1>6, CopiedFollows DEF Keyed

\* Inside a key.
LEMMA KeyFacts ==
    ASSUME NEW s, NEW w, Good(s, w), w.at \in {"key", "key_escape"}
    PROVE  /\ s \in Jstreams /\ w \in Bodies /\ s.err = "none" /\ Tracks(s, w) /\ WellFormed(w)
           /\ s.in_string = TRUE /\ s.is_key = TRUE /\ s.divert = FALSE
           /\ s.esc = (w.at = "key_escape")
           /\ \A c : jstream_feed(s, c) = InString(s, c)
           /\ Copied(s) \in Jstreams
           /\ Copied(s).err = "none" => Alike(s, Copied(s)) /\ Good(Copied(s), w)
           /\ \A c : Copied(s).err # "none" => InString(s, c) = Copied(s)
<1>1. /\ s \in Jstreams /\ w \in Bodies /\ s.err = "none" /\ Tracks(s, w) /\ WellFormed(w)
      /\ s.in_string = TRUE /\ s.is_key = TRUE /\ s.divert = FALSE
      /\ s.esc = (w.at = "key_escape")
  BY ScannerFields DEF Good, Tracks
<1>2. \A c : jstream_feed(s, c) = InString(s, c)
  BY <1>1 DEF jstream_feed
<1>3. Copied(s) \in Jstreams /\ (Copied(s).err = "none" => Alike(s, Copied(s)))
  BY <1>1, CopiedFacts
<1>4. Copied(s).err = "none" => Good(Copied(s), w)
  BY <1>1, <1>3, TracksAlike DEF Good
<1>5. \A c : Copied(s).err # "none" => InString(s, c) = Copied(s)
  BY DEF InString
<1>6. QED
  BY <1>1, <1>2, <1>3, <1>4, <1>5

LEMMA KeyLetter ==
    ASSUME NEW s, NEW w, NEW v, NEW c \in NameChars, Good(s, w), w.at = "key",
           Keyed(w, v, Append(Last(w.stack).key, c))
    PROVE  Follows(jstream_feed(s, c), v)
<1> DEFINE d == Len(w.stack)
<1> DEFINE u == Copied(s)
<1>1. /\ jstream_feed(s, c) = InString(s, c) /\ u \in Jstreams /\ v \in Bodies /\ w \in Bodies
      /\ u.err # "none" => InString(s, c) = u
      /\ u.err = "none" => Good(u, w)
  BY KeyFacts DEF Keyed
<1>2. CASE u.err # "none"
  <2> HIDE DEF u
  <2> QED
    BY <1>1, <1>2 DEF Follows
<1>3. CASE u.err = "none"
  <2>1. Good(u, w) /\ u.in_string = TRUE /\ u.is_key = TRUE /\ u.esc = FALSE /\ u.divert = FALSE
    BY <1>1, <1>3, KeyFacts DEF Good
  <2>2. /\ d \in Nat /\ d > 0 /\ d \in 1..d /\ Last(w.stack) = w.stack[d]
        /\ w.stack[d].key \in Seq(NameChars)
    <3>1. d \in Nat /\ d > 0 /\ d \in 1..d
      BY <1>1, BodyFields DEF Good, WellFormed
    <3>2. QED
      BY <1>1, <3>1, BodyFields DEF Last
  <2> DEFINE key == w.stack[d].key
  <2>3. /\ ~u.key_overflow => u.key = key
        /\ u.key_overflow => key # <<>>
    BY <2>1 DEF Good, Tracks
  <2>4. InString(s, c) = IF Len(u.key) < MaxKey THEN [u EXCEPT !.key = Append(@, c)]
                         ELSE [u EXCEPT !.key_overflow = TRUE]
    <3>1. c # "quote" /\ c # "backslash"
      BY JstreamAssumption
    <3> HIDE DEF u
    <3>2. QED
      BY <1>3, <2>1, <3>1 DEF InString, u
  <2>5. key \in Seq(NameChars) /\ c \in NameChars /\ Keyed(w, v, Append(key, c))
    BY <2>2
  <2>6. u.key \in Seq(NameChars) /\ MaxKey \in Nat /\ MaxKey > 0
    BY <2>1, ScannerFields, JstreamAssumption DEF Good
  <2> HIDE DEF u, d, key
  <2>7. /\ Len(key) \in Nat /\ Len(Append(key, c)) = Len(key) + 1
        /\ Len(u.key) \in Nat /\ Append(u.key, c) \in Seq(NameChars)
    BY <2>5, <2>6
  <2>8. CASE Len(u.key) < MaxKey
    <3> DEFINE t == [u EXCEPT !.key = Append(u.key, c)]
    <3>1. InString(s, c) = t
      BY <2>4, <2>8
    <3>2. /\ t \in Jstreams /\ t.levels = u.levels /\ t.in_string = u.in_string
          /\ t.is_key = u.is_key /\ t.esc = u.esc /\ t.on_path_next = u.on_path_next
          /\ t.content_next = u.content_next /\ t.divert = u.divert
          /\ t.key = Append(u.key, c) /\ t.key_overflow = u.key_overflow
      BY <1>1, <2>7 DEF Jstreams
    <3> HIDE DEF t
    <3>3. ~t.key_overflow => t.key = Append(key, c)
      BY <2>3, <3>2
    <3>4. t.key_overflow => Off(Append(key, c))
      BY <2>3, <2>5, <3>2, LongerIsOff
    <3>5. WellFormed(v) /\ Tracks(t, v)
      BY <2>1, <2>5, <3>2, <3>3, <3>4, KeyedTracks
    <3>6. QED
      BY <1>1, <3>1, <3>2, <3>5 DEF Follows
  <2>9. CASE ~(Len(u.key) < MaxKey)
    <3> DEFINE t == [u EXCEPT !.key_overflow = TRUE]
    <3>1. InString(s, c) = t
      BY <2>4, <2>9
    <3>2. /\ t \in Jstreams /\ t.levels = u.levels /\ t.in_string = u.in_string
          /\ t.is_key = u.is_key /\ t.esc = u.esc /\ t.on_path_next = u.on_path_next
          /\ t.content_next = u.content_next /\ t.divert = u.divert
          /\ t.key_overflow = TRUE
      BY <1>1 DEF Jstreams
    <3> HIDE DEF t
    <3>3. key # <<>>
      <4>1. Len(<<>>) = 0
        OBVIOUS
      <4>2. QED
        BY <2>3, <2>6, <2>9, <4>1
    <3>4. Off(Append(key, c))
      BY <2>5, <3>3, LongerIsOff
    <3>5. WellFormed(v) /\ Tracks(t, v)
      BY <2>1, <2>5, <3>2, <3>4, KeyedTracks
    <3>6. QED
      BY <1>1, <3>1, <3>2, <3>5 DEF Follows
  <2>10. QED
    BY <2>8, <2>9
<1>4. QED
  BY <1>2, <1>3

LEMMA KeyBackslash ==
    ASSUME NEW s, NEW w, NEW v, Good(s, w), w.at = "key",
           Moved(w, v, "key_escape")
    PROVE  Follows(jstream_feed(s, "backslash"), v)
<1> DEFINE d == Len(w.stack)
<1> DEFINE u == Copied(s)
<1>1. /\ jstream_feed(s, "backslash") = InString(s, "backslash") /\ u \in Jstreams /\ w \in Bodies
      /\ u.err # "none" => InString(s, "backslash") = u
      /\ u.err = "none" => Good(u, w)
  BY KeyFacts
<1>2. v \in Bodies /\ v.stack = w.stack /\ v.at = "key_escape"
  BY DEF Moved
<1>3. CASE u.err # "none"
  <2> HIDE DEF u
  <2> QED
    BY <1>1, <1>2, <1>3 DEF Follows
<1>4. CASE u.err = "none"
  <2>1. /\ Good(u, w) /\ u.in_string = TRUE /\ u.is_key = TRUE /\ u.esc = FALSE
        /\ u.divert = FALSE /\ u \in Jstreams
    BY <1>1, <1>4, KeyFacts DEF Good
  <2>2. d > 0 /\ w.stack[d].obj
    BY <1>1, BodyFields DEF Good, WellFormed
  <2> DEFINE t == [u EXCEPT !.esc = TRUE]
  <2>3. InString(s, "backslash") = t
    <3> HIDE DEF u
    <3> QED
      BY <1>4, <2>1 DEF InString, u
  <2>4. Tracks(u, w)
    BY <2>1 DEF Good
  <2> HIDE DEF u
  <2>6. /\ t \in Jstreams /\ t.levels = u.levels /\ t.in_string = TRUE /\ t.is_key = TRUE
        /\ t.esc = TRUE /\ t.on_path_next = u.on_path_next /\ t.content_next = u.content_next
        /\ t.divert = FALSE /\ t.key = u.key /\ t.key_overflow = u.key_overflow
    BY <2>1 DEF Jstreams
  <2> HIDE DEF t
  <2>7. WellFormed(v)
    BY <1>2, <2>2 DEF WellFormed
  <2>8. Tracks(t, v)
    BY <1>2, <2>4, <2>6 DEF Tracks
  <2>9. QED
    BY <1>1, <1>2, <2>3, <2>6, <2>7, <2>8 DEF Follows
<1>5. QED
  BY <1>3, <1>4

LEMMA KeyEscaped ==
    ASSUME NEW s, NEW w, NEW v, NEW c, NEW l \in EscapedLetters, Good(s, w), w.at = "key_escape",
           Keyed(w, v, Append(Last(w.stack).key, l))
    PROVE  Follows(jstream_feed(s, c), v)
<1> DEFINE d == Len(w.stack)
<1> DEFINE u == Copied(s)
<1>1. /\ jstream_feed(s, c) = InString(s, c) /\ u \in Jstreams /\ v \in Bodies /\ w \in Bodies
      /\ u.err # "none" => InString(s, c) = u
      /\ u.err = "none" => Good(u, w)
  <2>1. v \in Bodies
    BY DEF Keyed
  <2>2. QED
    BY <2>1, KeyFacts
<1>2. CASE u.err # "none"
  <2> HIDE DEF u
  <2> QED
    BY <1>1, <1>2 DEF Follows
<1>3. CASE u.err = "none"
  <2>1. /\ Good(u, w) /\ u.in_string = TRUE /\ u.is_key = TRUE /\ u.esc = TRUE
        /\ u.divert = FALSE /\ u \in Jstreams
    BY <1>1, <1>3, KeyFacts DEF Good
  <2>2. Last(w.stack).key \in Seq(NameChars)
    <3>1. d \in Nat /\ d > 0 /\ d \in 1..d
      BY <1>1, BodyFields DEF Good, WellFormed
    <3>2. QED
      BY <1>1, <3>1, BodyFields DEF Last
  <2>3. Off(Append(Last(w.stack).key, l))
    BY <2>2, LongerIsOff
  <2> DEFINE t == [u EXCEPT !.esc = FALSE, !.key_overflow = TRUE]
  <2>4. InString(s, c) = t
    <3>1. InString(s, c) = [u EXCEPT !.esc = FALSE, !.key_overflow = @ \/ u.is_key]
      <4> HIDE DEF u
      <4> QED
        BY <1>3, <2>1 DEF InString, u
    <3> HIDE DEF u
    <3>2. (u.key_overflow \/ u.is_key) = TRUE
      BY <2>1
    <3>3. QED
      BY <3>1, <3>2
  <2> HIDE DEF u
  <2>5. /\ t \in Jstreams /\ t.levels = u.levels /\ t.in_string = u.in_string
        /\ t.is_key = u.is_key /\ t.esc = FALSE /\ t.on_path_next = u.on_path_next
        /\ t.content_next = u.content_next /\ t.divert = u.divert /\ t.key_overflow = TRUE
    BY <2>1 DEF Jstreams
  <2> HIDE DEF t
  <2>6. WellFormed(v) /\ Tracks(t, v)
    BY <2>1, <2>3, <2>5, KeyedTracks
  <2>7. QED
    BY <1>1, <2>4, <2>5, <2>6 DEF Follows
<1>4. QED
  BY <1>2, <1>3

LEMMA KeyClosed ==
    ASSUME NEW s, NEW w, NEW v, Good(s, w), w.at = "key", Moved(w, v, "colon")
    PROVE  Follows(jstream_feed(s, "quote"), v)
<1> DEFINE d == Len(w.stack)
<1> DEFINE u == Copied(s)
<1>1. /\ jstream_feed(s, "quote") = InString(s, "quote") /\ u \in Jstreams /\ w \in Bodies
      /\ u.err # "none" => InString(s, "quote") = u
      /\ u.err = "none" => Good(u, w)
  BY KeyFacts
<1>2. v \in Bodies /\ v.stack = w.stack /\ v.at = "colon"
  BY DEF Moved
<1>3. CASE u.err # "none"
  <2> HIDE DEF u
  <2> QED
    BY <1>1, <1>2, <1>3 DEF Follows
<1>4. CASE u.err = "none"
  <2>1. /\ Good(u, w) /\ u.in_string = TRUE /\ u.is_key = TRUE /\ u.esc = FALSE
        /\ u.divert = FALSE /\ u \in Jstreams /\ Tracks(u, w)
    BY <1>1, <1>4, KeyFacts DEF Good
  <2>2. d \in Nat /\ d > 0 /\ d \in 1..d /\ w.stack[d].obj
    BY <1>1, BodyFields DEF Good, WellFormed
  <2> DEFINE closed == [u EXCEPT !.in_string = FALSE]
  <2>3. InString(s, "quote") = key_complete(closed)
    <3> HIDE DEF u
    <3> QED
      BY <1>4, <2>1 DEF InString, u
  <2> HIDE DEF u
  <2>4. /\ closed \in Jstreams /\ closed.levels = u.levels /\ closed.in_string = FALSE
        /\ closed.esc = FALSE /\ closed.divert = FALSE
        /\ closed.key = u.key /\ closed.key_overflow = u.key_overflow
    BY <2>1 DEF Jstreams
  <2> HIDE DEF closed
  <2>5. /\ Len(u.levels) = d
        /\ \A i \in 1..d : /\ u.levels[i].is_obj <=> w.stack[i].obj
                           /\ u.levels[i].on_path <=> OnPath(w.stack, i)
        /\ ~u.key_overflow => u.key = w.stack[d].key
        /\ u.key_overflow => \A i \in 1..3 : w.stack[d].key # kTarget[i]
    BY <2>1 DEF Tracks
  <2> DEFINE hit == ~u.key_overflow /\ d \in 1..3 /\ u.levels[d].on_path /\ u.key = kTarget[d]
  <2> HIDE DEF d
  <2>6. hit <=> AtTarget(w.stack, d)
    <3>1. u.levels[d].on_path <=> OnPath(w.stack, d)
      BY <2>2, <2>5
    <3>2. OnPath(w.stack, d) => d \in 1..3
      BY DEF OnPath
    <3>3. u.key_overflow => ~(d \in 1..3 /\ w.stack[d].key = kTarget[d])
      BY <2>5
    <3>4. QED
      BY <2>5, <3>1, <3>2, <3>3, Zenon DEF AtTarget
  <2> DEFINE path == hit /\ d < 3
  <2> DEFINE cont == hit /\ d = 3
  <2> DEFINE t == [closed EXCEPT !.on_path_next = path, !.content_next = cont]
  <2>7. key_complete(closed) = t
    <3>1. Depth(closed) = d
      BY <2>4, <2>5 DEF Depth
    <3>2. QED
      BY <2>4, <3>1 DEF key_complete
  <2>8. path \in BOOLEAN /\ cont \in BOOLEAN
    OBVIOUS
  <2>9. /\ path <=> d \in 1..2 /\ AtTarget(w.stack, d)
        /\ cont <=> d = 3 /\ AtTarget(w.stack, d)
    <3>1. d < 3 <=> d \in 1..2
      BY <2>2
    <3> HIDE DEF hit
    <3>2. QED
      BY <2>6, <3>1, Zenon DEF path, cont
  <2> HIDE DEF hit, path, cont
  <2>10. /\ t \in Jstreams /\ t.levels = closed.levels /\ t.in_string = FALSE /\ t.esc = FALSE
         /\ t.divert = FALSE /\ t.on_path_next = path /\ t.content_next = cont
    BY <2>4, <2>8 DEF Jstreams
  <2> HIDE DEF t
  <2>11. WellFormed(v)
    BY <1>2, <2>2 DEF WellFormed, d
  <2>12. Tracks(t, v)
    <3>1. Len(v.stack) = d
      BY <1>2 DEF d
    <3>2. QED
      BY <1>2, <2>2, <2>4, <2>5, <2>9, <2>10, <3>1 DEF Tracks
  <2>13. QED
    BY <1>1, <1>2, <2>3, <2>7, <2>10, <2>11, <2>12 DEF Follows
<1>5. QED
  BY <1>3, <1>4

\* A container is opened.
LEMMA PushFacts ==
    ASSUME NEW w \in Bodies, NEW obj \in BOOLEAN
    PROVE  LET v == Push(w, obj)
               d == Len(w.stack)
           IN  /\ v \in Bodies /\ v.at = IF obj THEN "first_key" ELSE "first_value"
               /\ Len(v.stack) = d + 1 /\ \A i \in 1..d : v.stack[i] = w.stack[i]
               /\ v.stack[d + 1].obj = obj
<1> DEFINE d == Len(w.stack)
<1> DEFINE f == [obj |-> obj, key |-> <<>>]
<1> DEFINE new == Append(w.stack, f)
<1> DEFINE v == Push(w, obj)
<1>1. w.stack \in Seq(Frame) /\ d \in Nat
  BY BodyFields
<1>2. f \in Frame /\ f.obj = obj
  <2>1. <<>> \in Seq(NameChars)
    OBVIOUS
  <2>2. QED
    BY <2>1 DEF Frame
<1> HIDE DEF f
<1>3. /\ new \in Seq(Frame) /\ Len(new) = d + 1 /\ new[d + 1] = f
      /\ \A i \in 1..d : new[i] = w.stack[i]
  BY <1>1, <1>2
<1>4. v = [w EXCEPT !.stack = new, !.at = IF obj THEN "first_key" ELSE "first_value"]
  BY DEF Push, f
<1> HIDE DEF new, d
<1>5. v \in Bodies /\ v.stack = new /\ v.at = IF obj THEN "first_key" ELSE "first_value"
  <2> DEFINE place == IF obj THEN "first_key" ELSE "first_value"
  <2>1. place \in {"value", "first_value", "first_key", "next_key", "key", "key_escape",
                   "colon", "string", "escape", "after", "done"}
    OBVIOUS
  <2> HIDE DEF place, v
  <2>2. v = [w EXCEPT !.stack = new, !.at = place]
    BY <1>4 DEF place
  <2>3. v \in Bodies /\ v.stack = new /\ v.at = place
    BY <1>3, <2>1, <2>2 DEF Bodies, Frame
  <2>4. QED
    BY <2>3 DEF place
<1> HIDE DEF v
<1>6. QED
  BY <1>2, <1>3, <1>5 DEF v, d

\* What a container that is opened makes of the scanner.
Nested(s, obj) ==
    [NoMatch(s) EXCEPT
        !.levels = Append(@, [is_obj |-> obj, on_path |-> obj /\ (Depth(s) = 0 \/ s.on_path_next)]),
        !.next_is_key = obj]
Entered(s, obj) == IF Depth(s) >= MaxDepth THEN Failed(s, "EDEPTH") ELSE Copied(Nested(s, obj))

LEMMA NestedFollows ==
    ASSUME NEW s, NEW w, Good(s, w), w.at \in {"value", "first_value"}, NEW obj \in BOOLEAN
    PROVE  Follows(Entered(s, obj), Push(w, obj))
<1> DEFINE d == Len(w.stack)
<1> DEFINE v == Push(w, obj)
<1>1. /\ s \in Jstreams /\ w \in Bodies /\ Tracks(s, w) /\ s.in_string = FALSE /\ s.esc = FALSE
      /\ s.divert = FALSE /\ WellFormed(w)
  BY StructuralFacts
<1>3. /\ v \in Bodies /\ v.at = IF obj THEN "first_key" ELSE "first_value"
      /\ Len(v.stack) = d + 1 /\ \A i \in 1..d : v.stack[i] = w.stack[i]
      /\ v.stack[d + 1].obj = obj
  BY <1>1, PushFacts
<1>4. /\ d \in Nat /\ Len(s.levels) = d /\ s.levels \in Seq(Level)
      /\ \A i \in 1..d : /\ s.levels[i].is_obj <=> w.stack[i].obj
                         /\ s.levels[i].on_path <=> OnPath(w.stack, i)
  BY <1>1, BodyFields, ScannerFields DEF Tracks
<1>5. s.on_path_next <=> w.at = "value" /\ d \in 1..2 /\ AtTarget(w.stack, d)
  BY <1>1 DEF Tracks
<1>6. w.at = "first_value" => d > 0 /\ ~w.stack[d].obj
  BY <1>1 DEF WellFormed
<1> HIDE DEF v, d
<1>7. CASE Depth(s) >= MaxDepth
  BY <1>1, <1>3, <1>7, FailedType DEF Entered, Follows, v
<1>8. CASE ~(Depth(s) >= MaxDepth)
  <2> DEFINE path == obj /\ (Depth(s) = 0 \/ s.on_path_next)
  <2> DEFINE level == [is_obj |-> obj, on_path |-> path]
  <2> DEFINE u == NoMatch(s)
  <2> DEFINE new == Append(s.levels, level)
  <2> DEFINE t == [u EXCEPT !.levels = new, !.next_is_key = obj]
  <2>1. Entered(s, obj) = Copied(t)
    <3>1. u.levels = s.levels
      BY <1>1, NoMatchFacts
    <3>2. Entered(s, obj) = Copied([u EXCEPT !.levels = Append(@, level), !.next_is_key = obj])
      BY <1>8 DEF Entered, Nested
    <3> HIDE DEF u, level
    <3>3. QED
      BY <3>1, <3>2
  <2>2. path \in BOOLEAN
    OBVIOUS
  <2>3. path <=> obj /\ (d = 0 \/ s.on_path_next)
    BY <1>4 DEF Depth
  <2>4. level \in Level /\ (level.is_obj <=> obj) /\ (level.on_path <=> path)
    <3> HIDE DEF path
    <3> QED
      BY <2>2 DEF Level
  <2> HIDE DEF level, path
  <2>5. /\ new \in Seq(Level) /\ Len(new) = d + 1 /\ new[d + 1] = level
        /\ \A i \in 1..d : new[i] = s.levels[i]
    BY <1>4, <2>4
  <2>6. /\ u \in Jstreams /\ u.err = s.err /\ u.in_string = FALSE /\ u.esc = FALSE
        /\ u.on_path_next = FALSE /\ u.content_next = FALSE /\ u.divert = FALSE
    BY <1>1, NoMatchFacts
  <2> HIDE DEF u, new
  <2>7. /\ t \in Jstreams /\ t.levels = new /\ t.in_string = FALSE /\ t.esc = FALSE
        /\ t.on_path_next = FALSE /\ t.content_next = FALSE /\ t.divert = FALSE
        /\ t.next_is_key = obj
    BY <2>2, <2>5, <2>6 DEF Jstreams, Level
  <2> HIDE DEF t
  <2>8. WellFormed(v)
    BY <1>3, <1>4 DEF WellFormed
  <2>9. \A i \in 1..d : OnPath(v.stack, i) <=> OnPath(w.stack, i)
    <3> TAKE i \in 1..d
    <3>1. \A j \in 1..i : w.stack[j] = v.stack[j]
      BY <1>3, <1>4
    <3>2. \A j \in 1..(i - 1) : w.stack[j] = v.stack[j]
      BY <1>3, <1>4
    <3>3. QED
      BY <3>1, <3>2, OnPathBelow
  <2>10. OnPath(v.stack, d + 1) <=> obj /\ (d = 0 \/ s.on_path_next)
    <3>1. CASE d = 0
      <4>1. \A j \in 1..(d + 1) : j = 1
        BY <3>1
      <4>2. d + 1 = 1 /\ 1..((d + 1) - 1) = {} /\ d + 1 \in 1..3
        BY <3>1
      <4>3. QED
        BY <1>3, <3>1, <4>1, <4>2 DEF OnPath
    <3>2. CASE d > 0 /\ w.at = "first_value"
      <4>1. d \in 1..(d + 1) /\ d \in 1..d
        BY <1>4, <3>2
      <4>2. ~v.stack[d].obj
        BY <1>3, <1>6, <3>2, <4>1
      <4>3. ~OnPath(v.stack, d + 1)
        BY <4>1, <4>2 DEF OnPath
      <4>4. ~s.on_path_next /\ d # 0
        BY <1>4, <1>5, <3>2
      <4>5. QED
        BY <4>3, <4>4
    <3>3. CASE d > 0 /\ w.at = "value"
      <4>1. /\ (d + 1 \in 1..3) <=> d \in 1..2
            /\ (d + 1) - 1 = d /\ d \in 1..d
            /\ \A j : j \in 1..(d + 1) <=> j \in 1..d \/ j = d + 1
            /\ \A j : j \in 1..d <=> j \in 1..(d - 1) \/ j = d
        BY <1>4, <3>3
      <4>2. (\A j \in 1..(d + 1) : v.stack[j].obj) <=> obj /\ (\A j \in 1..d : w.stack[j].obj)
        BY <1>3, <4>1
      <4>3. (\A j \in 1..d : v.stack[j].key = kTarget[j]) <=>
              (\A j \in 1..(d - 1) : w.stack[j].key = kTarget[j]) /\ w.stack[d].key = kTarget[d]
        BY <1>3, <4>1
      <4>4. d \in 1..2 => d \in 1..3
        OBVIOUS
      <4>5. OnPath(v.stack, d + 1) <=> obj /\ d \in 1..2 /\ AtTarget(w.stack, d)
        BY <4>1, <4>2, <4>3, <4>4, Zenon DEF OnPath, AtTarget
      <4>6. QED
        BY <1>4, <1>5, <3>3, <4>5
    <3>4. QED
      BY <1>4, <3>1, <3>2, <3>3
  <2>11. \A i \in 1..(d + 1) : /\ t.levels[i].is_obj <=> v.stack[i].obj
                               /\ t.levels[i].on_path <=> OnPath(v.stack, i)
    <3> TAKE i \in 1..(d + 1)
    <3>1. CASE i \in 1..d
      BY <1>3, <1>4, <2>5, <2>7, <2>9, <3>1
    <3>2. CASE i = d + 1
      BY <1>3, <2>3, <2>4, <2>5, <2>7, <2>10, <3>2
    <3>3. QED
      BY <1>4, <3>1, <3>2
  <2>12. Tracks(t, v)
    BY <1>3, <2>2, <2>5, <2>7, <2>11 DEF Tracks
  <2>13. QED
    BY <1>1, <1>3, <2>1, <2>7, <2>8, <2>12, CopiedFollows DEF v
<1>9. QED
  BY <1>7, <1>8

LEMMA Opened ==
    ASSUME NEW s, NEW w, Good(s, w), w.at \in {"value", "first_value"}
    PROVE  /\ Follows(jstream_feed(s, "{"), Push(w, TRUE))
           /\ Follows(jstream_feed(s, "["), Push(w, FALSE))
<1>1. \A c : jstream_feed(s, c) = Structural(s, c)
  BY StructuralFacts
<1>2. /\ Structural(s, "{") = OpenContainer(s, "{")
      /\ Structural(s, "[") = OpenContainer(s, "[")
  BY DEF Structural
<1>3. OpenContainer(s, "{") = Entered(s, TRUE)
  <2>1. ("{" = "{") = TRUE
    OBVIOUS
  <2>2. QED
    BY <2>1, Zenon DEF OpenContainer, Entered, Nested
<1>4. OpenContainer(s, "[") = Entered(s, FALSE)
  <2>1. ("[" = "{") = FALSE
    OBVIOUS
  <2>2. QED
    BY <2>1, Zenon DEF OpenContainer, Entered, Nested
<1>5. Follows(Entered(s, TRUE), Push(w, TRUE)) /\ Follows(Entered(s, FALSE), Push(w, FALSE))
  BY NestedFollows
<1>6. QED
  BY <1>1, <1>2, <1>3, <1>4, <1>5, Zenon

LEMMA FrontFacts ==
    ASSUME NEW S, NEW q \in Seq(S), Len(q) > 0
    PROVE  /\ Front(q) \in Seq(S) /\ Len(Front(q)) = Len(q) - 1 /\ Len(q) \in Nat
           /\ \A i \in 1..(Len(q) - 1) : Front(q)[i] = q[i]
<1>1. PICK n \in Nat : n = Len(q)
  OBVIOUS
<1>2. Front(q) = SubSeq(q, 1, n - 1) /\ n > 0 /\ n - 1 \in Nat
  BY <1>1 DEF Front
<1>3. \A i \in 1..(n - 1) : q[i] \in S
  BY <1>1
<1>4. SubSeq(q, 1, n - 1) \in Seq(S) /\ Len(SubSeq(q, 1, n - 1)) = n - 1
  BY <1>1, <1>2, <1>3, SubSeqProperties
<1>5. \A i \in 1..(n - 1) : SubSeq(q, 1, n - 1)[i] = q[i]
  BY <1>1, <1>2
<1>6. QED
  BY <1>1, <1>2, <1>4, <1>5

\* The innermost container is closed.
Outer(w) == Wrote([w EXCEPT !.stack = Front(@)])

LEMMA OuterFacts ==
    ASSUME NEW w \in Bodies, Len(w.stack) > 0
    PROVE  LET v == Outer(w)
               d == Len(w.stack)
           IN  /\ v \in Bodies /\ v.at = IF v.stack = <<>> THEN "done" ELSE "after"
               /\ Len(v.stack) = d - 1 /\ \A i \in 1..(d - 1) : v.stack[i] = w.stack[i]
<1> DEFINE new == Front(w.stack)
<1> DEFINE x == [w EXCEPT !.stack = new]
<1>1. /\ new \in Seq(Frame) /\ Len(new) = Len(w.stack) - 1
      /\ \A i \in 1..(Len(w.stack) - 1) : new[i] = w.stack[i]
  <2>1. w.stack \in Seq(Frame)
    BY BodyFields
  <2>2. QED
    BY <2>1, FrontFacts
<1> HIDE DEF new
<1>2. x \in Bodies /\ x.stack = new
  BY <1>1 DEF Bodies, Frame
<1>3. Outer(w) = Wrote(x)
  BY DEF Outer, new
<1> HIDE DEF x
<1>4. /\ Wrote(x) \in Bodies /\ Wrote(x).stack = new
      /\ Wrote(x).at = IF new = <<>> THEN "done" ELSE "after"
  BY <1>2, MovedFacts DEF Moved
<1>5. QED
  BY <1>1, <1>3, <1>4

LEMMA LeftFollows ==
    ASSUME NEW s, NEW w, Good(s, w), w.at \in {"first_value", "first_key", "after"}
    PROVE  Depth(s) # 0 /\ Follows(Copied([s EXCEPT !.levels = Front(@)]), Outer(w))
<1> DEFINE d == Len(w.stack)
<1> DEFINE v == Outer(w)
<1>1. /\ s \in Jstreams /\ w \in Bodies /\ Tracks(s, w) /\ s.in_string = FALSE /\ s.esc = FALSE
      /\ s.divert = FALSE /\ WellFormed(w)
  BY StructuralFacts
<1>2. /\ d \in Nat /\ d > 0 /\ Len(s.levels) = d /\ s.levels \in Seq(Level)
      /\ \A i \in 1..d : /\ s.levels[i].is_obj <=> w.stack[i].obj
                         /\ s.levels[i].on_path <=> OnPath(w.stack, i)
      /\ ~s.on_path_next /\ ~s.content_next
  BY <1>1, BodyFields, ScannerFields DEF Tracks, WellFormed
<1>3. /\ v \in Bodies /\ v.at = IF v.stack = <<>> THEN "done" ELSE "after"
      /\ Len(v.stack) = d - 1 /\ \A i \in 1..(d - 1) : v.stack[i] = w.stack[i]
  BY <1>1, <1>2, OuterFacts
<1> DEFINE new == Front(s.levels)
<1>4. /\ new \in Seq(Level) /\ Len(new) = d - 1
      /\ \A i \in 1..(d - 1) : new[i] = s.levels[i]
  BY <1>2, FrontFacts
<1> HIDE DEF new, v, d
<1> DEFINE t == [s EXCEPT !.levels = new]
<1>5. /\ t \in Jstreams /\ t.levels = new /\ t.in_string = FALSE /\ t.esc = FALSE
      /\ t.on_path_next = s.on_path_next /\ t.content_next = s.content_next /\ t.divert = FALSE
  BY <1>1, <1>4 DEF Jstreams, Level
<1> HIDE DEF t
<1>6. WellFormed(v)
  <2>1. v.stack # <<>> => Len(v.stack) > 0
    BY <1>3, BodyFields
  <2>2. QED
    BY <1>3, <2>1 DEF WellFormed
<1>7. \A i \in 1..(d - 1) : OnPath(v.stack, i) <=> OnPath(w.stack, i)
  <2> TAKE i \in 1..(d - 1)
  <2>1. \A j \in 1..i : w.stack[j] = v.stack[j]
    BY <1>2, <1>3
  <2>2. \A j \in 1..(i - 1) : w.stack[j] = v.stack[j]
    BY <1>2, <1>3
  <2>3. QED
    BY <2>1, <2>2, OnPathBelow
<1>8. \A i \in 1..(d - 1) : /\ t.levels[i].is_obj <=> v.stack[i].obj
                            /\ t.levels[i].on_path <=> OnPath(v.stack, i)
  BY <1>2, <1>3, <1>4, <1>5, <1>7
<1>9. Tracks(t, v)
  BY <1>2, <1>3, <1>4, <1>5, <1>8 DEF Tracks
<1>10. Follows(Copied(t), v)
  BY <1>3, <1>5, <1>6, <1>9, CopiedFollows
<1>11. QED
  BY <1>2, <1>10 DEF t, new, v, Depth

LEMMA Closed ==
    ASSUME NEW s, NEW w, Good(s, w), w.at \in {"first_value", "first_key", "after"}
    PROVE  Follows(jstream_feed(s, Close(w)[1]), Close(w)[2])
<1> DEFINE c == IF Last(w.stack).obj THEN "}" ELSE "]"
<1>1. Close(w) = <<c, Outer(w)>>
  BY DEF Close, Outer
<1>2. jstream_feed(s, c) = Structural(s, c)
  BY StructuralFacts
<1>3. Depth(s) # 0 /\ Follows(Copied([s EXCEPT !.levels = Front(@)]), Outer(w))
  BY LeftFollows
<1>4. c = "}" \/ c = "]"
  OBVIOUS
<1> HIDE DEF c
<1>5. Structural(s, c) = Copied([s EXCEPT !.levels = Front(@)])
  BY <1>3, <1>4, Zenon DEF Structural
<1>6. Close(w)[1] = c /\ Close(w)[2] = Outer(w)
  BY <1>1, SMT
<1>7. QED
  BY <1>2, <1>3, <1>5, <1>6, Zenon

-----------------------------------------------------------------------------
(* Whatever the writer writes next. *)

\* A step of the writer that the scanner follows.
Kept(s, step) == Follows(jstream_feed(s, step[1]), step[2])

LEMMA StepIs ==
    ASSUME NEW s, NEW c, NEW v, Follows(jstream_feed(s, c), v)
    PROVE  Kept(s, <<c, v>>)
<1>1. <<c, v>>[1] = c /\ <<c, v>>[2] = v
  OBVIOUS
<1>2. QED
  BY <1>1, Zenon DEF Kept

LEMMA ValuesKept ==
    ASSUME NEW s, NEW w, Good(s, w), w.at \in {"value", "first_value"}, NEW step \in Values(w)
    PROVE  Kept(s, step)
<1>1. w \in Bodies
  BY DEF Good
<1>2. /\ Moved(w, Wrote(w), IF w.stack = <<>> THEN "done" ELSE "after")
      /\ Moved(w, [w EXCEPT !.at = "string"], "string")
  BY <1>1, MovedFacts
<1>3. /\ Follows(jstream_feed(s, "1"), Wrote(w))
      /\ Follows(jstream_feed(s, "quote"), [w EXCEPT !.at = "string"])
  BY <1>2, ScalarValue, StringValue, Zenon
<1>4. /\ Kept(s, <<"{", Push(w, TRUE)>>) /\ Kept(s, <<"[", Push(w, FALSE)>>)
  BY Opened, StepIs, Zenon
<1>5. Kept(s, <<"1", Wrote(w)>>)
  BY <1>3, StepIs, Zenon
<1>6. Kept(s, <<"quote", [w EXCEPT !.at = "string"]>>)
  BY <1>3, StepIs, Zenon
<1>7. QED
  BY <1>4, <1>5, <1>6, Zenon DEF Values

LEMMA StartKeyKept ==
    ASSUME NEW s, NEW w, Good(s, w), w.at \in {"first_key", "next_key"}
    PROVE  Kept(s, StartKey(w))
<1>1. w \in Bodies /\ Len(w.stack) > 0
  BY DEF Good, WellFormed
<1>2. <<>> \in Seq(NameChars)
  OBVIOUS
<1> DEFINE v == [w EXCEPT !.stack[Len(w.stack)].key = <<>>, !.at = "key"]
<1>3. Keyed(w, v, <<>>)
  BY <1>1, <1>2, KeyedFacts
<1> HIDE DEF v
<1>4. Follows(jstream_feed(s, "quote"), v)
  BY <1>3, KeyOpened
<1>5. QED
  BY <1>4, StepIs, Zenon DEF StartKey, v

LEMMA InKeyFacts ==
    ASSUME NEW w \in Bodies, Len(w.stack) > 0, NEW c \in NameChars
    PROVE  Keyed(w, InKey(w, c), Append(Last(w.stack).key, c))
<1> DEFINE d == Len(w.stack)
<1>1. d \in 1..d /\ Last(w.stack) = w.stack[d] /\ w.stack[d].key \in Seq(NameChars)
  BY BodyFields DEF Last
<1> DEFINE key == Append(w.stack[d].key, c)
<1>2. key \in Seq(NameChars)
  BY <1>1
<1>3. InKey(w, c) = [w EXCEPT !.stack[d].key = key, !.at = "key"]
  BY DEF InKey
<1> HIDE DEF key
<1>4. QED
  BY <1>1, <1>2, <1>3, KeyedFacts DEF key

\* The letters of member names.
LEMMA FollowingFacts ==
    ASSUME NEW key \in Seq(NameChars)
    PROVE  Following(key) \subseteq NameChars
<1> SUFFICES ASSUME NEW m \in MemberNames, Len(key) < Len(m) PROVE m[Len(key) + 1] \in NameChars
  BY Zenon DEF Following
<1>1. m \in Seq(NameChars) /\ Len(m) \in Nat /\ Len(key) \in Nat
  BY McpServerAssumption
<1>2. Len(key) + 1 \in 1..Len(m)
  BY <1>1
<1>3. QED
  BY <1>1, <1>2

LEMMA KeyOfBody ==
    ASSUME NEW w \in Bodies, Len(w.stack) > 0
    PROVE  Last(w.stack).key \in Seq(NameChars)
<1>1. Len(w.stack) \in 1..Len(w.stack)
  BY BodyFields
<1>2. QED
  BY <1>1, BodyFields DEF Last

LEMMA KeyKept ==
    ASSUME NEW s, NEW w, Good(s, w), w.at = "key", NEW step \in Writes(w)
    PROVE  Kept(s, step)
<1> DEFINE key == Last(w.stack).key
<1> DEFINE more == Following(key)
<1>1. w \in Bodies /\ Len(w.stack) > 0
  BY DEF Good, WellFormed
<1>2. step \in {<<l, InKey(w, l)>> : l \in more \ EscapedLetters}
               \cup (IF more \cap EscapedLetters = {} THEN {}
                     ELSE {<<"backslash", [w EXCEPT !.at = "key_escape"]>>})
               \cup (IF key \in MemberNames THEN {<<"quote", [w EXCEPT !.at = "colon"]>>} ELSE {})
  BY Zenon DEF Writes
<1>3. more \subseteq NameChars
  BY <1>1, KeyOfBody, FollowingFacts
<1> HIDE DEF more, key
<1>4. ASSUME NEW l \in more PROVE Kept(s, <<l, InKey(w, l)>>)
  <2>1. l \in NameChars
    BY <1>3, <1>4
  <2>2. Keyed(w, InKey(w, l), Append(Last(w.stack).key, l))
    BY <1>1, <2>1, InKeyFacts
  <2>3. QED
    BY <2>1, <2>2, KeyLetter, StepIs
<1>5. Kept(s, <<"backslash", [w EXCEPT !.at = "key_escape"]>>)
  <2>1. Moved(w, [w EXCEPT !.at = "key_escape"], "key_escape")
    BY <1>1, MovedFacts
  <2>2. QED
    BY <2>1, KeyBackslash, StepIs, Zenon
<1>6. Kept(s, <<"quote", [w EXCEPT !.at = "colon"]>>)
  <2>1. Moved(w, [w EXCEPT !.at = "colon"], "colon")
    BY <1>1, MovedFacts
  <2>2. QED
    BY <2>1, KeyClosed, StepIs, Zenon
<1>7. QED
  BY <1>2, <1>4, <1>5, <1>6, Zenon

LEMMA KeyEscapeKept ==
    ASSUME NEW s, NEW w, Good(s, w), w.at = "key_escape", NEW step \in Writes(w)
    PROVE  Kept(s, step)
<1> DEFINE more == Following(Last(w.stack).key)
<1>1. w \in Bodies /\ Len(w.stack) > 0
  BY DEF Good, WellFormed
<1>2. PICK l \in more \cap EscapedLetters : step = <<Escape(l), InKey(w, l)>>
  BY Zenon DEF Writes
<1>3. l \in NameChars /\ l \in EscapedLetters
  BY <1>1, <1>2, KeyOfBody, FollowingFacts
<1>4. Keyed(w, InKey(w, l), Append(Last(w.stack).key, l))
  BY <1>1, <1>3, InKeyFacts
<1>5. QED
  BY <1>2, <1>3, <1>4, KeyEscaped, StepIs, Zenon

LEMMA TextFacts == \A c \in Text : c \notin {"quote", "backslash"}
BY Base64Assumption DEF Text, Symbols

LEMMA StringKept ==
    ASSUME NEW s, NEW w, Good(s, w), w.at = "string", NEW step \in Writes(w)
    PROVE  Kept(s, step)
<1> DEFINE more == [w EXCEPT !.n = @ + 1]
<1> DEFINE escaped == [more EXCEPT !.at = "escape"]
<1>1. /\ w \in Bodies
      /\ Moved(w, Wrote(w), IF w.stack = <<>> THEN "done" ELSE "after")
      /\ Moved(w, more, "string") /\ Moved(w, escaped, "escape")
  <2>1. w \in Bodies
    BY DEF Good
  <2>2. QED
    BY <2>1, MovedFacts
<1>2. \/ step = <<"quote", Wrote(w)>> \/ step = <<"backslash", escaped>>
      \/ \E c : c \notin {"quote", "backslash"} /\ step = <<c, more>>
  <2> DEFINE plain == IF w.stack = ContentPath THEN Text \ {"newline"} ELSE {"c"}
  <2>1. step \in {<<"quote", Wrote(w)>>}
               \cup (IF w.n >= (IF w.stack = ContentPath THEN MaxContent ELSE MaxString) THEN {}
                     ELSE {<<c, more>> : c \in plain} \cup {<<"backslash", escaped>>})
    BY Zenon DEF Writes
  <2>2. \A c \in plain : c \notin {"quote", "backslash"}
    BY TextFacts
  <2> HIDE DEF more, escaped, plain
  <2>3. QED
    BY <2>1, <2>2, Zenon
<1> HIDE DEF more, escaped
<1>3. CASE w.stack # ContentPath
  <2>1. Follows(jstream_feed(s, "quote"), Wrote(w))
    BY <1>1, <1>3, CopiedString
  <2>2. Follows(jstream_feed(s, "backslash"), escaped)
    BY <1>1, <1>3, CopiedString
  <2>3. \A c : c \notin {"quote", "backslash"} => Follows(jstream_feed(s, c), more)
    BY <1>1, <1>3, CopiedString
  <2>4. QED
    BY <1>2, <2>1, <2>2, <2>3, StepIs, Zenon
<1>4. CASE w.stack = ContentPath
  <2>1. w.stack # <<>>
    <3>1. Len(w.stack) = 3
      BY <1>1, <1>4, ContentPathFacts
    <3>2. QED
      BY <3>1
  <2>2. Follows(jstream_feed(s, "quote"), Wrote(w))
    BY <1>1, <1>4, <2>1, DivertedString
  <2>3. Follows(jstream_feed(s, "backslash"), escaped)
    BY <1>1, <1>4, DivertedString
  <2>4. \A c : c \notin {"quote", "backslash"} => Follows(jstream_feed(s, c), more)
    BY <1>1, <1>4, DivertedString
  <2>5. QED
    BY <1>2, <2>2, <2>3, <2>4, StepIs, Zenon
<1>5. QED
  BY <1>3, <1>4

LEMMA WritesKept ==
    ASSUME NEW s, NEW w, Good(s, w), NEW step \in Writes(w)
    PROVE  Kept(s, step)
<1>1. /\ w \in Bodies
      /\ w.at \in {"value", "first_value", "first_key", "next_key", "key", "key_escape",
                   "colon", "string", "escape", "after", "done"}
  BY BodyFields DEF Good
<1>2. CASE w.at = "value"
  BY <1>2, ValuesKept, Zenon DEF Writes
<1>3. CASE w.at = "first_value"
  <2>1. step \in Values(w) \/ step = Close(w)
    BY <1>3, Zenon DEF Writes
  <2>2. QED
    BY <1>3, <2>1, ValuesKept, Closed, Zenon DEF Kept
<1>4. CASE w.at = "first_key"
  <2>1. step = StartKey(w) \/ step = Close(w)
    BY <1>4, Zenon DEF Writes
  <2>2. QED
    BY <1>4, <2>1, StartKeyKept, Closed, Zenon DEF Kept
<1>5. CASE w.at = "next_key"
  <2>1. step = StartKey(w)
    BY <1>5, Zenon DEF Writes
  <2>2. QED
    BY <1>5, <2>1, StartKeyKept, Zenon
<1>6. CASE w.at = "key"
  BY <1>6, KeyKept, Zenon
<1>7. CASE w.at = "key_escape"
  BY <1>7, KeyEscapeKept, Zenon
<1>8. CASE w.at = "colon"
  <2> DEFINE v == [w EXCEPT !.at = "value"]
  <2>1. step = <<":", v>>
    BY <1>8, Zenon DEF Writes
  <2>2. Moved(w, v, "value")
    BY <1>1, MovedFacts
  <2> HIDE DEF v
  <2>3. QED
    BY <1>8, <2>1, <2>2, ColonWritten, StepIs, Zenon
<1>9. CASE w.at = "string"
  BY <1>9, StringKept, Zenon
<1>10. CASE w.at = "escape"
  <2> DEFINE v == [w EXCEPT !.at = "string"]
  <2>1. \E c : step = <<c, v>>
    BY <1>10, Zenon DEF Writes
  <2>2. Moved(w, v, "string")
    BY <1>1, MovedFacts
  <2> HIDE DEF v
  <2>3. QED
    BY <1>10, <2>1, <2>2, DivertedString, CopiedString, StepIs, Zenon
<1>11. CASE w.at = "after"
  <2> DEFINE place == IF Last(w.stack).obj THEN "next_key" ELSE "value"
  <2> DEFINE v == [w EXCEPT !.at = place]
  <2>1. step = Close(w) \/ step = <<",", v>>
    BY <1>11, Zenon DEF Writes
  <2>2. Moved(w, v, place)
    <3>1. place \in {"value", "first_value", "first_key", "next_key", "key", "key_escape",
                     "colon", "string", "escape", "after", "done"}
      OBVIOUS
    <3> HIDE DEF place
    <3>2. QED
      BY <1>1, <3>1, MovedFacts
  <2> HIDE DEF v
  <2>3. Follows(jstream_feed(s, ","), v)
    BY <1>11, <2>2, CommaWritten, Zenon DEF place
  <2>4. QED
    BY <1>11, <2>1, <2>3, Closed, StepIs, Zenon DEF Kept
<1>12. CASE w.at = "done"
  BY <1>12, Zenon DEF Writes
<1>13. QED
  BY <1>1, <1>2, <1>3, <1>4, <1>5, <1>6, <1>7, <1>8, <1>9, <1>10, <1>11, <1>12, Zenon

-----------------------------------------------------------------------------
(* Every step of handle_post. *)

LEMMA FreshScan ==
    ASSUME client' = NewBody, js' = jstream_init
    PROVE  /\ js' \in Jstreams /\ client' \in Bodies /\ WellFormed(client') /\ Tracks(js', client')
<1>1. /\ <<>> \in Seq(NameChars) /\ <<>> \in Seq([is_obj : BOOLEAN, on_path : BOOLEAN])
      /\ <<>> \in Seq([obj : BOOLEAN, key : Seq(NameChars)]) /\ Len(<<>>) = 0
  OBVIOUS
<1>2. js' \in Jstreams /\ client' \in Bodies
  BY <1>1 DEF jstream_init, Jstreams, NewBody, Bodies
<1>3. /\ client'.stack = <<>> /\ client'.at = "value"
      /\ js'.levels = <<>> /\ js'.in_string = FALSE /\ js'.esc = FALSE /\ js'.divert = FALSE
      /\ js'.on_path_next = FALSE /\ js'.content_next = FALSE /\ js'.next_is_key = FALSE
  BY DEF jstream_init, NewBody
<1>4. WellFormed(client')
  BY <1>3 DEF WellFormed
<1>5. Tracks(js', client')
  BY <1>1, <1>3 DEF Tracks
<1>6. QED
  BY <1>2, <1>4, <1>5

LEMMA ScanRightNext == ScanRight /\ [Next]_vars => ScanRight'
<1> SUFFICES ASSUME ScanRight, [Next]_vars PROVE ScanRight'
  OBVIOUS
<1>1. CASE Feed
  <2>1. PICK step \in Writes(client) : client' = step[2] /\ js' = jstream_feed(js, step[1])
    BY <1>1, Zenon DEF Feed
  <2>2. at = "reading" /\ at' = at /\ Good(js, client)
    BY <1>1 DEF Feed, Good, ScanRight
  <2>3. Follows(js', client')
    BY <2>1, <2>2, WritesKept, Zenon DEF Kept
  <2>4. QED
    BY <2>2, <2>3 DEF ScanRight, Follows
<1>2. CASE client' = NewBody /\ js' = jstream_init
  BY <1>2, FreshScan DEF ScanRight
<1>3. CASE PostBegin
  <2>1. client = NewBody /\ js = jstream_init /\ client' = client /\ js' = js
    BY <1>3 DEF PostBegin, ScanRight, scanVars
  <2>2. QED
    BY <1>2, <2>1
<1>4. CASE UNCHANGED <<client, js>> /\ (at' = at \/ at' \in {"dispatch", "remove", "rename"})
  BY <1>4 DEF ScanRight
<1>5. CASE UNCHANGED vars
  BY <1>4, <1>5 DEF vars, scanVars
<1>6. ASSUME Next, ~Feed, ~PostBegin
      PROVE  \/ client' = NewBody /\ js' = jstream_init
             \/ UNCHANGED <<client, js>> /\ (at' = at \/ at' \in {"dispatch", "remove", "rename"})
  <2>1. CASE PostRefused \/ ChunkEnds \/ Waiting \/ NextPost
    BY <2>1 DEF PostRefused, ChunkEnds, Waiting, NextPost, scanVars
  <2>2. CASE PostParsed \/ UploadRemove
    BY <2>2 DEF PostParsed, UploadRemove, scanVars
  <2>3. CASE ToolUpload
    BY <2>3 DEF ToolUpload, Answer
  <2>4. CASE PostFails \/ Dispatch \/ UploadRename \/ UploadRenameFails \/ WaitAnswered \/ PowerLost
    BY <2>4 DEF PostFails, Dispatch, UploadRename, UploadRenameFails, WaitAnswered, PowerLost,
       Answer
  <2>5. CASE ToolWait
    BY <2>5 DEF ToolWait
  <2>6. QED
    BY <1>6, <2>1, <2>2, <2>3, <2>4, <2>5 DEF Next
<1>7. QED
  BY <1>1, <1>2, <1>3, <1>4, <1>5, <1>6

\* Whatever well-formed JSON arrives, however deep and for every set of member
\* names (plain, empty, overlong, or with letters written as escapes): as long
\* as jstream_feed has reported no error it is diverting exactly when the body
\* stands inside the string at $.params.arguments.content, where the path is
\* the one written without escapes.
THEOREM DivertedIsContent == Spec => []DivertsExactlyContent
<1>1. Init => ScanRight
  <2> SUFFICES ASSUME Init PROVE ScanRight
    OBVIOUS
  <2>1. client = NewBody /\ js = jstream_init /\ at = "idle"
    BY DEF Init
  <2>2. /\ <<>> \in Seq(NameChars) /\ <<>> \in Seq([is_obj : BOOLEAN, on_path : BOOLEAN])
        /\ <<>> \in Seq([obj : BOOLEAN, key : Seq(NameChars)])
    OBVIOUS
  <2>3. js \in Jstreams /\ client \in Bodies
    BY <2>1, <2>2 DEF jstream_init, Jstreams, NewBody, Bodies
  <2>4. QED
    BY <2>1, <2>3 DEF ScanRight
<1>2. ScanRight => DivertsExactlyContent
  BY DEF ScanRight, Tracks, DivertsExactlyContent, InContent
<1>3. QED
  BY <1>1, <1>2, ScanRightNext, PTL DEF Spec

-----------------------------------------------------------------------------
(* The wait for text in a file. *)

LEMMA NeedleFacts ==
    /\ Needle \in Seq(Letters) /\ Len(Needle) \in Nat /\ Len(Needle) = Overlap + 1
    /\ Overlap \in Nat /\ BufSize \in Nat /\ BufSize > Overlap /\ NoLog \notin Seq(Letters)
<1>1. /\ Needle \in Seq(Letters) /\ Needle # <<>> /\ BufSize \in Nat /\ BufSize >= Len(Needle)
      /\ NoLog \notin Seq(Letters)
  BY FileWaitAssumption
<1>2. PICK n \in Nat : n = Len(Needle) /\ n > 0
  BY <1>1
<1>3. QED
  BY <1>1, <1>2 DEF Overlap

LEMMA FromFacts ==
    ASSUME NEW b \in Nat
    PROVE  /\ From(b) \in Nat /\ From(b) >= 1 /\ From(b) <= b + 1 /\ From(b) + Overlap > b
           /\ b > Overlap => From(b) = b - Overlap + 1
           /\ b <= Overlap => From(b) = 1
BY NeedleFacts DEF From

LEMMA FromGrows ==
    ASSUME NEW a \in Nat, NEW b \in Nat, a <= b
    PROVE  From(a) <= From(b)
BY NeedleFacts DEF From

\* mem_find on a piece of a file.
LEMMA OccursInPiece ==
    ASSUME NEW f \in Seq(Letters), NEW text \in Seq(Letters), NEW a \in Nat,
           a + Len(text) <= Len(f),
           \A j \in 1..Len(text) : text[j] = f[a + j]
    PROVE  Occurs(text) <=> \E i \in (a + 1)..(a + Len(text) - Overlap) : MatchAt(f, i)
<1>1. PICK n \in Nat : n = Len(text)
  OBVIOUS
<1>2. PICK m \in Nat : m = Overlap /\ Len(Needle) = m + 1
  BY NeedleFacts
<1>3. \A i \in 1..(n - m) : SubSeq(text, i, i + m) = Needle <=> MatchAt(f, a + i)
  <2> TAKE i \in 1..(n - m)
  <2>1. \A k \in i..(i + m) : text[k] \in Letters
    BY <1>1
  <2> DEFINE piece == SubSeq(text, i, i + m)
  <2>2. /\ piece \in Seq(Letters) /\ Len(piece) = m + 1
        /\ \A k \in 1..(m + 1) : piece[k] = text[i + k - 1]
    <3>1. i \in Int /\ i + m \in Int /\ i <= i + m /\ (i + m) - i + 1 = m + 1
      OBVIOUS
    <3>2. /\ piece \in Seq(Letters)
          /\ Len(piece) = IF i <= i + m THEN (i + m) - i + 1 ELSE 0
          /\ \A k \in 1..((i + m) - i + 1) : piece[k] = text[i + k - 1]
      BY <2>1, <3>1, SubSeqProperties
    <3>3. QED
      BY <3>1, <3>2
  <2> HIDE DEF piece
  <2>3. \A k \in 1..(m + 1) : text[i + k - 1] = f[(a + i) + k - 1]
    <3> TAKE k \in 1..(m + 1)
    <3>1. i + k - 1 \in 1..n /\ a + (i + k - 1) = (a + i) + k - 1
      OBVIOUS
    <3>2. QED
      BY <1>1, <3>1
  <2>4. piece = Needle => MatchAt(f, a + i)
    BY <1>2, <2>2, <2>3 DEF MatchAt
  <2>5. ASSUME MatchAt(f, a + i) PROVE piece = Needle
    <3>1. \A k \in 1..(m + 1) : piece[k] = Needle[k]
      BY <1>2, <2>2, <2>3, <2>5 DEF MatchAt
    <3>2. Needle \in Seq(Letters) /\ Len(Needle) = Len(piece)
      BY <1>2, <2>2, NeedleFacts
    <3>3. QED
      BY <1>2, <2>2, <3>1, <3>2, SeqEqual
  <2>6. QED
    BY <2>4, <2>5 DEF piece
<1>4. Occurs(text) <=> \E i \in 1..(n - m) : MatchAt(f, a + i)
  BY <1>1, <1>2, <1>3 DEF Occurs
<1>5. ASSUME NEW i \in 1..(n - m), MatchAt(f, a + i)
      PROVE  \E j \in (a + 1)..(a + n - m) : MatchAt(f, j)
  <2>1. a + i \in (a + 1)..(a + n - m)
    OBVIOUS
  <2>2. QED
    BY <1>5, <2>1
<1>6. ASSUME NEW j \in (a + 1)..(a + n - m), MatchAt(f, j)
      PROVE  \E i \in 1..(n - m) : MatchAt(f, a + i)
  <2>1. j - a \in 1..(n - m) /\ a + (j - a) = j
    OBVIOUS
  <2>2. QED
    BY <1>6, <2>1
<1>7. QED
  BY <1>1, <1>2, <1>4, <1>5, <1>6

\* Letters that are added change nothing about text that was there.
LEMMA MatchKept ==
    ASSUME NEW f \in Seq(Letters), NEW g \in Seq(Letters), Len(f) <= Len(g),
           \A j \in 1..Len(f) : g[j] = f[j],
           NEW i \in Nat, i >= 1, i + Overlap <= Len(f)
    PROVE  MatchAt(f, i) <=> MatchAt(g, i)
<1>1. \A k \in 1..Len(Needle) : i + k - 1 \in 1..Len(f)
  BY NeedleFacts
<1>2. QED
  BY <1>1 DEF MatchAt

LEMMA WaitFields ==
    ASSUME NEW w \in Waits
    PROVE  /\ w.at \in {"stat", "open", "search", "decide", "answered"} /\ w.contains \in BOOLEAN
           /\ w.scanned \in Nat /\ w.base \in Nat /\ w.size \in Nat /\ w.exists \in BOOLEAN
           /\ w.met \in BOOLEAN /\ w.off \in Nat /\ w.buf \in Seq(Letters) /\ Len(w.buf) \in Nat
           /\ w.polls \in Nat /\ w.rewrites \in Nat
<1>1. /\ w.at \in {"stat", "open", "search", "decide", "answered"} /\ w.contains \in BOOLEAN
      /\ w.scanned \in Nat /\ w.base \in Nat /\ w.size \in Nat /\ w.exists \in BOOLEAN
      /\ w.met \in BOOLEAN /\ w.off \in Nat /\ w.buf \in Seq(Letters)
      /\ w.polls \in Nat /\ w.rewrites \in Nat
  BY DEF Waits
<1>2. QED
  BY <1>1

LEMMA NoneBefore == \A f : \A b \in Nat : NoneIn(f, b, b)
<1> SUFFICES ASSUME NEW f, NEW b \in Nat, NEW i \in From(b)..(b - Overlap) PROVE FALSE
  BY DEF NoneIn
<1>1. From(b) \in Nat /\ From(b) + Overlap > b /\ Overlap \in Nat
  BY FromFacts, NeedleFacts
<1>2. QED
  BY <1>1

LEMMA NoneShorter ==
    ASSUME NEW f, NEW b \in Nat, NEW d \in Nat, NEW e \in Nat, d <= e, NoneIn(f, b, e)
    PROVE  NoneIn(f, b, d)
<1>1. PICK m \in Nat : m = Overlap
  BY NeedleFacts
<1>2. PICK a \in Nat : a = From(b)
  BY FromFacts
<1>3. \A i \in a..(d - m) : i \in a..(e - m)
  OBVIOUS
<1>4. QED
  BY <1>1, <1>2, <1>3 DEF NoneIn

LEMMA LogsType == \A f \in Logs : f = NoLog \/ f \in Seq(Letters)
<1> SUFFICES ASSUME NEW n \in 0..2, NEW f \in [1..n -> Letters] PROVE f \in Seq(Letters)
  BY DEF Logs
<1>1. n \in Nat
  OBVIOUS
<1>2. QED
  BY <1>1

LEMMA SizeFacts ==
    /\ Size(NoLog) = 0
    /\ \A f \in Seq(Letters) : f # NoLog /\ Size(f) = Len(f) /\ Len(f) \in Nat
<1>1. \A f \in Seq(Letters) : f # NoLog
  BY NeedleFacts
<1>2. QED
  BY <1>1 DEF Size

LEMMA SearchedFacts ==
    ASSUME NEW w \in Waits
    PROVE  /\ Searched(w) \in Waits /\ Searched(w).at = "decide" /\ Searched(w).scanned = w.size
           /\ Searched(w).contains = w.contains /\ Searched(w).base = w.base
           /\ Searched(w).size = w.size /\ Searched(w).exists = w.exists
           /\ Searched(w).met = w.met /\ Searched(w).buf = <<>>
<1>1. <<>> \in Seq(Letters) /\ Len(<<>>) = 0
  OBVIOUS
<1>2. QED
  BY <1>1 DEF Searched, Waits

LEMMA WaitBeginRight ==
    ASSUME NEW contains \in BOOLEAN, NEW new_only \in BOOLEAN, WaitBegin(contains, new_only)
    PROVE  FileWaitRight'
<1>1. PICK n \in Nat : n = IF new_only THEN Size(log') ELSE 0
  BY LogsType, SizeFacts DEF WaitBegin
<1>2. log' = NoLog \/ log' \in Seq(Letters)
  BY LogsType DEF WaitBegin
<1>3. n <= Size(log') /\ Size(log') \in Nat
  BY <1>1, <1>2, SizeFacts
<1>4. <<>> \in Seq(Letters) /\ Len(<<>>) = 0
  OBVIOUS
<1>5. PICK w : w = [at |-> "stat", contains |-> contains, scanned |-> n, base |-> n, size |-> 0,
              exists |-> FALSE, met |-> FALSE, off |-> 0, buf |-> <<>>,
              polls |-> 1, rewrites |-> 0]
  OBVIOUS
<1>6. fw' = w
  BY <1>1, <1>5 DEF WaitBegin
<1>7. /\ w \in Waits /\ w.at = "stat" /\ w.met = FALSE /\ w.buf = <<>> /\ w.scanned = n
      /\ w.base = n
  BY <1>4, <1>5 DEF Waits
<1>8. Sound(w)
  BY <1>4, <1>7, NeedleFacts DEF Sound
<1>9. Live(log', w)
  BY <1>3, <1>7, NoneBefore DEF Live
<1>10. QED
  BY <1>2, <1>6, <1>8, <1>9 DEF FileWaitRight

\* stat, with a file and a text to look for: it may have shrunk.
Looked(x) == IF x.size > x.scanned THEN [x EXCEPT !.at = "open"] ELSE Searched(x)

LEMMA LookedFacts ==
    ASSUME NEW x \in Waits, x.contains = TRUE, x.met = FALSE, x.buf = <<>>
    PROVE  /\ Sound(Looked(x)) /\ Looked(x).met = FALSE /\ Looked(x).base = x.base
           /\ Looked(x).size = x.size
           /\ x.size > x.scanned => Looked(x).at = "open" /\ Looked(x).scanned = x.scanned
           /\ ~(x.size > x.scanned) => Looked(x).at = "decide" /\ Looked(x).scanned = x.size
<1>1. Len(<<>>) = 0 /\ Overlap \in Nat
  BY NeedleFacts
<1>2. CASE x.size > x.scanned
  <2> DEFINE y == [x EXCEPT !.at = "open"]
  <2>1. Looked(x) = y
    BY <1>2 DEF Looked
  <2>2. /\ y \in Waits /\ y.at = "open" /\ y.contains = TRUE /\ y.scanned = x.scanned
        /\ y.base = x.base /\ y.size = x.size /\ y.met = FALSE /\ y.buf = <<>>
    BY DEF Waits
  <2> HIDE DEF y
  <2>3. Sound(y)
    BY <1>1, <2>2 DEF Sound
  <2>4. QED
    BY <1>2, <2>1, <2>2, <2>3
<1>3. CASE ~(x.size > x.scanned)
  <2> DEFINE y == Searched(x)
  <2>1. Looked(x) = y
    BY <1>3 DEF Looked
  <2>2. /\ y \in Waits /\ y.at = "decide" /\ y.scanned = x.size
        /\ y.base = x.base /\ y.size = x.size /\ y.met = FALSE /\ y.buf = <<>>
    BY SearchedFacts
  <2> HIDE DEF y
  <2>3. Sound(y)
    BY <1>1, <2>2 DEF Sound
  <2>4. QED
    BY <1>3, <2>1, <2>2, <2>3
<1>4. QED
  BY <1>2, <1>3

LEMMA StatSeen ==
    ASSUME NEW f \in Seq(Letters), NEW w \in Waits, ~w.met, NEW x \in Waits,
           x.contains = TRUE, x.met = FALSE, x.buf = <<>>, x.size = Len(f),
           Len(f) < w.scanned => x.scanned = 0 /\ x.base = 0,
           ~(Len(f) < w.scanned) => x.scanned = w.scanned /\ x.base = w.base,
           Len(f) < w.scanned \/ Live(f, w)
    PROVE  Live(f, Looked(x))
<1>1. /\ w.scanned \in Nat /\ w.base \in Nat /\ Len(f) \in Nat /\ x.scanned \in Nat
      /\ x.base \in Nat /\ f # NoLog /\ Size(f) = Len(f)
  BY WaitFields, SizeFacts
<1>2. x.base <= x.scanned /\ x.scanned <= Len(f) /\ NoneIn(f, x.base, x.scanned)
  <2>1. CASE Len(f) < w.scanned
    BY <1>1, <2>1, NoneBefore
  <2>2. CASE ~(Len(f) < w.scanned)
    BY <1>1, <2>2 DEF Live
  <2>3. QED
    BY <2>1, <2>2
<1> DEFINE y == Looked(x)
<1>3. /\ y.met = FALSE /\ y.base = x.base /\ y.size = Len(f)
      /\ Len(f) > x.scanned => y.at = "open" /\ y.scanned = x.scanned
      /\ ~(Len(f) > x.scanned) => y.at = "decide" /\ y.scanned = Len(f)
  BY LookedFacts
<1> HIDE DEF y
<1>4. ~(Len(f) > x.scanned) => x.scanned = Len(f)
  BY <1>1, <1>2
<1>5. Live(f, y)
  BY <1>1, <1>2, <1>3, <1>4 DEF Live
<1>6. QED
  BY <1>5 DEF y

LEMMA WaitStatRight ==
    ASSUME FileWaitRight, WaitStat
    PROVE  FileWaitRight'
<1>1. /\ fw.at = "stat" /\ Sound(fw) /\ log' = log /\ (log = NoLog \/ log \in Seq(Letters))
      /\ fw.contains /\ ~stale => Live(log, fw)
  BY DEF FileWaitRight, WaitStat, NoWait
<1>2. /\ fw \in Waits /\ fw.contains \in BOOLEAN /\ fw.buf = <<>> /\ Len(<<>>) = 0 /\ ~fw.met
      /\ fw.scanned \in Nat /\ fw.base \in Nat
  BY <1>1, WaitFields DEF Sound
<1> DEFINE shrunk == log # NoLog /\ Len(log) < fw.scanned
<1>3. stale' = (stale /\ ~(shrunk /\ fw.contains))
  BY DEF WaitStat
<1>4. CASE log = NoLog
  <2> DEFINE v == [fw EXCEPT !.at = "decide", !.exists = FALSE]
  <2>1. fw' = v
    BY <1>4 DEF WaitStat
  <2>2. /\ v \in Waits /\ v.at = "decide" /\ v.exists = FALSE /\ v.buf = fw.buf /\ v.met = fw.met
        /\ v.contains = fw.contains /\ v.scanned = fw.scanned /\ v.base = fw.base
    BY <1>2 DEF Waits
  <2> HIDE DEF v
  <2>3. Sound(v)
    BY <1>2, <2>2, NeedleFacts DEF Sound
  <2>4. Live(log, fw) => Live(log, v)
    BY <1>1, <2>2 DEF Live
  <2>5. ~stale' => ~stale
    BY <1>3, <1>4
  <2>6. QED
    BY <1>1, <2>1, <2>2, <2>3, <2>4, <2>5 DEF FileWaitRight
<1>5. CASE log # NoLog /\ ~fw.contains
  <2> DEFINE v == [fw EXCEPT !.at = "decide", !.exists = TRUE, !.met = TRUE]
  <2>1. fw' = v
    BY <1>5 DEF WaitStat
  <2>2. /\ v \in Waits /\ v.at = "decide" /\ v.buf = fw.buf
        /\ v.contains = fw.contains
    BY <1>2 DEF Waits
  <2> HIDE DEF v
  <2>3. Sound(v)
    BY <1>2, <2>2, NeedleFacts DEF Sound
  <2>4. QED
    BY <1>1, <1>5, <2>1, <2>2, <2>3 DEF FileWaitRight
<1>6. CASE log # NoLog /\ fw.contains
  <2>1. log \in Seq(Letters) /\ Size(log) = Len(log) /\ fw.contains = TRUE
    BY <1>1, <1>2, <1>6, SizeFacts
  <2>2. PICK sc \in Nat : sc = IF Len(log) < fw.scanned THEN 0 ELSE fw.scanned
    BY <1>2
  <2>3. PICK b \in Nat : b = IF Len(log) < fw.scanned THEN 0 ELSE fw.base
    BY <1>2
  <2>4. PICK x : x = [fw EXCEPT !.exists = TRUE, !.size = Len(log), !.scanned = sc, !.base = b]
    OBVIOUS
  <2>5. fw' = Looked(x)
    BY <1>6, <2>1, <2>2, <2>3, <2>4 DEF WaitStat, Looked
  <2>6. Len(log) < fw.scanned \/ (~stale' => Live(log, fw))
    BY <1>1, <1>3, <1>6
  <2>7. /\ x \in Waits /\ x.contains = TRUE /\ x.met = FALSE /\ x.buf = <<>>
        /\ x.size = Len(log) /\ x.scanned = sc /\ x.base = b
    <3>1. Len(log) \in Nat /\ fw.met = FALSE
      BY <1>2, <2>1, WaitFields
    <3>2. QED
      BY <1>2, <2>1, <2>4, <3>1 DEF Waits
  <2>8. Sound(Looked(x))
    BY <2>7, LookedFacts
  <2>9. ~stale' => Live(log, Looked(x))
    <3>1. /\ Len(log) < fw.scanned => x.scanned = 0 /\ x.base = 0
          /\ ~(Len(log) < fw.scanned) => x.scanned = fw.scanned /\ x.base = fw.base
      BY <2>2, <2>3, <2>7
    <3>2. QED
      BY <1>2, <2>1, <2>6, <2>7, <3>1, StatSeen, Zenon
  <2>10. QED
    BY <1>1, <2>5, <2>8, <2>9 DEF FileWaitRight
<1>7. QED
  BY <1>4, <1>5, <1>6

LEMMA SearchOpenRight ==
    ASSUME FileWaitRight, SearchOpen
    PROVE  FileWaitRight'
<1>1. /\ fw.at = "open" /\ Sound(fw) /\ log' = log /\ (log = NoLog \/ log \in Seq(Letters))
      /\ fw.contains /\ ~stale => Live(log, fw)
  BY DEF FileWaitRight, SearchOpen, NoWait
<1>2. /\ fw \in Waits /\ fw.contains /\ fw.buf = <<>> /\ Len(<<>>) = 0 /\ ~fw.met
      /\ fw.scanned \in Nat /\ fw.base \in Nat /\ fw.size \in Nat
  BY <1>1, WaitFields DEF Sound
<1>3. CASE fw' = Searched(fw) /\ stale' = TRUE
  <2>1. Sound(Searched(fw))
    BY <1>2, SearchedFacts, NeedleFacts DEF Sound
  <2>2. QED
    BY <1>1, <1>3, <2>1 DEF FileWaitRight
<1>4. CASE log # NoLog /\ stale' = stale
           /\ fw' = [fw EXCEPT !.at = "search",
                               !.off = IF fw.scanned > Overlap THEN fw.scanned - Overlap ELSE 0]
  <2>1. PICK o \in Nat : o = IF fw.scanned > Overlap THEN fw.scanned - Overlap ELSE 0
    BY <1>2, NeedleFacts
  <2>2. PICK v : v = [fw EXCEPT !.at = "search", !.off = o]
    OBVIOUS
  <2>3. fw' = v
    BY <1>4, <2>1, <2>2
  <2>4. /\ v \in Waits /\ v.at = "search" /\ v.off = o /\ v.buf = <<>> /\ v.met = fw.met
        /\ v.contains = fw.contains /\ v.scanned = fw.scanned /\ v.base = fw.base
        /\ v.size = fw.size
    BY <1>2, <2>2 DEF Waits
  <2>5. Sound(v)
    BY <1>2, <2>4, NeedleFacts DEF Sound
  <2>6. ASSUME Live(log, fw) PROVE Live(log, v)
    <3>1. o = From(fw.scanned) - 1 /\ o <= fw.scanned
      BY <1>2, <2>1, NeedleFacts DEF From
    <3>2. /\ fw.scanned <= Len(log) /\ Size(log) = Len(log) /\ Len(log) \in Nat
          /\ NoneIn(log, fw.base, fw.scanned)
      BY <1>1, <1>2, <1>4, <2>6, SizeFacts DEF Live
    <3>3. NoneIn(log, fw.base, o)
      BY <1>2, <2>1, <3>1, <3>2, NoneShorter
    <3>4. Searching(log, v)
      BY <1>2, <2>4, <3>1, <3>2, <3>3 DEF Searching
    <3>5. QED
      BY <1>1, <1>2, <1>4, <2>4, <2>6, <3>2, <3>4 DEF Live
  <2>7. QED
    BY <1>1, <1>2, <1>4, <2>3, <2>4, <2>5, <2>6 DEF FileWaitRight
<1>5. QED
  BY <1>3, <1>4 DEF SearchOpen

LEMMA WaitDecideRight ==
    ASSUME FileWaitRight, WaitDecide
    PROVE  FileWaitRight'
<1>1. /\ fw.at = "decide" /\ Sound(fw) /\ log' = log /\ stale' = stale
      /\ (log = NoLog \/ log \in Seq(Letters))
      /\ fw.contains /\ ~stale => Live(log, fw)
  BY DEF FileWaitRight, WaitDecide, NoWait
<1>2. fw \in Waits /\ fw.buf = <<>> /\ Len(<<>>) = 0 /\ fw.polls \in Nat
  BY <1>1, WaitFields DEF Sound
<1>3. CASE fw' = [fw EXCEPT !.at = "answered"]
  <2> DEFINE v == [fw EXCEPT !.at = "answered"]
  <2>1. /\ v \in Waits /\ v.at = "answered" /\ v.buf = fw.buf /\ v.met = fw.met
        /\ v.contains = fw.contains /\ v.scanned = fw.scanned /\ v.base = fw.base
        /\ v.size = fw.size /\ v.exists = fw.exists
    BY <1>2 DEF Waits
  <2> HIDE DEF v
  <2>2. Sound(v)
    BY <1>2, <2>1, NeedleFacts DEF Sound
  <2>3. Live(log, fw) => Live(log, v)
    BY <1>1, <2>1 DEF Live
  <2>4. QED
    BY <1>1, <1>3, <2>1, <2>2, <2>3 DEF FileWaitRight, v
<1>4. CASE ~fw.met /\ fw' = [fw EXCEPT !.at = "stat", !.polls = @ + 1]
  <2>1. PICK p \in Nat : p = fw.polls + 1
    BY <1>2
  <2> DEFINE v == [fw EXCEPT !.at = "stat", !.polls = p]
  <2>2. /\ v \in Waits /\ v.at = "stat" /\ v.buf = fw.buf /\ v.met = fw.met
        /\ v.contains = fw.contains /\ v.scanned = fw.scanned /\ v.base = fw.base
    BY <1>2 DEF Waits
  <2>3. fw' = v
    BY <1>4, <2>1
  <2> HIDE DEF v
  <2>4. Sound(v)
    BY <1>2, <1>4, <2>2, NeedleFacts DEF Sound
  <2>5. Live(log, fw) => Live(log, v)
    BY <1>1, <1>4, <2>2 DEF Live
  <2>6. QED
    BY <1>1, <2>2, <2>3, <2>4, <2>5 DEF FileWaitRight
<1>5. QED
  BY <1>3, <1>4 DEF WaitDecide

\* A read that found nothing in the buffer and what it added to it.
ReadMore(f, w, end) == w.buf \o SubSeq(f, w.off + 1, end)

LEMMA ChunkLive ==
    ASSUME NEW f \in Seq(Letters), NEW w \in Waits, Live(f, w), w.at = "search",
           ~w.met, Len(w.buf) <= Overlap, NEW end \in Nat, end > w.off, end <= Len(f)
    PROVE  LET total == ReadMore(f, w, end)
           IN  /\ Len(total) = Len(w.buf) + end - w.off
               /\ \A j \in 1..Len(total) : total[j] = f[(w.off - Len(w.buf)) + j]
               /\ Occurs(total) => FoundIn(f, w.base)
               /\ ~Occurs(total) => NoneIn(f, w.base, end)
<1>0. PICK total : total = ReadMore(f, w, end)
  OBVIOUS
<1>1. PICK b \in Nat : b = Len(w.buf)
  BY WaitFields
<1>2. PICK o \in Nat : o = w.off
  BY WaitFields
<1>3. PICK m \in Nat : m = Overlap
  BY NeedleFacts
<1>4. /\ o <= Len(f) /\ b <= o /\ b <= m /\ w.buf \in Seq(Letters) /\ Len(f) \in Nat
      /\ \A j \in 1..b : w.buf[j] = f[(o - b) + j]
      /\ o - b >= From(w.scanned) - 1
      /\ b = m \/ o - b = From(w.scanned) - 1
      /\ NoneIn(f, w.base, o) /\ end > o
  BY <1>1, <1>2, <1>3, WaitFields DEF Live, Searching
<1>5. /\ w.base \in Nat /\ w.scanned \in Nat /\ w.base <= w.scanned
      /\ NoneIn(f, w.base, w.scanned)
  <2>1. f # NoLog
    BY SizeFacts
  <2>2. QED
    BY <2>1, WaitFields DEF Live
<1> DEFINE read == SubSeq(f, o + 1, end)
<1>6. /\ read \in Seq(Letters) /\ Len(read) = end - o
      /\ \A j \in 1..(end - o) : read[j] = f[o + j]
  <2>1. \A i \in (o + 1)..end : f[i] \in Letters
    BY <1>4
  <2>2. o + 1 \in Int /\ end \in Int /\ o + 1 <= end /\ end - (o + 1) + 1 = end - o
    BY <1>4
  <2>3. /\ read \in Seq(Letters)
        /\ Len(read) = IF o + 1 <= end THEN end - (o + 1) + 1 ELSE 0
        /\ \A j \in 1..(end - (o + 1) + 1) : read[j] = f[(o + 1) + j - 1]
    BY <2>1, <2>2, SubSeqProperties
  <2>4. \A j \in 1..(end - o) : (o + 1) + j - 1 = o + j
    OBVIOUS
  <2> HIDE DEF read
  <2>5. QED
    BY <2>2, <2>3, <2>4
<1>7. total = w.buf \o read
  BY <1>0, <1>2 DEF ReadMore
<1> HIDE DEF read
<1>8. total \in Seq(Letters) /\ Len(total) = b + (end - o)
  <2>1. total \in Seq(Letters) /\ Len(total) = Len(w.buf) + Len(read)
    <3>1. w.buf \in Seq(Letters) /\ read \in Seq(Letters)
      BY <1>4, <1>6
    <3>2. w.buf \o read \in Seq(Letters) /\ Len(w.buf \o read) = Len(w.buf) + Len(read)
      BY <3>1, ConcatProperties, Zenon
    <3>3. QED
      BY <1>7, <3>2, Zenon
  <2>2. QED
    BY <1>1, <1>6, <2>1
<1>9. \A j \in 1..Len(total) : total[j] = f[(o - b) + j]
  <2> TAKE j \in 1..Len(total)
  <2>0. total[j] = IF j <= b THEN w.buf[j] ELSE read[j - b]
    <3>1. j \in 1..(Len(w.buf) + Len(read))
      BY <1>1, <1>6, <1>8
    <3>2. (w.buf \o read)[j] = IF j <= Len(w.buf) THEN w.buf[j] ELSE read[j - Len(w.buf)]
      BY <1>4, <1>6, <3>1, ConcatProperties, Zenon
    <3>3. QED
      BY <1>1, <1>7, <3>2
  <2>1. CASE j \in 1..b
    <3>1. j <= b
      BY <2>1
    <3>2. QED
      BY <1>4, <2>0, <2>1, <3>1
  <2>2. CASE j \notin 1..b
    <3>1. ~(j <= b) /\ j - b \in 1..(end - o) /\ o + (j - b) = (o - b) + j
      BY <1>8, <2>2
    <3>2. QED
      BY <1>6, <2>0, <3>1
  <2>3. QED
    BY <2>1, <2>2
<1>10. PICK a \in Nat : a = o - b
  BY <1>4
<1>11. a + Len(total) = end
  BY <1>8, <1>10
<1>12. Occurs(total) <=> \E i \in (a + 1)..(end - m) : MatchAt(f, i)
  <2>1. a + Len(total) <= Len(f) /\ a + Len(total) - Overlap = end - m
    BY <1>3, <1>4, <1>8, <1>11
  <2>2. \A j \in 1..Len(total) : total[j] = f[a + j]
    BY <1>9, <1>10
  <2>3. QED
    BY <1>8, <2>1, <2>2, OccursInPiece
<1>13. PICK s \in Nat : s = From(w.scanned)
  BY <1>5, FromFacts
<1>14. PICK r \in Nat : r = From(w.base) /\ r <= s
  BY <1>5, <1>13, FromFacts, FromGrows
<1>15. a >= s - 1 /\ (b = m \/ a = s - 1)
  BY <1>4, <1>10, <1>13
<1>16. Occurs(total) => FoundIn(f, w.base)
  <2>1. \A i \in (a + 1)..(end - m) : i \in r..(Len(f) - m)
    BY <1>4, <1>14, <1>15
  <2>2. QED
    BY <1>3, <1>12, <1>14, <2>1 DEF FoundIn
<1>17. ASSUME ~Occurs(total) PROVE NoneIn(f, w.base, end)
  <2> SUFFICES ASSUME NEW i \in r..(end - m) PROVE ~MatchAt(f, i)
    BY <1>3, <1>14 DEF NoneIn
  <2>1. CASE i \in (a + 1)..(end - m)
    BY <1>12, <1>17, <2>1
  <2>2. CASE i \in r..(o - m)
    BY <1>3, <1>4, <1>14, <2>2 DEF NoneIn
  <2>3. CASE i <= a /\ i > o - m
    <3>1. b < m /\ a = s - 1
      BY <1>4, <1>10, <1>15, <2>3
    <3>2. i < s
      BY <3>1, <2>3
    <3>3. i <= w.scanned - m
      <4>1. /\ w.scanned > m => s = w.scanned - m + 1
            /\ w.scanned <= m => s = 1
        BY <1>3, <1>5, <1>13, FromFacts
      <4>2. r >= 1
        BY <1>5, <1>14, FromFacts
      <4>3. QED
        BY <1>5, <3>2, <4>1, <4>2
    <3>4. i \in r..(w.scanned - m)
      BY <1>5, <3>3
    <3>5. QED
      BY <1>3, <1>5, <1>14, <3>4 DEF NoneIn
  <2>4. QED
    BY <2>1, <2>2, <2>3
<1>18. /\ Len(total) = Len(w.buf) + end - w.off
       /\ \A j \in 1..Len(total) : total[j] = f[(w.off - Len(w.buf)) + j]
  BY <1>1, <1>2, <1>8, <1>9
<1>19. QED
  BY <1>0, <1>16, <1>17, <1>18, Zenon

\* The end of what was read is kept.
KeepEnd(total) ==
    SubSeq(total, (IF Len(total) > Overlap THEN Len(total) - Overlap ELSE 0) + 1, Len(total))

LEMMA KeptFacts ==
    ASSUME NEW total \in Seq(Letters)
    PROVE  /\ KeepEnd(total) \in Seq(Letters) /\ Len(KeepEnd(total)) <= Overlap
           /\ Len(KeepEnd(total)) <= Len(total)
           /\ Len(KeepEnd(total)) = Overlap \/ Len(KeepEnd(total)) = Len(total)
           /\ \A j \in 1..Len(KeepEnd(total)) :
                 KeepEnd(total)[j] = total[(Len(total) - Len(KeepEnd(total))) + j]
<1>1. PICK n \in Nat : n = Len(total)
  OBVIOUS
<1>0. PICK d : d = IF n > Overlap THEN n - Overlap ELSE 0
  OBVIOUS
<1>2. PICK m \in Nat : m = Overlap
  BY NeedleFacts
<1>3. /\ n > m => d = n - m
      /\ ~(n > m) => d = 0
      /\ d \in Nat
  BY <1>0, <1>2
<1> DEFINE kept == SubSeq(total, d + 1, n)
<1>4. d <= n /\ n - d <= m /\ (n - d = m \/ n - d = n)
  BY <1>3
<1>5. \A i \in (d + 1)..n : total[i] \in Letters
  BY <1>1, <1>3
<1>6. /\ kept \in Seq(Letters)
      /\ Len(kept) = IF d + 1 <= n THEN n - (d + 1) + 1 ELSE 0
      /\ \A j \in 1..(n - (d + 1) + 1) : kept[j] = total[(d + 1) + j - 1]
  <2>1. d + 1 \in Int /\ n \in Int
    BY <1>3
  <2>2. QED
    BY <1>5, <2>1, SubSeqProperties
<1> HIDE DEF kept
<1>7. Len(kept) = n - d /\ n - (d + 1) + 1 = n - d
  BY <1>3, <1>4, <1>6
<1>8. \A j \in 1..(n - d) : (d + 1) + j - 1 = (n - (n - d)) + j
  BY <1>3
<1>9. \A j \in 1..Len(kept) : kept[j] = total[(n - Len(kept)) + j]
  BY <1>6, <1>7, <1>8
<1>10. QED
  <2>1. /\ kept \in Seq(Letters) /\ Len(kept) <= Overlap /\ Len(kept) <= n
        /\ Len(kept) = Overlap \/ Len(kept) = n
        /\ \A j \in 1..Len(kept) : kept[j] = total[(n - Len(kept)) + j]
    <3>1. /\ Len(kept) <= Overlap /\ Len(kept) <= n
          /\ Len(kept) = Overlap \/ Len(kept) = n
      BY <1>2, <1>3, <1>4, <1>7
    <3>2. QED
      BY <1>6, <1>9, <3>1
  <2>2. KeepEnd(total) = kept
    BY <1>0, <1>1 DEF KeepEnd, kept
  <2>3. QED
    BY <1>1, <2>1, <2>2

LEMMA FoundRight ==
    ASSUME NEW f \in Seq(Letters), NEW w \in Waits, Live(f, w), w.size <= Len(f),
           FoundIn(f, w.base), NEW v, v.at = "decide", v.scanned = w.size, v.base = w.base,
           v.size = w.size, v.met = TRUE, w.base <= w.size
    PROVE  Live(f, v)
BY SizeFacts DEF Live

LEMMA SearchChunkRight ==
    ASSUME FileWaitRight, SearchChunk
    PROVE  FileWaitRight'
<1>1. /\ fw.at = "search" /\ Sound(fw) /\ log' = log /\ stale' = stale
      /\ (log = NoLog \/ log \in Seq(Letters))
      /\ fw.contains /\ ~stale => Live(log, fw)
  BY DEF FileWaitRight, SearchChunk, NoWait
<1>2. /\ fw \in Waits /\ fw.contains /\ fw.met = FALSE /\ Len(fw.buf) <= Overlap
      /\ fw.scanned \in Nat /\ fw.base \in Nat /\ fw.size \in Nat /\ fw.off \in Nat
      /\ fw.buf \in Seq(Letters) /\ Len(fw.buf) \in Nat
  BY <1>1, WaitFields DEF Sound
<1>3. Size(log) \in Nat
  BY <1>1, SizeFacts
<1>4. PICK room \in Nat : room = BufSize - Len(fw.buf) /\ room > 0
  <2>1. PICK b \in Nat : b = Len(fw.buf)
    BY <1>2
  <2>2. BufSize - b \in Nat /\ BufSize - b > 0
    BY <1>2, <2>1, NeedleFacts
  <2>3. QED
    BY <2>1, <2>2
<1>5. PICK end \in Nat : end = IF fw.off + room < Size(log) THEN fw.off + room ELSE Size(log)
  BY <1>2, <1>3
<1>6. PICK total : total = fw.buf \o SubSeq(log, fw.off + 1, end)
  OBVIOUS
<1>7. PICK drop : drop = IF Len(total) > Overlap THEN Len(total) - Overlap ELSE 0
  OBVIOUS
<1>8. PICK kept : kept = SubSeq(total, drop + 1, Len(total))
  OBVIOUS
<1>9. fw' = IF end <= fw.off THEN Searched(fw)
            ELSE IF Occurs(total) THEN [Searched(fw) EXCEPT !.met = TRUE]
            ELSE [fw EXCEPT !.off = end, !.buf = kept]
  BY <1>4, <1>5, <1>6, <1>7, <1>8 DEF SearchChunk
<1>10. Searched(fw) \in Waits /\ Searched(fw).buf = <<>> /\ Len(<<>>) = 0
  BY <1>2, SearchedFacts
<1>11. ASSUME ~stale
       PROVE  /\ Live(log, fw) /\ log \in Seq(Letters) /\ Size(log) = Len(log)
              /\ fw.base <= fw.scanned /\ fw.scanned <= fw.size
              /\ fw.size <= Len(log) /\ Searching(log, fw)
              /\ NoneIn(log, fw.base, fw.off) /\ fw.off <= Len(log)
  <2>1. Live(log, fw)
    BY <1>1, <1>2, <1>11
  <2>2. log # NoLog /\ log \in Seq(Letters)
    BY <1>1, <2>1 DEF Live
  <2>3. Searching(log, fw)
    BY <1>1, <2>1 DEF Live
  <2>4. QED
    BY <1>1, <2>1, <2>2, <2>3, SizeFacts DEF Live, Searching
<1>12. CASE end <= fw.off
  <2>1. fw' = Searched(fw)
    BY <1>9, <1>12
  <2> DEFINE v == Searched(fw)
  <2>2. /\ v \in Waits /\ v.at = "decide" /\ v.scanned = fw.size
        /\ v.base = fw.base /\ v.size = fw.size /\ v.met = FALSE /\ v.buf = <<>>
    BY <1>2, SearchedFacts
  <2> HIDE DEF v
  <2>3. Sound(v)
    BY <1>10, <2>2, NeedleFacts DEF Sound
  <2>4. ASSUME ~stale PROVE Live(log, v)
    <3>1. fw.size <= fw.off /\ fw.base <= fw.size
      BY <1>2, <1>3, <1>4, <1>5, <1>11, <1>12, <2>4
    <3>2. NoneIn(log, fw.base, fw.size)
      BY <1>2, <1>11, <2>4, <3>1, NoneShorter
    <3>3. log # NoLog
      BY <1>11, <2>4, SizeFacts
    <3>4. QED
      BY <1>11, <2>2, <2>4, <3>1, <3>2, <3>3 DEF Live
  <2>5. QED
    BY <1>1, <2>1, <2>3, <2>4 DEF FileWaitRight, v
<1>13. CASE ~(end <= fw.off)
  <2>1. log \in Seq(Letters) /\ end <= Len(log) /\ end > fw.off
    BY <1>1, <1>2, <1>3, <1>5, <1>13, SizeFacts
  <2>2. SubSeq(log, fw.off + 1, end) \in Seq(Letters)
    <3>1. \A i \in (fw.off + 1)..end : log[i] \in Letters
      BY <1>2, <2>1
    <3>2. fw.off + 1 \in Int /\ end \in Int
      BY <1>2
    <3>3. QED
      BY <3>1, <3>2, SubSeqProperties
  <2>3. total \in Seq(Letters)
    BY <1>2, <1>6, <2>2, ConcatProperties
  <2>4. PICK n \in Nat : n = Len(total)
    BY <2>3
  <2>5. /\ kept \in Seq(Letters) /\ Len(kept) <= Overlap /\ Len(kept) <= n
        /\ Len(kept) = Overlap \/ Len(kept) = n
        /\ \A j \in 1..Len(kept) : kept[j] = total[(n - Len(kept)) + j]
    <3>1. kept = KeepEnd(total)
      BY <1>7, <1>8 DEF KeepEnd
    <3>2. QED
      BY <2>3, <2>4, <3>1, KeptFacts, Zenon
  <2>6. ASSUME ~stale
        PROVE  /\ n = Len(fw.buf) + end - fw.off
               /\ \A j \in 1..n : total[j] = log[(fw.off - Len(fw.buf)) + j]
               /\ Occurs(total) => FoundIn(log, fw.base)
               /\ ~Occurs(total) => NoneIn(log, fw.base, end)
    <3>1. Live(log, fw) /\ ~fw.met
      BY <1>2, <1>11, <2>6
    <3>2. /\ Len(total) = Len(fw.buf) + end - fw.off
          /\ \A j \in 1..Len(total) : total[j] = log[(fw.off - Len(fw.buf)) + j]
          /\ Occurs(total) => FoundIn(log, fw.base)
          /\ ~Occurs(total) => NoneIn(log, fw.base, end)
      <4>1. total = ReadMore(log, fw, end)
        BY <1>6 DEF ReadMore
      <4>2. QED
        BY <1>1, <1>2, <2>1, <3>1, <4>1, ChunkLive, Zenon
    <3>3. QED
      BY <2>4, <3>2, Zenon
  <2>7. CASE Occurs(total)
    <3> DEFINE u == Searched(fw)
    <3> DEFINE v == [u EXCEPT !.met = TRUE]
    <3>1. fw' = v
      BY <1>9, <1>13, <2>7
    <3>2. /\ u \in Waits /\ u.at = "decide" /\ u.scanned = fw.size
          /\ u.base = fw.base /\ u.size = fw.size /\ u.buf = <<>>
      BY <1>2, SearchedFacts
    <3> HIDE DEF u
    <3>3. /\ v \in Waits /\ v.at = "decide" /\ v.scanned = fw.size
          /\ v.base = fw.base /\ v.size = fw.size /\ v.buf = <<>> /\ v.met = TRUE
      BY <3>2 DEF Waits
    <3> HIDE DEF v
    <3>4. Sound(v)
      BY <1>10, <3>3, NeedleFacts DEF Sound
    <3>5. ASSUME ~stale PROVE Live(log, v)
      <4>1. fw.base <= fw.size
        BY <1>2, <1>11, <3>5
      <4>2. QED
        BY <1>2, <1>11, <2>6, <2>7, <3>3, <3>5, <4>1, FoundRight
    <3>6. QED
      BY <1>1, <3>1, <3>4, <3>5 DEF FileWaitRight
  <2>8. CASE ~Occurs(total)
    <3> DEFINE v == [fw EXCEPT !.off = end, !.buf = kept]
    <3>1. fw' = v
      BY <1>9, <1>13, <2>8
    <3>2. /\ v \in Waits /\ v.at = "search" /\ v.contains = fw.contains
          /\ v.scanned = fw.scanned /\ v.base = fw.base /\ v.size = fw.size
          /\ v.buf = kept /\ v.met = FALSE /\ v.off = end
      BY <1>1, <1>2, <2>5 DEF Waits
    <3> HIDE DEF v
    <3>3. Sound(v)
      BY <1>2, <2>5, <3>2 DEF Sound
    <3>4. ASSUME ~stale PROVE Live(log, v)
      <4>1. Searching(log, v)
        <5>1. PICK k \in Nat : k = Len(kept)
          BY <2>5
        <5>2. PICK b \in Nat : b = Len(fw.buf)
          BY <1>2
        <5>3. PICK o \in Nat : o = fw.off
          BY <1>2
        <5>4. PICK s \in Nat : s = From(fw.scanned)
          BY <1>2, FromFacts
        <5>5. /\ b <= o /\ o - b >= s - 1 /\ (b = Overlap \/ o - b = s - 1)
          BY <1>11, <3>4, <5>2, <5>3, <5>4 DEF Searching
        <5>6. n = b + end - o /\ end > o /\ k <= n /\ (k = Overlap \/ k = n)
          BY <2>1, <2>5, <2>6, <3>4, <5>1, <5>2, <5>3
        <5>7. \A j \in 1..k : kept[j] = log[(end - k) + j]
          <6> TAKE j \in 1..k
          <6>1. (n - k) + j \in 1..n /\ (o - b) + ((n - k) + j) = (end - k) + j
            BY <5>5, <5>6
          <6>2. kept[j] = total[(n - k) + j]
            BY <2>5, <5>1
          <6>3. QED
            BY <2>6, <3>4, <5>2, <5>3, <6>1, <6>2
        <5>8. k <= end /\ end - k >= s - 1 /\ (k = Overlap \/ end - k = s - 1)
          <6>1. CASE k = n
            <7>1. end - k = o - b
              BY <5>6, <6>1
            <7>2. QED
              BY <2>5, <5>1, <5>5, <5>6, <6>1, <7>1, NeedleFacts
          <6>2. CASE k = Overlap
            BY <5>5, <5>6, <6>2
          <6>3. QED
            BY <5>6, <6>1, <6>2
        <5>9. NoneIn(log, fw.base, end)
          BY <2>6, <2>8, <3>4
        <5>10. QED
          BY <2>1, <3>2, <5>1, <5>4, <5>7, <5>8, <5>9 DEF Searching
      <4>2. log # NoLog /\ NoneIn(log, fw.base, fw.scanned)
        <5>1. log # NoLog
          BY <1>11, <3>4, SizeFacts
        <5>2. QED
          BY <1>2, <1>11, <3>4, <5>1 DEF Live
      <4>3. fw.scanned <= Size(log)
        BY <1>11, <3>4 DEF Live
      <4>4. QED
        BY <1>11, <3>2, <3>4, <4>1, <4>2, <4>3 DEF Live
    <3>5. QED
      BY <1>1, <3>1, <3>3, <3>4 DEF FileWaitRight
  <2>9. QED
    BY <2>7, <2>8
<1>14. QED
  BY <1>12, <1>13

LEMMA LogAppendRight ==
    ASSUME FileWaitRight, LogAppend
    PROVE  FileWaitRight'
<1>1. /\ fw.at \in {"stat", "open", "search", "decide"} /\ Sound(fw) /\ fw' = fw /\ stale' = stale
      /\ (log = NoLog \/ log \in Seq(Letters))
      /\ fw.contains /\ ~stale => Live(log, fw)
  BY DEF FileWaitRight, LogAppend, NoWait
<1>2. /\ fw \in Waits /\ fw.scanned \in Nat /\ fw.base \in Nat /\ fw.size \in Nat
      /\ fw.off \in Nat /\ fw.buf \in Seq(Letters) /\ Len(fw.buf) \in Nat /\ fw.met \in BOOLEAN
  BY <1>1, WaitFields DEF Sound
<1>3. PICK g : g = log'
  OBVIOUS
<1>4. PICK l \in Letters : g = IF log = NoLog THEN <<l>> ELSE Append(log, l)
  BY <1>3 DEF LogAppend
<1>5. g \in Seq(Letters)
  BY <1>1, <1>4
<1>6. g # NoLog /\ Size(g) = Len(g) /\ Len(g) \in Nat
  BY <1>5, SizeFacts
<1>7. CASE log = NoLog
  <2>1. ASSUME Live(log, fw) PROVE Live(g, fw)
    <3>1. fw.base = 0 /\ fw.scanned = 0
      BY <1>2, <1>7, <2>1, SizeFacts DEF Live
    <3>2. /\ fw.at \notin {"open", "search"} /\ ~fw.met
          /\ fw.at \in {"decide", "answered"} => ~fw.exists
      BY <1>7, <2>1 DEF Live
    <3>3. QED
      BY <1>6, <3>1, <3>2, NoneBefore DEF Live
  <2>2. QED
    BY <1>1, <1>3, <1>5, <2>1 DEF FileWaitRight
<1>8. CASE log # NoLog
  <2>1. log \in Seq(Letters)
    BY <1>1, <1>8
  <2>2. PICK n \in Nat : n = Len(log)
    BY <2>1
  <2>3. Len(g) = n + 1 /\ \A j \in 1..n : g[j] = log[j]
    BY <1>4, <1>8, <2>1, <2>2
  <2>4. PICK m \in Nat : m = Overlap
    BY NeedleFacts
  <2>5. \A i \in Nat : i >= 1 /\ i + m <= n => (MatchAt(log, i) <=> MatchAt(g, i))
    <3> TAKE i \in Nat
    <3> HAVE i >= 1 /\ i + m <= n
    <3>1. Len(log) <= Len(g) /\ \A j \in 1..Len(log) : g[j] = log[j]
      BY <2>2, <2>3
    <3>2. i + Overlap <= Len(log)
      BY <2>2, <2>4
    <3>3. QED
      BY <1>5, <2>1, <3>1, <3>2, MatchKept
  <2>6. PICK r \in Nat : r = From(fw.base) /\ r >= 1
    BY <1>2, FromFacts
  <2>7. ASSUME NEW e \in Nat, e <= n, NoneIn(log, fw.base, e) PROVE NoneIn(g, fw.base, e)
    <3> SUFFICES ASSUME NEW i \in r..(e - m) PROVE ~MatchAt(g, i)
      BY <2>4, <2>6 DEF NoneIn
    <3>1. i \in Nat /\ i >= 1 /\ i + m <= n
      BY <2>6, <2>7
    <3>2. ~MatchAt(log, i)
      BY <2>4, <2>6, <2>7 DEF NoneIn
    <3>3. QED
      BY <2>5, <3>1, <3>2
  <2>8. FoundIn(log, fw.base) => FoundIn(g, fw.base)
    <3> HAVE FoundIn(log, fw.base)
    <3>1. PICK i \in r..(n - m) : MatchAt(log, i)
      BY <2>2, <2>4, <2>6 DEF FoundIn
    <3>2. i \in Nat /\ i >= 1 /\ i + m <= n /\ i \in r..((n + 1) - m)
      BY <2>6
    <3>3. MatchAt(g, i)
      BY <2>5, <3>1, <3>2
    <3>4. QED
      BY <2>3, <2>4, <2>6, <3>2, <3>3 DEF FoundIn
  <2>9. ASSUME Live(log, fw) PROVE Live(g, fw)
    <3>1. Size(log) = n
      BY <2>1, <2>2, SizeFacts
    <3>2. /\ fw.base <= fw.scanned /\ fw.scanned <= n
          /\ fw.at \in {"open", "search"} => fw.scanned <= fw.size /\ fw.size <= n
          /\ fw.at \in {"decide", "answered"} /\ fw.exists => fw.scanned = fw.size
          /\ fw.met => FoundIn(log, fw.base)
          /\ ~fw.met => NoneIn(log, fw.base, fw.scanned)
          /\ fw.at = "search" => Searching(log, fw)
      BY <1>8, <2>2, <2>9, <3>1 DEF Live
    <3>3. ASSUME fw.at = "search" PROVE Searching(g, fw)
      <4>1. PICK b \in Nat : b = Len(fw.buf)
        BY <1>2
      <4>2. PICK o \in Nat : o = fw.off
        BY <1>2
      <4>3. /\ o <= n /\ b <= o /\ \A j \in 1..b : fw.buf[j] = log[o - b + j]
            /\ o - b >= From(fw.scanned) - 1 /\ (b = Overlap \/ o - b = From(fw.scanned) - 1)
            /\ NoneIn(log, fw.base, o)
        BY <2>2, <3>2, <3>3, <4>1, <4>2 DEF Searching
      <4>4. \A j \in 1..b : o - b + j \in 1..n
        BY <4>3
      <4>5. \A j \in 1..b : fw.buf[j] = g[o - b + j]
        BY <2>3, <4>3, <4>4
      <4>6. NoneIn(g, fw.base, o) /\ o <= n + 1
        BY <2>7, <4>3
      <4>7. QED
        BY <2>3, <4>1, <4>2, <4>3, <4>5, <4>6 DEF Searching
    <3>4. ~fw.met => NoneIn(g, fw.base, fw.scanned)
      BY <1>2, <2>7, <3>2
    <3>5. fw.scanned <= Len(g) /\ (fw.size <= n => fw.size <= Len(g))
      BY <1>2, <2>3, <3>2
    <3>6. QED
      BY <1>6, <2>8, <3>2, <3>3, <3>4, <3>5 DEF Live
  <2>10. QED
    BY <1>1, <1>3, <1>5, <2>9 DEF FileWaitRight
<1>9. QED
  BY <1>7, <1>8

LEMMA LogReplaceRight ==
    ASSUME FileWaitRight, LogReplace
    PROVE  FileWaitRight'
<1>1. /\ fw.at \in {"stat", "open", "search", "decide"} /\ Sound(fw) /\ stale' = TRUE
      /\ (log' = NoLog \/ log' \in Seq(Letters))
  BY LogsType DEF FileWaitRight, LogReplace, NoWait
<1>2. fw \in Waits /\ fw.rewrites \in Nat
  BY <1>1, WaitFields DEF Sound
<1>3. PICK r \in Nat : r = fw.rewrites + 1
  BY <1>2
<1> DEFINE v == [fw EXCEPT !.rewrites = r]
<1>4. fw' = v
  BY <1>3 DEF LogReplace
<1>5. /\ v \in Waits /\ v.at = fw.at /\ v.buf = fw.buf /\ v.met = fw.met
      /\ v.contains = fw.contains
  BY <1>2 DEF Waits
<1> HIDE DEF v
<1>6. Sound(v)
  BY <1>1, <1>5 DEF Sound
<1>7. QED
  BY <1>1, <1>4, <1>6 DEF FileWaitRight

LEMMA FileWaitRightNext == FileWaitRight /\ [Next]_vars => FileWaitRight'
<1> SUFFICES ASSUME FileWaitRight, [Next]_vars PROVE FileWaitRight'
  OBVIOUS
<1>1. CASE UNCHANGED fileWaitVars
  BY <1>1 DEF fileWaitVars, FileWaitRight
<1>2. CASE ToolWait
  BY <1>1, <1>2, WaitBeginRight DEF ToolWait
<1>3. CASE Waiting
  BY <1>1, <1>3, WaitStatRight, SearchOpenRight, SearchChunkRight, WaitDecideRight,
     LogAppendRight, LogReplaceRight DEF Waiting, FileWaiting
<1>4. CASE WaitAnswered
  BY <1>4 DEF WaitAnswered, FileWaitRight
<1>5. CASE UNCHANGED vars
  BY <1>1, <1>5 DEF vars, waitVars
<1>6. ASSUME Next, ~ToolWait, ~Waiting, ~WaitAnswered PROVE UNCHANGED fileWaitVars
  BY <1>6 DEF Next, PostRefused, PostBegin, Feed, ChunkEnds, PostFails, PostParsed, Dispatch,
     ToolUpload, UploadRemove, UploadRename, UploadRenameFails, NextPost, PowerLost, waitVars
<1>7. QED
  BY <1>1, <1>2, <1>3, <1>4, <1>5, <1>6

\* For every text, every buffer that holds it and however often it is looked at:
\* a files_wait that could open the file at each look, and saw no replacement by
\* a file at least as long as what it had scanned, says found only when the text
\* is there and not found only when it was not in what it had seen.
THEOREM FileWaitsTellTruth == Spec => []WaitTellsTruth
<1>1. Init => FileWaitRight
  BY DEF Init, FileWaitInit, FileWaitRight
<1>2. FileWaitRight => WaitTellsTruth
  <2> SUFFICES ASSUME FileWaitRight, fw.at = "answered", fw.exists, fw.contains, ~stale
               PROVE  WaitTellsTruth
    BY DEF WaitTellsTruth
  <2>1. fw \in Waits /\ Live(log, fw) /\ log \in Seq(Letters) /\ log # NoLog
    BY DEF FileWaitRight, NoWait, Sound, Live
  <2>2. /\ fw.base \in Nat /\ fw.size \in Nat /\ fw.base <= fw.size /\ fw.size <= Len(log)
        /\ Len(log) \in Nat /\ fw.met \in BOOLEAN
        /\ fw.met => FoundIn(log, fw.base)
        /\ ~fw.met => NoneIn(log, fw.base, fw.size)
    BY <2>1, WaitFields, SizeFacts DEF Live
  <2>3. ASSUME NEW g \in Seq(Letters), fw.base <= Len(g)
        PROVE  Occurs(SubSeq(g, From(fw.base), Len(g))) <=> FoundIn(g, fw.base)
    <3>1. PICK n \in Nat : n = Len(g)
      BY <2>3
    <3>2. PICK r \in Nat : r = From(fw.base) /\ r >= 1 /\ r <= n + 1
      <4>1. PICK r \in Nat : r = From(fw.base) /\ r >= 1 /\ r <= fw.base + 1
        BY <2>2, FromFacts
      <4>2. r <= n + 1
        BY <2>2, <2>3, <3>1, <4>1
      <4>3. QED
        BY <4>1, <4>2
    <3>3. PICK text : text = SubSeq(g, r, n)
      OBVIOUS
    <3>4. /\ text \in Seq(Letters) /\ Len(text) = n - r + 1
          /\ \A j \in 1..(n - r + 1) : text[j] = g[r + j - 1]
      <4>1. \A i \in r..n : g[i] \in Letters
        BY <2>3, <3>1, <3>2
      <4>2. /\ text \in Seq(Letters)
            /\ Len(text) = IF r <= n THEN n - r + 1 ELSE 0
            /\ \A j \in 1..(n - r + 1) : text[j] = g[r + j - 1]
        BY <3>3, <4>1, SubSeqProperties
      <4>3. QED
        BY <3>2, <4>2
    <3>5. PICK a \in Nat : a = r - 1
      BY <3>2
    <3>6. a + Len(text) = n /\ \A j \in 1..Len(text) : text[j] = g[a + j]
      <4>1. \A j \in 1..(n - r + 1) : r + j - 1 = a + j
        BY <3>5
      <4>2. a + (n - r + 1) = n
        BY <3>5
      <4>3. \A j \in 1..(n - r + 1) : text[j] = g[a + j]
        BY <3>4, <4>1
      <4>4. QED
        BY <3>4, <4>2, <4>3, Zenon
    <3>7. Occurs(text) <=> \E i \in (a + 1)..(a + Len(text) - Overlap) : MatchAt(g, i)
      <4>1. a + Len(text) <= Len(g)
        BY <3>1, <3>6
      <4>2. QED
        BY <2>3, <3>4, <3>6, <4>1, OccursInPiece
    <3>8. a + 1 = r /\ a + Len(text) - Overlap = n - Overlap
      <4>1. a + 1 = r
        BY <3>5
      <4>2. QED
        BY <3>6, <4>1, NeedleFacts
    <3>9. QED
      BY <3>1, <3>2, <3>3, <3>7, <3>8 DEF FoundIn
  <2>4. CASE fw.met
    BY <2>1, <2>2, <2>3, <2>4 DEF WaitTellsTruth
  <2>5. CASE ~fw.met
    <3>1. PICK n \in Nat : n = fw.size
      BY <2>2
    <3>2. PICK g : g = SubSeq(log, 1, n)
      OBVIOUS
    <3>3. g \in Seq(Letters) /\ Len(g) = n /\ \A j \in 1..n : g[j] = log[j]
      <4>1. \A i \in 1..n : log[i] \in Letters
        BY <2>1, <2>2, <3>1
      <4>2. /\ g \in Seq(Letters)
            /\ Len(g) = IF 1 <= n THEN n - 1 + 1 ELSE 0
            /\ \A j \in 1..(n - 1 + 1) : g[j] = log[1 + j - 1]
        BY <3>2, <4>1, SubSeqProperties
      <4>3. n - 1 + 1 = n /\ \A j \in 1..n : 1 + j - 1 = j
        OBVIOUS
      <4>4. QED
        BY <4>2, <4>3
    <3>4. ~FoundIn(g, fw.base)
      <4> SUFFICES ASSUME NEW i \in From(fw.base)..(n - Overlap), MatchAt(g, i) PROVE FALSE
        BY <3>3 DEF FoundIn
      <4>1. From(fw.base) \in Nat /\ From(fw.base) >= 1 /\ Overlap \in Nat
        BY <2>2, FromFacts, NeedleFacts
      <4>2. i \in Nat /\ i >= 1 /\ i + Overlap <= n
        BY <4>1
      <4>3. Len(g) <= Len(log) /\ \A j \in 1..Len(g) : log[j] = g[j]
        BY <2>2, <3>1, <3>3
      <4>4. MatchAt(log, i)
        BY <2>1, <3>3, <4>2, <4>3, MatchKept
      <4>5. QED
        BY <2>2, <2>5, <3>1, <4>4 DEF NoneIn
    <3>5. fw.base <= Len(g)
      BY <2>2, <3>1, <3>3
    <3>6. QED
      BY <2>3, <2>5, <3>1, <3>2, <3>3, <3>4, <3>5 DEF WaitTellsTruth
  <2>6. QED
    BY <2>2, <2>4, <2>5
<1>3. QED
  BY <1>1, <1>2, FileWaitRightNext, PTL DEF Spec

-----------------------------------------------------------------------------
(* Recursion over a text. *)

LEMMA LeastNatural ==
    ASSUME NEW S \in SUBSET Nat, S # {} PROVE \E m \in S : \A k \in S : m <= k
<1>1. \E m \in S : \A k \in S : ~(<<k, m>> \in OpToRel(<, Nat))
  BY WFMin, NatLessThanWellFounded, Zenon
<1>2. PICK m \in S : \A k \in S : <<k, m>> \notin OpToRel(<, Nat)
  BY <1>1
<1>3. \A k \in S : ~(k < m)
  BY <1>2 DEF OpToRel
<1> QED
  BY <1>3

LEMMA SetInduction ==
    ASSUME NEW N \in Nat, NEW P, 0 \in P, \A n \in 0..(N - 1) : n \in P => n + 1 \in P
    PROVE  \A n \in 0..N : n \in P
<1> SUFFICES ASSUME NEW n \in 0..N, n \notin P PROVE FALSE
  OBVIOUS
<1> DEFINE Out == {m \in 0..N : m \notin P}
<1>1. PICK m \in Out : \A k \in Out : m <= k
  <2>1. Out \in SUBSET Nat /\ Out # {}
    OBVIOUS
  <2> HIDE DEF Out
  <2> QED
    BY <2>1, LeastNatural
<1>2. m # 0 /\ m - 1 \in 0..(N - 1)
  OBVIOUS
<1>3. m - 1 \in P
  BY <1>1, <1>2
<1> QED
  BY <1>2, <1>3

Recursive(f, N, S, base, step) ==
    /\ f \in [0..N -> S] /\ f[0] = base
    /\ \A i \in 1..N : f[i] = step[<<f[i - 1], i>>]
ClosedUnder(step, S, N) == \A s \in S, i \in 1..N : step[<<s, i>>] \in S

LEMMA RecursionExists ==
    ASSUME NEW N, N \in Nat, NEW S, NEW base, base \in S, NEW step, ClosedUnder(step, S, N)
    PROVE  \E f : Recursive(f, N, S, base, step)
<1> USE DEF ClosedUnder
<1> DEFINE Upto(n) == {f \in [0..n -> S] : f[0] = base /\ \A i \in 1..n : f[i] = step[<<f[i - 1], i>>]}
           P == {n \in 0..N : Upto(n) # {}}
<1>1. 0 \in P
  <2>1. [i \in 0..0 |-> base] \in Upto(0)
    OBVIOUS
  <2> QED
    BY <2>1
<1>2. ASSUME NEW n \in 0..(N - 1), n \in P PROVE n + 1 \in P
  <2>1. PICK f : f \in Upto(n)
    BY <1>2
  <2> DEFINE g == [i \in 0..(n + 1) |-> IF i = n + 1 THEN step[<<f[n], n + 1>>] ELSE f[i]]
  <2>2. f[n] \in S /\ n + 1 \in 1..N
    BY <2>1
  <2>3. step[<<f[n], n + 1>>] \in S
    BY <2>2
  <2>4. g \in [0..(n + 1) -> S]
    BY <2>1, <2>3
  <2>5. g[0] = base
    BY <2>1
  <2>6. ASSUME NEW i \in 1..(n + 1) PROVE g[i] = step[<<g[i - 1], i>>]
    <3>1. CASE i = n + 1
      <4>1. i - 1 = n /\ n \in 0..(n + 1) /\ n # n + 1
        BY <3>1
      <4>2. g[n] = f[n]
        BY <4>1
      <4>3. g[i] = step[<<f[n], n + 1>>]
        BY <3>1
      <4> HIDE DEF g
      <4> QED
        BY <3>1, <4>1, <4>2, <4>3
    <3>2. CASE i # n + 1
      <4>1. i \in 1..n /\ i - 1 \in 0..n
        BY <3>2
      <4>2. f[i] = step[<<f[i - 1], i>>]
        BY <2>1, <4>1
      <4>3. g[i] = f[i] /\ g[i - 1] = f[i - 1]
        BY <4>1
      <4> QED
        BY <4>2, <4>3
    <3> QED
      BY <3>1, <3>2
  <2> HIDE DEF g
  <2>7. g \in Upto(n + 1)
    BY <2>4, <2>5, <2>6
  <2> QED
    BY <2>7
<1>3. N \in P
  <2> HIDE DEF P
  <2> QED
    BY <1>1, <1>2, SetInduction
<1> QED
  BY <1>3 DEF Recursive

LEMMA Stays ==
    ASSUME NEW N \in Nat, NEW S, NEW f, f[0] \in S,
           \A i \in 1..N : f[i - 1] \in S => f[i] \in S
    PROVE  \A i \in 0..N : f[i] \in S
<1> DEFINE P == {i \in 0..N : f[i] \in S}
<1>1. 0 \in P
  OBVIOUS
<1>2. ASSUME NEW n \in 0..(N - 1), n \in P PROVE n + 1 \in P
  <2>1. n + 1 \in 1..N /\ n + 1 - 1 = n
    OBVIOUS
  <2> QED
    BY <1>2, <2>1
<1>3. \A n \in 0..N : n \in P
  <2> HIDE DEF P
  <2> QED
    BY <1>1, <1>2, SetInduction
<1> QED
  BY <1>3


LEMMA SameRecursion ==
    ASSUME NEW N \in Nat, NEW f, NEW g, f[0] = g[0],
           \A i \in 1..N : f[i - 1] = g[i - 1] => f[i] = g[i]
    PROVE  \A i \in 0..N : f[i] = g[i]
<1> DEFINE P == {i \in 0..N : f[i] = g[i]}
<1>1. 0 \in P
  OBVIOUS
<1>2. ASSUME NEW n \in 0..(N - 1), n \in P PROVE n + 1 \in P
  <2>1. n + 1 \in 1..N /\ n + 1 - 1 = n
    OBVIOUS
  <2> QED
    BY <1>2, <2>1
<1>3. \A n \in 0..N : n \in P
  <2> HIDE DEF P
  <2> QED
    BY <1>1, <1>2, SetInduction
<1> QED
  BY <1>3

(* ---- the reference: the characters of a text that are in a set ---- *)

Keep(S, kept, c) == IF c \in S THEN Append(kept, c) ELSE kept

LEMMA KeepType ==
    ASSUME NEW S, NEW T, NEW k \in Seq(S \cap T), NEW c \in T
    PROVE  Keep(S, k, c) \in Seq(S \cap T)
BY DEF Keep

LEMMA KeptExists ==
    ASSUME NEW S, NEW T, NEW text \in Seq(T)
    PROVE  \E h : h = [i \in 0..Len(text) |->
                         IF i = 0 THEN <<>> ELSE Keep(S, h[i - 1], text[i])]
<1> DEFINE N == Len(text)
           V == Seq(S \cap T)
           step == [p \in V \X (1..N) |-> Keep(S, p[1], text[p[2]])]
<1>1. N \in Nat /\ \A i \in 1..N : text[i] \in T
  OBVIOUS
<1>2. \A k \in V, i \in 1..N : step[<<k, i>>] = Keep(S, k, text[i])
  OBVIOUS
<1>3. <<>> \in V
  OBVIOUS
<1>4. ASSUME NEW k \in V, NEW c \in T PROVE Keep(S, k, c) \in V
  BY KeepType
<1> HIDE DEF step, N, V
<1>5. ClosedUnder(step, V, N)
  BY <1>1, <1>2, <1>4 DEF ClosedUnder
<1>6. PICK g : Recursive(g, N, V, <<>>, step)
  BY <1>1, <1>3, <1>5, RecursionExists
<1>7. ASSUME NEW i \in 0..N, i # 0 PROVE g[i] = Keep(S, g[i - 1], text[i])
  <2>1. i \in 1..N /\ i - 1 \in 0..N
    BY <1>1, <1>7
  <2> QED
    BY <1>2, <1>6, <2>1 DEF Recursive
<1>8. g = [i \in 0..N |-> IF i = 0 THEN <<>> ELSE Keep(S, g[i - 1], text[i])]
  BY <1>6, <1>7 DEF Recursive
<1> QED
  BY <1>8 DEF N

KeptBy(f, S, T, text) ==
    /\ f[0] = <<>> /\ Only(S, text) = f[Len(text)]
    /\ \A i \in 1..Len(text) : f[i] = Keep(S, f[i - 1], text[i])
    /\ \A i \in 0..Len(text) : f[i] \in Seq(S \cap T)

LEMMA OnlyFunction ==
    ASSUME NEW S, NEW T, NEW text \in Seq(T)
    PROVE  \E f : KeptBy(f, S, T, text)
<1> DEFINE kept[i \in 0..Len(text)] == IF i = 0 THEN <<>> ELSE Keep(S, kept[i - 1], text[i])
<1>1. Only(S, text) = kept[Len(text)]
  BY DEF Only, Keep
<1>2. kept = [i \in 0..Len(text) |-> IF i = 0 THEN <<>> ELSE Keep(S, kept[i - 1], text[i])]
  BY KeptExists
<1> HIDE DEF kept
<1>3. Len(text) \in Nat /\ \A i \in 1..Len(text) : text[i] \in T
  OBVIOUS
<1>4. kept[0] = <<>> /\ \A i \in 1..Len(text) : kept[i] = Keep(S, kept[i - 1], text[i])
  BY <1>2, <1>3
<1>5. kept[0] \in Seq(S \cap T)
  BY <1>4
<1>6. ASSUME NEW i \in 1..Len(text), kept[i - 1] \in Seq(S \cap T) PROVE kept[i] \in Seq(S \cap T)
  BY <1>3, <1>4, <1>6, KeepType
<1>7. \A i \in 0..Len(text) : kept[i] \in Seq(S \cap T)
  BY <1>3, <1>5, <1>6, Stays
<1>8. KeptBy(kept, S, T, text)
  BY <1>1, <1>4, <1>7 DEF KeptBy
<1> QED
  BY <1>8

LEMMA OnlyAppend ==
    ASSUME NEW S, NEW T, NEW text \in Seq(T), NEW c \in T
    PROVE  /\ Only(S, text) \in Seq(S \cap T)
           /\ Only(S, Append(text, c)) = Keep(S, Only(S, text), c)
<1> DEFINE N == Len(text)
           more == Append(text, c)
<1>1. N \in Nat /\ more \in Seq(T) /\ Len(more) = N + 1 /\ more[N + 1] = c
      /\ \A i \in 1..N : more[i] = text[i]
  OBVIOUS
<1> HIDE DEF more
<1>2. PICK f : /\ f[0] = <<>> /\ Only(S, text) = f[N]
               /\ \A i \in 1..N : f[i] = Keep(S, f[i - 1], text[i])
               /\ \A i \in 0..N : f[i] \in Seq(S \cap T)
  BY OnlyFunction DEF KeptBy
<1> HIDE DEF N
<1>3. PICK g : /\ g[0] = <<>> /\ Only(S, more) = g[N + 1]
               /\ \A i \in 1..(N + 1) : g[i] = Keep(S, g[i - 1], more[i])
  <2>1. more \in Seq(T)
    BY <1>1
  <2>2. PICK g : KeptBy(g, S, T, more)
    BY <2>1, OnlyFunction
  <2> QED
    BY <1>1, <2>2 DEF KeptBy
<1>4. \A i \in 1..N : g[i] = Keep(S, g[i - 1], text[i])
  <2>1. \A i \in 1..N : i \in 1..(N + 1)
    BY <1>1
  <2> QED
    BY <1>1, <1>3, <2>1
<1>5. \A i \in 0..N : f[i] = g[i]
  <2>1. \A i \in 1..N : f[i - 1] = g[i - 1] => f[i] = g[i]
    BY <1>2, <1>4
  <2>2. N \in Nat /\ f[0] = g[0]
    BY <1>1, <1>2, <1>3
  <2> QED
    BY <2>1, <2>2, SameRecursion, Zenon
<1>6. g[N + 1] = Keep(S, g[N], c)
  <2>1. N + 1 \in 1..(N + 1) /\ N + 1 - 1 = N
    BY <1>1
  <2> QED
    BY <1>1, <1>3, <2>1
<1>7. N \in 0..N
  BY <1>1
<1> QED
  BY <1>2, <1>3, <1>5, <1>6, <1>7 DEF more

LEMMA OnlyEmpty == \A S : Only(S, <<>>) = <<>>
<1> SUFFICES ASSUME NEW S PROVE Only(S, <<>>) = <<>>
  OBVIOUS
<1>1. <<>> \in Seq({}) /\ Len(<<>>) = 0
  OBVIOUS
<1>2. PICK f : KeptBy(f, S, {}, <<>>)
  BY <1>1, OnlyFunction
<1> QED
  BY <1>1, <1>2 DEF KeptBy


(* ---- the decoder ---- *)

Accs == 0..16383
BitCounts == {0, 2, 4, 6}
Quads == 0..3
Pads == 0..2
Outs == Seq(0..255)
Decoders == [acc : Accs, bits : BitCounts, quad : Quads, pad : Pads, err : BOOLEAN, out : Outs]

LEMMA DecoderFields ==
    ASSUME NEW d \in Decoders
    PROVE  /\ d.acc \in Accs /\ d.bits \in BitCounts /\ d.quad \in Quads /\ d.pad \in Pads
           /\ d.err \in BOOLEAN /\ d.out \in Outs
BY DEF Decoders

LEMMA Powers ==
    /\ 2^0 = 1 /\ 2^1 = 2 /\ 2^2 = 4 /\ 2^3 = 8 /\ 2^4 = 16 /\ 2^5 = 32 /\ 2^6 = 64 /\ 2^7 = 128
    /\ \A b \in BitCounts : 2^b \in {1, 4, 16, 64}
<1>1. /\ 2^0 = 1 /\ 2^1 = 2 /\ 2^2 = 4 /\ 2^3 = 8 /\ 2^4 = 16 /\ 2^5 = 32 /\ 2^6 = 64
      /\ 2^7 = 128
  OBVIOUS
<1>2. ASSUME NEW b \in BitCounts PROVE 2^b \in {1, 4, 16, 64}
  <2>1. b = 0 \/ b = 2 \/ b = 4 \/ b = 6
    BY DEF BitCounts
  <2> QED
    BY <1>1, <2>1
<1> QED
  BY <1>1, <1>2

(* A symbol: what the decoder does with its value.                         *)
NextAcc(acc, v) == (acc * 64 + v) % 16384
NextBits(bits) == (bits + 6) % 8
NextByte(acc, bits, v) == (NextAcc(acc, v) \div 2^NextBits(bits)) % 256

LEMMA NextTypes ==
    ASSUME NEW acc \in Accs, NEW bits \in BitCounts, NEW v \in 0..63
    PROVE  /\ NextAcc(acc, v) \in Accs /\ NextBits(bits) \in BitCounts
           /\ NextByte(acc, bits, v) \in 0..255
<1>1. NextAcc(acc, v) \in Accs
  BY DEF NextAcc, Accs
<1>2. NextBits(bits) \in BitCounts
  BY DEF NextBits, BitCounts
<1>3. PICK p \in {1, 4, 16, 64} : p = 2^NextBits(bits)
  BY <1>2, Powers
<1>4. PICK a \in Accs : a = NextAcc(acc, v)
  BY <1>1
<1>5. (a \div p) % 256 \in 0..255
  BY DEF Accs
<1> QED
  BY <1>1, <1>2, <1>3, <1>4, <1>5 DEF NextByte

LEMMA SymbolTaken ==
    ASSUME NEW d \in Decoders, NEW c \in Symbols, ~d.err, d.pad = 0
    PROVE  LET e == Decode1(d, c)
               v == b64_val[c]
           IN  /\ e \in Decoders /\ ~e.err /\ e.pad = 0
               /\ e.quad = (d.quad + 1) % 4
               /\ e.acc = NextAcc(d.acc, v) /\ e.bits = NextBits(d.bits)
               /\ e.out = IF d.bits = 0 THEN d.out ELSE Append(d.out, NextByte(d.acc, d.bits, v))
<1> DEFINE v == b64_val[c]
           out == IF d.bits = 0 THEN d.out ELSE Append(d.out, NextByte(d.acc, d.bits, v))
           quad == (d.quad + 1) % 4
<1>1. c \notin {"=", "newline", "other"} /\ v \in 0..63
  BY Base64Assumption DEF Symbols
<1>2. d.bits + 6 >= 8 <=> d.bits # 0
  BY DecoderFields DEF BitCounts
<1>3. Decode1(d, c) = [d EXCEPT !.quad = quad, !.acc = NextAcc(d.acc, v),
                                !.bits = NextBits(d.bits), !.out = out]
  <2>1. ~(d.err \/ c = "newline") /\ c # "=" /\ ~(c \notin Symbols \/ d.pad > 0)
    BY <1>1
  <2>2. Decode1(d, c) =
           [d EXCEPT !.quad = (@ + 1) % 4, !.acc = NextAcc(d.acc, v), !.bits = NextBits(d.bits),
                     !.out = IF d.bits + 6 >= 8 THEN Append(@, NextByte(d.acc, d.bits, v)) ELSE @]
    BY <2>1 DEF Decode1, NextAcc, NextBits, NextByte
  <2> QED
    BY <1>2, <2>2
<1> HIDE DEF v
<1>4. /\ NextAcc(d.acc, v) \in Accs /\ NextBits(d.bits) \in BitCounts
      /\ NextByte(d.acc, d.bits, v) \in 0..255
  BY <1>1, DecoderFields, NextTypes
<1>5. out \in Outs
  BY <1>4, DecoderFields DEF Outs
<1>6. quad \in Quads
  <2>1. \A q \in 0..3 : (q + 1) % 4 \in 0..3
    OBVIOUS
  <2> QED
    BY <2>1, DecoderFields DEF Quads
<1> HIDE DEF out, quad
<1>7. Decode1(d, c) \in Decoders
  BY <1>3, <1>4, <1>5, <1>6 DEF Decoders
<1>8. /\ Decode1(d, c).err = d.err /\ Decode1(d, c).pad = d.pad /\ Decode1(d, c).quad = quad
      /\ Decode1(d, c).acc = NextAcc(d.acc, v) /\ Decode1(d, c).bits = NextBits(d.bits)
      /\ Decode1(d, c).out = out
  BY <1>3 DEF Decoders
<1> QED
  BY <1>7, <1>8 DEF out, quad, v

LEMMA OtherTaken ==
    ASSUME NEW d \in Decoders, NEW c \in Text, ~(~d.err /\ d.pad = 0 /\ c \in Symbols)
    PROVE  LET e == Decode1(d, c) IN
           /\ e \in Decoders
           /\ \/ e = d /\ (d.err \/ c = "newline")
              \/ /\ ~d.err /\ e.err
                 /\ \/ c = "=" /\ (d.quad < 2 \/ d.quad + d.pad >= 4)
                    \/ c = "other"
                    \/ c \in Symbols /\ d.pad > 0
              \/ /\ ~d.err /\ ~e.err /\ c = "=" /\ d.quad >= 2 /\ d.quad + d.pad < 4
                 /\ e.pad = d.pad + 1 /\ e.acc = d.acc /\ e.bits = d.bits /\ e.quad = d.quad
                 /\ e.out = d.out
<1>1. d.quad \in 0..3 /\ d.pad \in 0..2 /\ d.err \in BOOLEAN
  BY DecoderFields DEF Quads, Pads
<1>2. CASE d.err \/ c = "newline"
  BY <1>2 DEF Decode1
<1>3. CASE ~d.err /\ c = "=" /\ ~(d.quad < 2 \/ d.quad + d.pad >= 4)
  <2>1. Decode1(d, c) = [d EXCEPT !.pad = d.pad + 1]
    BY <1>3 DEF Decode1
  <2>2. d.quad >= 2 /\ d.quad + d.pad < 4 /\ d.pad + 1 \in 0..2
    BY <1>1, <1>3
  <2>3. \A p \in Pads : [d EXCEPT !.pad = p] \in Decoders
    BY DEF Decoders
  <2>4. Decode1(d, c) \in Decoders
    BY <2>1, <2>2, <2>3 DEF Pads
  <2>5. LET e == Decode1(d, c) IN
        /\ e.err = d.err /\ e.pad = d.pad + 1 /\ e.acc = d.acc /\ e.bits = d.bits
        /\ e.quad = d.quad /\ e.out = d.out
    BY <2>1 DEF Decoders
  <2> QED
    BY <1>3, <2>2, <2>4, <2>5
<1>4. CASE /\ ~d.err /\ c # "newline"
           /\ \/ c = "=" /\ (d.quad < 2 \/ d.quad + d.pad >= 4)
              \/ c # "=" /\ (c \notin Symbols \/ d.pad > 0)
  <2>1. Decode1(d, c) = [d EXCEPT !.err = TRUE]
    BY <1>4 DEF Decode1
  <2>2. [d EXCEPT !.err = TRUE] \in Decoders /\ [d EXCEPT !.err = TRUE].err = TRUE
    BY DEF Decoders
  <2>3. \/ c = "=" /\ (d.quad < 2 \/ d.quad + d.pad >= 4)
        \/ c = "other"
        \/ c \in Symbols /\ d.pad > 0
    BY <1>4 DEF Text
  <2> QED
    BY <1>4, <2>1, <2>2, <2>3
<1>5. c \in Symbols => c # "="
  BY Base64Assumption DEF Symbols
<1> QED
  BY <1>1, <1>2, <1>3, <1>4, <1>5

LEMMA Decode1Type ==
    ASSUME NEW d \in Decoders, NEW c \in Text PROVE Decode1(d, c) \in Decoders
BY SymbolTaken, OtherTaken

Emptied(d) == [d EXCEPT !.out = <<>>]

LEMMA EmptiedType ==
    ASSUME NEW d \in Decoders
    PROVE  /\ Emptied(d) \in Decoders /\ Emptied(d).out = <<>> /\ Emptied(d).acc = d.acc
           /\ Emptied(d).bits = d.bits /\ Emptied(d).quad = d.quad /\ Emptied(d).pad = d.pad
           /\ Emptied(d).err = d.err
<1>1. <<>> \in Outs
  BY DEF Outs
<1> QED
  BY <1>1 DEF Emptied, Decoders

LEMMA DecExists ==
    ASSUME NEW d \in Decoders, NEW text \in Seq(Text)
    PROVE  \E h : h = [i \in 0..Len(text) |->
                         IF i = 0 THEN Emptied(d) ELSE Decode1(h[i - 1], text[i])]
<1> DEFINE N == Len(text)
           step == [p \in Decoders \X (1..N) |-> Decode1(p[1], text[p[2]])]
<1>1. N \in Nat /\ \A i \in 1..N : text[i] \in Text
  OBVIOUS
<1>2. \A k \in Decoders, i \in 1..N : step[<<k, i>>] = Decode1(k, text[i])
  OBVIOUS
<1> HIDE DEF step, N
<1>3. ClosedUnder(step, Decoders, N)
  BY <1>1, <1>2, Decode1Type DEF ClosedUnder
<1>4. PICK g : Recursive(g, N, Decoders, Emptied(d), step)
  BY <1>1, <1>3, EmptiedType, RecursionExists
<1>5. ASSUME NEW i \in 0..N, i # 0 PROVE g[i] = Decode1(g[i - 1], text[i])
  <2>1. i \in 1..N /\ i - 1 \in 0..N
    BY <1>1, <1>5
  <2> QED
    BY <1>2, <1>4, <2>1 DEF Recursive
<1>6. g = [i \in 0..N |-> IF i = 0 THEN Emptied(d) ELSE Decode1(g[i - 1], text[i])]
  BY <1>4, <1>5 DEF Recursive
<1> QED
  BY <1>6 DEF N

DecodedBy(f, d, text) ==
    /\ f[0] = Emptied(d) /\ b64dec_update(d, text) = f[Len(text)]
    /\ \A i \in 1..Len(text) : f[i] = Decode1(f[i - 1], text[i])
    /\ \A i \in 0..Len(text) : f[i] \in Decoders

LEMMA UpdateFunction ==
    ASSUME NEW d \in Decoders, NEW text \in Seq(Text)
    PROVE  \E f : DecodedBy(f, d, text)
<1> DEFINE dec[i \in 0..Len(text)] == IF i = 0 THEN Emptied(d) ELSE Decode1(dec[i - 1], text[i])
<1>1. b64dec_update(d, text) = dec[Len(text)]
  BY DEF b64dec_update, Emptied
<1>2. dec = [i \in 0..Len(text) |-> IF i = 0 THEN Emptied(d) ELSE Decode1(dec[i - 1], text[i])]
  BY DecExists
<1> HIDE DEF dec
<1>3. Len(text) \in Nat /\ \A i \in 1..Len(text) : text[i] \in Text
  OBVIOUS
<1>4. dec[0] = Emptied(d) /\ \A i \in 1..Len(text) : dec[i] = Decode1(dec[i - 1], text[i])
  BY <1>2, <1>3
<1>5. dec[0] \in Decoders
  BY <1>4, EmptiedType
<1>6. ASSUME NEW i \in 1..Len(text), dec[i - 1] \in Decoders PROVE dec[i] \in Decoders
  BY <1>3, <1>4, <1>6, Decode1Type
<1>7. \A i \in 0..Len(text) : dec[i] \in Decoders
  BY <1>3, <1>5, <1>6, Stays
<1>8. DecodedBy(dec, d, text)
  BY <1>1, <1>4, <1>7 DEF DecodedBy
<1> QED
  BY <1>8


(* ---- six bits of a symbol, eight of a byte ---- *)

LEMMA SixBits ==
    ASSUME NEW v \in 0..63
    PROVE  \E b0, b1, b2, b3, b4, b5 \in {0, 1} :
             /\ v = 32 * b0 + 16 * b1 + 8 * b2 + 4 * b3 + 2 * b4 + b5
             /\ (v \div 32) % 2 = b0 /\ (v \div 16) % 2 = b1 /\ (v \div 8) % 2 = b2
             /\ (v \div 4) % 2 = b3 /\ (v \div 2) % 2 = b4 /\ (v \div 1) % 2 = b5
             /\ v \div 16 = 2 * b0 + b1 /\ v \div 4 = 8 * b0 + 4 * b1 + 2 * b2 + b3
             /\ v % 16 = 8 * b2 + 4 * b3 + 2 * b4 + b5 /\ v % 4 = 2 * b4 + b5
<1>1. PICK b5 \in {0, 1}, h1 \in 0..31 : v = 2 * h1 + b5
  <2>1. v % 2 \in {0, 1} /\ v \div 2 \in 0..31 /\ v = 2 * (v \div 2) + (v % 2)
    OBVIOUS
  <2> QED
    BY <2>1
<1>2. PICK b4 \in {0, 1}, h2 \in 0..15 : h1 = 2 * h2 + b4
  <2>1. h1 % 2 \in {0, 1} /\ h1 \div 2 \in 0..15 /\ h1 = 2 * (h1 \div 2) + (h1 % 2)
    OBVIOUS
  <2> QED
    BY <2>1
<1>3. PICK b3 \in {0, 1}, h3 \in 0..7 : h2 = 2 * h3 + b3
  <2>1. h2 % 2 \in {0, 1} /\ h2 \div 2 \in 0..7 /\ h2 = 2 * (h2 \div 2) + (h2 % 2)
    OBVIOUS
  <2> QED
    BY <2>1
<1>4. PICK b2 \in {0, 1}, h4 \in 0..3 : h3 = 2 * h4 + b2
  <2>1. h3 % 2 \in {0, 1} /\ h3 \div 2 \in 0..3 /\ h3 = 2 * (h3 \div 2) + (h3 % 2)
    OBVIOUS
  <2> QED
    BY <2>1
<1>5. PICK b1 \in {0, 1}, b0 \in {0, 1} : h4 = 2 * b0 + b1
  <2>1. h4 % 2 \in {0, 1} /\ h4 \div 2 \in {0, 1} /\ h4 = 2 * (h4 \div 2) + (h4 % 2)
    OBVIOUS
  <2> QED
    BY <2>1
<1>6. /\ v \div 1 = v /\ v \div 2 = h1 /\ v \div 4 = h2 /\ v \div 8 = h3 /\ v \div 16 = h4
      /\ v \div 32 = b0
  BY <1>1, <1>2, <1>3, <1>4, <1>5
<1>7. v % 2 = b5 /\ h1 % 2 = b4 /\ h2 % 2 = b3 /\ h3 % 2 = b2 /\ h4 % 2 = b1 /\ b0 % 2 = b0
  BY <1>1, <1>2, <1>3, <1>4, <1>5
<1>8. v % 4 = 2 * b4 + b5 /\ v % 16 = 8 * b2 + 4 * b3 + 2 * b4 + b5
  BY <1>1, <1>2, <1>3, <1>4
<1>9. /\ v = 32 * b0 + 16 * b1 + 8 * b2 + 4 * b3 + 2 * b4 + b5
      /\ h4 = 2 * b0 + b1 /\ h2 = 8 * b0 + 4 * b1 + 2 * b2 + b3
  BY <1>1, <1>2, <1>3, <1>4, <1>5
<1> QED
  BY <1>6, <1>7, <1>8, <1>9

LEMMA Overflow ==
    ASSUME NEW q \in Int, NEW x \in Int, 0 <= x, x < 16384, NEW y, y = 16384 * q + x
    PROVE  y % 16384 = x
OBVIOUS

(* Where the decoder stands after n symbols, and what it writes next.      *)
LEMMA BytesOfAcc ==
    ASSUME NEW acc \in Accs, NEW v \in 0..63
    PROVE  /\ NextByte(acc, 6, v) = 4 * (acc % 64) + v \div 16
           /\ NextByte(acc, 4, v) = 16 * (acc % 16) + v \div 4
           /\ NextByte(acc, 2, v) = 64 * (acc % 4) + v
           /\ NextAcc(acc, v) % 64 = v /\ NextAcc(acc, v) % 16 = v % 16
           /\ NextAcc(acc, v) % 4 = v % 4
<1>1. PICK q \in 0..63, a \in 0..255 : acc = 256 * q + a
  <2>1. acc \div 256 \in 0..63 /\ acc % 256 \in 0..255 /\ acc = 256 * (acc \div 256) + (acc % 256)
    BY DEF Accs
  <2> QED
    BY <2>1
<1>2. acc % 64 = a % 64 /\ acc % 16 = a % 16 /\ acc % 4 = a % 4
  <2>1. /\ (256 * q + a) % 64 = a % 64 /\ (256 * q + a) % 16 = a % 16
        /\ (256 * q + a) % 4 = a % 4
    OBVIOUS
  <2> QED
    BY <1>1, <2>1
<1>3. NextAcc(acc, v) = 64 * a + v
  <2>1. acc * 64 + v = 16384 * q + (64 * a + v)
    BY <1>1
  <2>2. 64 * a + v \in Int /\ 0 <= 64 * a + v /\ 64 * a + v < 16384 /\ q \in Int
    OBVIOUS
  <2>3. PICK x, y : x = 64 * a + v /\ y = acc * 64 + v
    OBVIOUS
  <2>4. y = 16384 * q + x
    BY <2>1, <2>3
  <2>5. x \in Int /\ 0 <= x /\ x < 16384
    BY <2>2, <2>3
  <2>6. y % 16384 = x
    BY <2>2, <2>4, <2>5, Overflow
  <2> QED
    BY <2>3, <2>6 DEF NextAcc
<1>4. NextBits(6) = 4 /\ NextBits(4) = 2 /\ NextBits(2) = 0
  BY DEF NextBits
<1>5. /\ (64 * a + v) \div 16 = 4 * a + v \div 16 /\ (64 * a + v) \div 4 = 16 * a + v \div 4
      /\ (64 * a + v) \div 1 = 64 * a + v
  OBVIOUS
<1>6. /\ v \div 16 \in 0..3 /\ v \div 4 \in 0..15
  OBVIOUS
<1>7. \A x \in 0..3 : (4 * a + x) % 256 = 4 * (a % 64) + x
  OBVIOUS
<1>8. \A x \in 0..15 : (16 * a + x) % 256 = 16 * (a % 16) + x
  OBVIOUS
<1>9. (64 * a + v) % 256 = 64 * (a % 4) + v
  OBVIOUS
<1>10. NextByte(acc, 6, v) = 4 * (acc % 64) + v \div 16
  <2>1. NextByte(acc, 6, v) = ((64 * a + v) \div 16) % 256
    BY <1>3, <1>4, Powers DEF NextByte
  <2>2. PICK x : x = v \div 16
    OBVIOUS
  <2>3. (64 * a + v) \div 16 = 4 * a + x
    BY <1>5, <2>2
  <2>4. (4 * a + x) % 256 = 4 * (a % 64) + x
    BY <1>6, <1>7, <2>2
  <2>5. NextByte(acc, 6, v) = 4 * (a % 64) + x
    BY <2>1, <2>3, <2>4
  <2>6. a % 64 = acc % 64
    BY <1>2
  <2> QED
    BY <2>2, <2>5, <2>6
<1>11. NextByte(acc, 4, v) = 16 * (acc % 16) + v \div 4
  <2>1. NextByte(acc, 4, v) = ((64 * a + v) \div 4) % 256
    BY <1>3, <1>4, Powers DEF NextByte
  <2>2. PICK x : x = v \div 4
    OBVIOUS
  <2>3. (64 * a + v) \div 4 = 16 * a + x
    BY <1>5, <2>2
  <2>4. (16 * a + x) % 256 = 16 * (a % 16) + x
    BY <1>6, <1>8, <2>2
  <2>5. NextByte(acc, 4, v) = 16 * (a % 16) + x
    BY <2>1, <2>3, <2>4
  <2>6. a % 16 = acc % 16
    BY <1>2
  <2> QED
    BY <2>2, <2>5, <2>6
<1>12. NextByte(acc, 2, v) = 64 * (acc % 4) + v
  <2>1. NextByte(acc, 2, v) = ((64 * a + v) \div 1) % 256
    BY <1>3, <1>4, Powers DEF NextByte
  <2> QED
    BY <1>2, <1>5, <1>9, <2>1
<1>13. (64 * a + v) % 64 = v /\ (64 * a + v) % 16 = v % 16 /\ (64 * a + v) % 4 = v % 4
  OBVIOUS
<1> QED
  BY <1>3, <1>10, <1>11, <1>12, <1>13


LEMMA BitIs ==
    ASSUME NEW s, NEW q \in Nat, NEW m \in 0..3, NEW j \in 0..5
    PROVE  Bit(s, 24 * q + 6 * m + j) = (b64_val[s[4 * q + m + 1]] \div 2^(5 - j)) % 2
<1>1. (24 * q + 6 * m + j) \div 6 = 4 * q + m
  OBVIOUS
<1>2. (24 * q + 6 * m + j) % 6 = j
  OBVIOUS
<1> QED
  BY <1>1, <1>2 DEF Bit

LEMMA ByteIs ==
    ASSUME NEW s, NEW k \in Nat,
           NEW b0 \in {0, 1}, NEW b1 \in {0, 1}, NEW b2 \in {0, 1}, NEW b3 \in {0, 1},
           NEW b4 \in {0, 1}, NEW b5 \in {0, 1}, NEW b6 \in {0, 1}, NEW b7 \in {0, 1},
           Bit(s, 8 * k) = b0, Bit(s, 8 * k + 1) = b1, Bit(s, 8 * k + 2) = b2,
           Bit(s, 8 * k + 3) = b3, Bit(s, 8 * k + 4) = b4, Bit(s, 8 * k + 5) = b5,
           Bit(s, 8 * k + 6) = b6, Bit(s, 8 * k + 7) = b7
    PROVE  Byte(s, k) = 128 * b0 + 64 * b1 + 32 * b2 + 16 * b3 + 8 * b4 + 4 * b5 + 2 * b6 + b7
<1>1. /\ 7 - 0 = 7 /\ 7 - 1 = 6 /\ 7 - 2 = 5 /\ 7 - 3 = 4 /\ 7 - 4 = 3 /\ 7 - 5 = 2 /\ 7 - 6 = 1
      /\ 7 - 7 = 0 /\ 8 * k + 0 = 8 * k
  OBVIOUS
<1>2. Byte(s, k) = b0 * 2^7 + b1 * 2^6 + b2 * 2^5 + b3 * 2^4 + b4 * 2^3 + b5 * 2^2 + b6 * 2^1
                   + b7 * 2^0
  BY <1>1 DEF Byte
<1> QED
  BY <1>2, Powers

LEMMA BitsOf ==
    ASSUME NEW s, NEW q \in Nat, NEW m \in 0..3
    PROVE  LET v == b64_val[s[4 * q + m + 1]]
               i == 24 * q + 6 * m
           IN  /\ Bit(s, i) = (v \div 32) % 2 /\ Bit(s, i + 1) = (v \div 16) % 2
               /\ Bit(s, i + 2) = (v \div 8) % 2 /\ Bit(s, i + 3) = (v \div 4) % 2
               /\ Bit(s, i + 4) = (v \div 2) % 2 /\ Bit(s, i + 5) = (v \div 1) % 2
<1>1. /\ 5 - 0 = 5 /\ 5 - 1 = 4 /\ 5 - 2 = 3 /\ 5 - 3 = 2 /\ 5 - 4 = 1 /\ 5 - 5 = 0
      /\ 24 * q + 6 * m + 0 = 24 * q + 6 * m
  OBVIOUS
<1>2. \A j \in 0..5 : Bit(s, 24 * q + 6 * m + j) = (b64_val[s[4 * q + m + 1]] \div 2^(5 - j)) % 2
  BY BitIs
<1>3. 0 \in 0..5 /\ 1 \in 0..5 /\ 2 \in 0..5 /\ 3 \in 0..5 /\ 4 \in 0..5 /\ 5 \in 0..5
  OBVIOUS
<1> QED
  BY <1>1, <1>2, <1>3, Powers

LEMMA FirstByte ==
    ASSUME NEW s, NEW q \in Nat, NEW x \in 0..63, NEW y \in 0..63,
           b64_val[s[4 * q + 1]] = x, b64_val[s[4 * q + 2]] = y
    PROVE  Byte(s, 3 * q) = 4 * x + y \div 16
<1>1. PICK x0, x1, x2, x3, x4, x5 \in {0, 1} :
         /\ x = 32 * x0 + 16 * x1 + 8 * x2 + 4 * x3 + 2 * x4 + x5
         /\ (x \div 32) % 2 = x0 /\ (x \div 16) % 2 = x1 /\ (x \div 8) % 2 = x2
         /\ (x \div 4) % 2 = x3 /\ (x \div 2) % 2 = x4 /\ (x \div 1) % 2 = x5
         /\ x % 16 = 8 * x2 + 4 * x3 + 2 * x4 + x5 /\ x % 4 = 2 * x4 + x5
  BY SixBits
<1>2. PICK y0, y1, y2, y3, y4, y5 \in {0, 1} :
         /\ y = 32 * y0 + 16 * y1 + 8 * y2 + 4 * y3 + 2 * y4 + y5
         /\ (y \div 32) % 2 = y0 /\ (y \div 16) % 2 = y1 /\ (y \div 8) % 2 = y2
         /\ (y \div 4) % 2 = y3 /\ (y \div 2) % 2 = y4 /\ (y \div 1) % 2 = y5
         /\ y \div 16 = 2 * y0 + y1 /\ y \div 4 = 8 * y0 + 4 * y1 + 2 * y2 + y3
  BY SixBits
<1>3. 24 * q + 6 * 0 = 24 * q /\ 4 * q + 0 + 1 = 4 * q + 1 /\ 4 * q + 1 + 1 = 4 * q + 2
      /\ 24 * q + 6 * 1 = 24 * q + 6 /\ 24 * q + 6 + 1 = 24 * q + 7
      /\ 0 \in 0..3 /\ 1 \in 0..3 /\ 8 * (3 * q) = 24 * q /\ 3 * q \in Nat
  OBVIOUS
<1>4. /\ Bit(s, 24 * q) = x0 /\ Bit(s, 24 * q + 1) = x1 /\ Bit(s, 24 * q + 2) = x2
      /\ Bit(s, 24 * q + 3) = x3 /\ Bit(s, 24 * q + 4) = x4 /\ Bit(s, 24 * q + 5) = x5
  BY <1>1, BitsOf, <1>3
<1>5. Bit(s, 24 * q + 6) = y0 /\ Bit(s, 24 * q + 7) = y1
  BY <1>2, BitsOf, <1>3
<1>6. Byte(s, 3 * q) = 128 * x0 + 64 * x1 + 32 * x2 + 16 * x3 + 8 * x4 + 4 * x5 + 2 * y0 + y1
  BY <1>3, <1>4, <1>5, ByteIs
<1>7. 4 * (32 * x0 + 16 * x1 + 8 * x2 + 4 * x3 + 2 * x4 + x5) + (2 * y0 + y1)
      = 128 * x0 + 64 * x1 + 32 * x2 + 16 * x3 + 8 * x4 + 4 * x5 + 2 * y0 + y1
  OBVIOUS
<1> QED
  BY <1>1, <1>2, <1>6, <1>7

LEMMA SecondByte ==
    ASSUME NEW s, NEW q \in Nat, NEW x \in 0..63, NEW y \in 0..63,
           b64_val[s[4 * q + 2]] = x, b64_val[s[4 * q + 3]] = y
    PROVE  Byte(s, 3 * q + 1) = 16 * (x % 16) + y \div 4
<1>1. PICK x0, x1, x2, x3, x4, x5 \in {0, 1} :
         /\ x = 32 * x0 + 16 * x1 + 8 * x2 + 4 * x3 + 2 * x4 + x5
         /\ (x \div 32) % 2 = x0 /\ (x \div 16) % 2 = x1 /\ (x \div 8) % 2 = x2
         /\ (x \div 4) % 2 = x3 /\ (x \div 2) % 2 = x4 /\ (x \div 1) % 2 = x5
         /\ x % 16 = 8 * x2 + 4 * x3 + 2 * x4 + x5 /\ x % 4 = 2 * x4 + x5
  BY SixBits
<1>2. PICK y0, y1, y2, y3, y4, y5 \in {0, 1} :
         /\ y = 32 * y0 + 16 * y1 + 8 * y2 + 4 * y3 + 2 * y4 + y5
         /\ (y \div 32) % 2 = y0 /\ (y \div 16) % 2 = y1 /\ (y \div 8) % 2 = y2
         /\ (y \div 4) % 2 = y3 /\ (y \div 2) % 2 = y4 /\ (y \div 1) % 2 = y5
         /\ y \div 16 = 2 * y0 + y1 /\ y \div 4 = 8 * y0 + 4 * y1 + 2 * y2 + y3
  BY SixBits
<1>3. 4 * q + 1 + 1 = 4 * q + 2 /\ 4 * q + 2 + 1 = 4 * q + 3
      /\ 24 * q + 6 * 1 + 2 = 24 * q + 8 /\ 24 * q + 6 * 1 + 3 = 24 * q + 9
      /\ 24 * q + 6 * 1 + 4 = 24 * q + 10 /\ 24 * q + 6 * 1 + 5 = 24 * q + 11
      /\ 24 * q + 6 * 2 = 24 * q + 12 /\ 24 * q + 12 + 1 = 24 * q + 13
      /\ 24 * q + 12 + 2 = 24 * q + 14 /\ 24 * q + 12 + 3 = 24 * q + 15
      /\ 1 \in 0..3 /\ 2 \in 0..3
  OBVIOUS
<1>4. /\ Bit(s, 24 * q + 8) = x2 /\ Bit(s, 24 * q + 9) = x3
      /\ Bit(s, 24 * q + 10) = x4 /\ Bit(s, 24 * q + 11) = x5
  BY <1>1, BitsOf, <1>3
<1>5. /\ Bit(s, 24 * q + 12) = y0 /\ Bit(s, 24 * q + 13) = y1
      /\ Bit(s, 24 * q + 14) = y2 /\ Bit(s, 24 * q + 15) = y3
  BY <1>2, BitsOf, <1>3
<1>6. /\ 3 * q + 1 \in Nat /\ 8 * (3 * q + 1) = 24 * q + 8
      /\ 24 * q + 8 + 1 = 24 * q + 9 /\ 24 * q + 8 + 2 = 24 * q + 10
      /\ 24 * q + 8 + 3 = 24 * q + 11 /\ 24 * q + 8 + 4 = 24 * q + 12
      /\ 24 * q + 8 + 5 = 24 * q + 13 /\ 24 * q + 8 + 6 = 24 * q + 14
      /\ 24 * q + 8 + 7 = 24 * q + 15
  OBVIOUS
<1>7. Byte(s, 3 * q + 1) = 128 * x2 + 64 * x3 + 32 * x4 + 16 * x5 + 8 * y0 + 4 * y1 + 2 * y2 + y3
  BY <1>4, <1>5, <1>6, ByteIs
<1>8. 16 * (8 * x2 + 4 * x3 + 2 * x4 + x5) + (8 * y0 + 4 * y1 + 2 * y2 + y3)
      = 128 * x2 + 64 * x3 + 32 * x4 + 16 * x5 + 8 * y0 + 4 * y1 + 2 * y2 + y3
  OBVIOUS
<1> QED
  BY <1>1, <1>2, <1>7, <1>8

LEMMA ThirdByte ==
    ASSUME NEW s, NEW q \in Nat, NEW x \in 0..63, NEW y \in 0..63,
           b64_val[s[4 * q + 3]] = x, b64_val[s[4 * q + 4]] = y
    PROVE  Byte(s, 3 * q + 2) = 64 * (x % 4) + y
<1>1. PICK x0, x1, x2, x3, x4, x5 \in {0, 1} :
         /\ x = 32 * x0 + 16 * x1 + 8 * x2 + 4 * x3 + 2 * x4 + x5
         /\ (x \div 32) % 2 = x0 /\ (x \div 16) % 2 = x1 /\ (x \div 8) % 2 = x2
         /\ (x \div 4) % 2 = x3 /\ (x \div 2) % 2 = x4 /\ (x \div 1) % 2 = x5
         /\ x % 16 = 8 * x2 + 4 * x3 + 2 * x4 + x5 /\ x % 4 = 2 * x4 + x5
  BY SixBits
<1>2. PICK y0, y1, y2, y3, y4, y5 \in {0, 1} :
         /\ y = 32 * y0 + 16 * y1 + 8 * y2 + 4 * y3 + 2 * y4 + y5
         /\ (y \div 32) % 2 = y0 /\ (y \div 16) % 2 = y1 /\ (y \div 8) % 2 = y2
         /\ (y \div 4) % 2 = y3 /\ (y \div 2) % 2 = y4 /\ (y \div 1) % 2 = y5
         /\ y \div 16 = 2 * y0 + y1 /\ y \div 4 = 8 * y0 + 4 * y1 + 2 * y2 + y3
  BY SixBits
<1>3. 4 * q + 2 + 1 = 4 * q + 3 /\ 4 * q + 3 + 1 = 4 * q + 4
      /\ 24 * q + 6 * 2 + 4 = 24 * q + 16 /\ 24 * q + 6 * 2 + 5 = 24 * q + 17
      /\ 24 * q + 6 * 3 = 24 * q + 18 /\ 24 * q + 18 + 1 = 24 * q + 19
      /\ 24 * q + 18 + 2 = 24 * q + 20 /\ 24 * q + 18 + 3 = 24 * q + 21
      /\ 24 * q + 18 + 4 = 24 * q + 22 /\ 24 * q + 18 + 5 = 24 * q + 23
      /\ 2 \in 0..3 /\ 3 \in 0..3
  OBVIOUS
<1>4. Bit(s, 24 * q + 16) = x4 /\ Bit(s, 24 * q + 17) = x5
  BY <1>1, BitsOf, <1>3
<1>5. /\ Bit(s, 24 * q + 18) = y0 /\ Bit(s, 24 * q + 19) = y1 /\ Bit(s, 24 * q + 20) = y2
      /\ Bit(s, 24 * q + 21) = y3 /\ Bit(s, 24 * q + 22) = y4 /\ Bit(s, 24 * q + 23) = y5
  <2>1. 3 \in 0..3 /\ 24 * q + 6 * 3 = 24 * q + 18 /\ b64_val[s[4 * q + 3 + 1]] = y
    BY <1>3
  <2>2. /\ Bit(s, 24 * q + 18) = (y \div 32) % 2 /\ Bit(s, 24 * q + 18 + 1) = (y \div 16) % 2
        /\ Bit(s, 24 * q + 18 + 2) = (y \div 8) % 2
    BY BitsOf, <2>1
  <2>3. /\ Bit(s, 24 * q + 18 + 3) = (y \div 4) % 2 /\ Bit(s, 24 * q + 18 + 4) = (y \div 2) % 2
        /\ Bit(s, 24 * q + 18 + 5) = (y \div 1) % 2
    BY BitsOf, <2>1
  <2> QED
    BY <1>2, <1>3, <2>2, <2>3
<1>6. /\ 3 * q + 2 \in Nat /\ 8 * (3 * q + 2) = 24 * q + 16
      /\ 24 * q + 16 + 1 = 24 * q + 17 /\ 24 * q + 16 + 2 = 24 * q + 18
      /\ 24 * q + 16 + 3 = 24 * q + 19 /\ 24 * q + 16 + 4 = 24 * q + 20
      /\ 24 * q + 16 + 5 = 24 * q + 21 /\ 24 * q + 16 + 6 = 24 * q + 22
      /\ 24 * q + 16 + 7 = 24 * q + 23
  OBVIOUS
<1>7. Byte(s, 3 * q + 2) = 128 * x4 + 64 * x5 + 32 * y0 + 16 * y1 + 8 * y2 + 4 * y3 + 2 * y4 + y5
  BY <1>4, <1>5, <1>6, ByteIs
<1>8. 64 * (2 * x4 + x5) + (32 * y0 + 16 * y1 + 8 * y2 + 4 * y3 + 2 * y4 + y5)
      = 128 * x4 + 64 * x5 + 32 * y0 + 16 * y1 + 8 * y2 + 4 * y3 + 2 * y4 + y5
  OBVIOUS
<1> QED
  BY <1>1, <1>2, <1>7, <1>8



(* ---- one more symbol ---- *)

LEMMA BitType ==
    ASSUME NEW s \in Seq(Symbols), NEW i \in Nat, i < 6 * Len(s)
    PROVE  Bit(s, i) \in {0, 1} /\ i \div 6 + 1 \in 1..Len(s)
<1>1. i \div 6 + 1 \in 1..Len(s) /\ i % 6 \in 0..5
  <2>1. PICK n \in Nat : n = Len(s)
    OBVIOUS
  <2>2. i \div 6 + 1 \in 1..n /\ i % 6 \in 0..5
    BY <2>1
  <2> QED
    BY <2>1, <2>2
<1>2. PICK j \in 0..5 : j = 5 - (i % 6)
  BY <1>1
<1>3. 2^j \in {1, 2, 4, 8, 16, 32}
  <2>1. j = 0 \/ j = 1 \/ j = 2 \/ j = 3 \/ j = 4 \/ j = 5
    OBVIOUS
  <2>2. CASE j = 0 \/ j = 1 \/ j = 2
    BY <2>2, Powers
  <2>3. CASE j = 3 \/ j = 4 \/ j = 5
    BY <2>3, Powers
  <2> QED
    BY <2>1, <2>2, <2>3
<1>4. PICK p \in {1, 2, 4, 8, 16, 32} : p = 2^j
  BY <1>3
<1>5. s[i \div 6 + 1] \in Symbols
  BY <1>1
<1>6. PICK v \in 0..63 : v = b64_val[s[i \div 6 + 1]]
  BY <1>5, Base64Assumption DEF Symbols
<1>7. (v \div p) % 2 \in {0, 1}
  OBVIOUS
<1> QED
  BY <1>1, <1>2, <1>4, <1>6, <1>7 DEF Bit

LEMMA ByteType ==
    ASSUME NEW s \in Seq(Symbols), NEW k \in Nat, 8 * k + 7 < 6 * Len(s)
    PROVE  Byte(s, k) \in 0..255
<1>1. \A j \in 0..7 : 8 * k + j \in Nat /\ 8 * k + j < 6 * Len(s)
  OBVIOUS
<1>2. ASSUME NEW j \in 0..7 PROVE Bit(s, 8 * k + j) \in {0, 1}
  BY <1>1, BitType
<1>3. 8 * k + 0 = 8 * k
  OBVIOUS
<1>4. PICK b0 \in {0, 1}, b1 \in {0, 1}, b2 \in {0, 1}, b3 \in {0, 1} :
        /\ Bit(s, 8 * k) = b0 /\ Bit(s, 8 * k + 1) = b1 /\ Bit(s, 8 * k + 2) = b2
        /\ Bit(s, 8 * k + 3) = b3
  BY <1>2, <1>3
<1>5. PICK b4 \in {0, 1}, b5 \in {0, 1}, b6 \in {0, 1}, b7 \in {0, 1} :
        /\ Bit(s, 8 * k + 4) = b4 /\ Bit(s, 8 * k + 5) = b5 /\ Bit(s, 8 * k + 6) = b6
        /\ Bit(s, 8 * k + 7) = b7
  BY <1>2
<1>6. Byte(s, k) = b0 * 2^(7 - 0) + b1 * 2^(7 - 1) + b2 * 2^(7 - 2) + b3 * 2^(7 - 3)
                   + b4 * 2^(7 - 4) + b5 * 2^(7 - 5) + b6 * 2^(7 - 6) + b7 * 2^(7 - 7)
  BY <1>3, <1>4, <1>5 DEF Byte
<1>7. /\ 7 - 0 = 7 /\ 7 - 1 = 6 /\ 7 - 2 = 5 /\ 7 - 3 = 4 /\ 7 - 4 = 3 /\ 7 - 5 = 2 /\ 7 - 6 = 1
      /\ 7 - 7 = 0
  OBVIOUS
<1>8. 128 * b0 + 64 * b1 + 32 * b2 + 16 * b3 + 8 * b4 + 4 * b5 + 2 * b6 + b7 \in 0..255
  OBVIOUS
<1> QED
  BY <1>6, <1>7, <1>8, Powers

LEMMA BytesType ==
    ASSUME NEW s \in Seq(Symbols)
    PROVE  Bytes(s) \in Outs /\ Len(Bytes(s)) = (6 * Len(s)) \div 8
<1>1. PICK n \in Nat : n = Len(s)
  OBVIOUS
<1>2. PICK m \in Nat : m = (6 * n) \div 8 /\ 8 * m <= 6 * n
  OBVIOUS
<1>3. ASSUME NEW k \in 1..m PROVE Byte(s, k - 1) \in 0..255
  <2>1. k - 1 \in Nat /\ 8 * (k - 1) + 7 < 6 * n
    BY <1>2
  <2> QED
    BY <1>1, <2>1, ByteType
<1>4. Bytes(s) = [k \in 1..m |-> Byte(s, k - 1)]
  BY <1>1, <1>2 DEF Bytes
<1> QED
  BY <1>1, <1>2, <1>3, <1>4 DEF Outs

LEMMA ByteStays ==
    ASSUME NEW s \in Seq(Symbols), NEW c \in Symbols, NEW k \in Nat, 8 * k + 7 < 6 * Len(s)
    PROVE  Byte(Append(s, c), k) = Byte(s, k)
<1> DEFINE more == Append(s, c)
<1>1. \A j \in 0..7 : 8 * k + j \in Nat /\ 8 * k + j < 6 * Len(s)
  OBVIOUS
<1>2. \A i \in 1..Len(s) : more[i] = s[i]
  OBVIOUS
<1> HIDE DEF more
<1>3. ASSUME NEW j \in 0..7 PROVE Bit(more, 8 * k + j) = Bit(s, 8 * k + j)
  <2>1. (8 * k + j) \div 6 + 1 \in 1..Len(s)
    BY <1>1, BitType
  <2>2. more[(8 * k + j) \div 6 + 1] = s[(8 * k + j) \div 6 + 1]
    BY <1>2, <2>1
  <2> QED
    BY <2>2 DEF Bit
<1>4. /\ Bit(more, 8 * k + 0) = Bit(s, 8 * k + 0) /\ Bit(more, 8 * k + 1) = Bit(s, 8 * k + 1)
      /\ Bit(more, 8 * k + 2) = Bit(s, 8 * k + 2) /\ Bit(more, 8 * k + 3) = Bit(s, 8 * k + 3)
  BY <1>3
<1>5. /\ Bit(more, 8 * k + 4) = Bit(s, 8 * k + 4) /\ Bit(more, 8 * k + 5) = Bit(s, 8 * k + 5)
      /\ Bit(more, 8 * k + 6) = Bit(s, 8 * k + 6) /\ Bit(more, 8 * k + 7) = Bit(s, 8 * k + 7)
  BY <1>3
<1> QED
  BY <1>4, <1>5, Zenon DEF Byte, more

LEMMA SameSeq ==
    ASSUME NEW S, NEW a \in Seq(S), NEW b \in Seq(S), Len(a) = Len(b),
           \A i \in 1..Len(a) : a[i] = b[i]
    PROVE  a = b
<1>1. a \in [1..Len(a) -> S] /\ b \in [1..Len(a) -> S]
  BY LenProperties
<1> QED
  BY <1>1

LEMMA ByteAdded ==
    ASSUME NEW s \in Seq(Symbols), NEW c \in Symbols, NEW m \in Nat,
           m = (6 * Len(s)) \div 8, (6 * (Len(s) + 1)) \div 8 = m + 1
    PROVE  Bytes(Append(s, c)) = Append(Bytes(s), Byte(Append(s, c), m))
<1> DEFINE more == Append(s, c)
           b == Byte(more, m)
<1>1. PICK n \in Nat : n = Len(s) /\ Len(more) = n + 1 /\ more \in Seq(Symbols)
  OBVIOUS
<1>2. m = (6 * n) \div 8 /\ 8 * m <= 6 * n
  BY <1>1
<1>3. \A k \in 1..m : Byte(more, k - 1) = Byte(s, k - 1)
  <2> TAKE k \in 1..m
  <2>1. k - 1 \in Nat /\ 8 * (k - 1) + 7 < 6 * n
    BY <1>2
  <2> QED
    BY <1>1, <2>1, ByteStays
<1>4. Bytes(s) = [k \in 1..m |-> Byte(s, k - 1)]
  BY <1>1, <1>2 DEF Bytes
<1>5. Bytes(more) = [k \in 1..(m + 1) |-> Byte(more, k - 1)]
  BY <1>1, <1>2 DEF Bytes
<1>6. Bytes(s) \in Outs /\ Len(Bytes(s)) = m
  BY <1>1, <1>2, BytesType
<1> HIDE DEF more
<1>7. b \in 0..255
  <2>1. 8 * m + 7 < 6 * Len(more)
    BY <1>1
  <2> QED
    BY <1>1, <2>1, ByteType
<1>8. PICK t \in Seq(0..255) : t = Bytes(s) /\ Len(t) = m /\ \A k \in 1..m : t[k] = Byte(s, k - 1)
  BY <1>4, <1>6 DEF Outs
<1>9. PICK w \in Seq(0..255) : /\ w = Bytes(more) /\ Len(w) = m + 1
                              /\ \A k \in 1..(m + 1) : w[k] = Byte(more, k - 1)
  <2>1. Bytes(more) \in Seq(0..255) /\ Len(Bytes(more)) = m + 1
    BY <1>1, BytesType DEF Outs
  <2> QED
    BY <1>5, <2>1
<1> HIDE DEF b
<1>10. PICK z \in Seq(0..255) : /\ z = Append(t, b) /\ Len(z) = m + 1 /\ z[m + 1] = b
                               /\ \A k \in 1..m : z[k] = t[k]
  <2>1. /\ Append(t, b) \in Seq(0..255) /\ Len(Append(t, b)) = Len(t) + 1
        /\ Append(t, b)[Len(t) + 1] = b /\ \A k \in 1..Len(t) : Append(t, b)[k] = t[k]
    BY <1>7
  <2> QED
    BY <1>8, <2>1
<1>11. ASSUME NEW k \in 1..(m + 1) PROVE w[k] = z[k]
  <2>1. CASE k \in 1..m
    BY <1>3, <1>8, <1>9, <1>10, <2>1
  <2>2. CASE k = m + 1
    <3>1. m + 1 - 1 = m
      OBVIOUS
    <3> QED
      BY <1>9, <1>10, <2>2, <3>1 DEF b
  <2> QED
    BY <2>1, <2>2
<1>12. w = z
  BY <1>9, <1>10, <1>11, SameSeq
<1> QED
  BY <1>8, <1>9, <1>10, <1>12 DEF more, b

LEMMA GroupLengths ==
    ASSUME NEW q \in Nat
    PROVE  /\ (6 * (4 * q)) \div 8 = 3 * q /\ (6 * (4 * q + 1)) \div 8 = 3 * q
           /\ (6 * (4 * q + 2)) \div 8 = 3 * q + 1 /\ (6 * (4 * q + 3)) \div 8 = 3 * q + 2
           /\ (6 * (4 * q + 4)) \div 8 = 3 * q + 3
<1>1. (6 * (4 * q)) \div 8 = 3 * q /\ (6 * (4 * q + 1)) \div 8 = 3 * q
  OBVIOUS
<1>2. (6 * (4 * q + 2)) \div 8 = 3 * q + 1 /\ (6 * (4 * q + 3)) \div 8 = 3 * q + 2
  OBVIOUS
<1>3. (6 * (4 * q + 4)) \div 8 = 3 * q + 3
  OBVIOUS
<1> QED
  BY <1>1, <1>2, <1>3

(* What one more symbol adds to the bytes that symbols stand for.          *)
Adds(s, c, q, u, v) ==
    /\ Len(s) = 4 * q => Bytes(Append(s, c)) = Bytes(s)
    /\ Len(s) = 4 * q + 1 => Bytes(Append(s, c)) = Append(Bytes(s), 4 * u + v \div 16)
    /\ Len(s) = 4 * q + 2 => Bytes(Append(s, c)) = Append(Bytes(s), 16 * (u % 16) + v \div 4)
    /\ Len(s) = 4 * q + 3 => Bytes(Append(s, c)) = Append(Bytes(s), 64 * (u % 4) + v)

LEMMA BytesAppend ==
    ASSUME NEW s \in Seq(Symbols), NEW c \in Symbols, NEW q \in Nat, NEW u, NEW v,
           v = b64_val[c], Len(s) > 0 => u = b64_val[s[Len(s)]]
    PROVE  Adds(s, c, q, u, v)
<1> USE DEF Adds
<1> DEFINE more == Append(s, c)
<1>1. more \in Seq(Symbols) /\ Len(more) = Len(s) + 1 /\ more[Len(s) + 1] = c
      /\ (Len(s) > 0 => more[Len(s)] = s[Len(s)]) /\ Len(s) \in Nat
  OBVIOUS
<1>2. v \in 0..63 /\ (Len(s) > 0 => u \in 0..63)
  <2>1. Len(s) > 0 => s[Len(s)] \in Symbols
    OBVIOUS
  <2> QED
    BY <2>1, Base64Assumption DEF Symbols
<1>3. b64_val[more[Len(s) + 1]] = v /\ (Len(s) > 0 => b64_val[more[Len(s)]] = u)
  BY <1>1
<1> HIDE DEF more
<1>4. CASE Len(s) = 4 * q
  <2>1. (6 * Len(s)) \div 8 = 3 * q /\ (6 * Len(more)) \div 8 = 3 * q
    BY <1>1, <1>4, GroupLengths
  <2>2. ASSUME NEW k \in 1..(3 * q) PROVE Byte(more, k - 1) = Byte(s, k - 1)
    <3>1. k - 1 \in Nat /\ 8 * (k - 1) + 7 < 6 * Len(s)
      BY <1>4
    <3> QED
      BY <3>1, ByteStays DEF more
  <2>3. Bytes(more) = Bytes(s)
    BY <2>1, <2>2 DEF Bytes
  <2>4. ~(Len(s) = 4 * q + 1) /\ ~(Len(s) = 4 * q + 2) /\ ~(Len(s) = 4 * q + 3)
    BY <1>4
  <2> QED
    BY <2>3, <2>4 DEF more
<1>5. CASE Len(s) = 4 * q + 1
  <2>1. (6 * Len(s)) \div 8 = 3 * q /\ (6 * (Len(s) + 1)) \div 8 = 3 * q + 1
    <3>1. 4 * q + 1 + 1 = 4 * q + 2
      OBVIOUS
    <3> QED
      BY <1>5, <3>1, GroupLengths
  <2>2. u \in 0..63 /\ v \in 0..63 /\ b64_val[more[4 * q + 1]] = u /\ b64_val[more[4 * q + 2]] = v
    BY <1>1, <1>2, <1>3, <1>5
  <2>3. Byte(more, 3 * q) = 4 * u + v \div 16
    BY <2>2, FirstByte
  <2>4. 3 * q \in Nat
    OBVIOUS
  <2>5. Bytes(more) = Append(Bytes(s), Byte(more, 3 * q))
    BY <2>1, <2>4, ByteAdded DEF more
  <2>6. ~(Len(s) = 4 * q) /\ ~(Len(s) = 4 * q + 2) /\ ~(Len(s) = 4 * q + 3)
    BY <1>5
  <2> QED
    BY <2>3, <2>5, <2>6 DEF more
<1>6. CASE Len(s) = 4 * q + 2
  <2>1. (6 * Len(s)) \div 8 = 3 * q + 1 /\ (6 * (Len(s) + 1)) \div 8 = 3 * q + 1 + 1
    <3>1. 4 * q + 2 + 1 = 4 * q + 3 /\ 3 * q + 1 + 1 = 3 * q + 2
      OBVIOUS
    <3> QED
      BY <1>6, <3>1, GroupLengths
  <2>2. u \in 0..63 /\ v \in 0..63 /\ b64_val[more[4 * q + 2]] = u /\ b64_val[more[4 * q + 3]] = v
    BY <1>1, <1>2, <1>3, <1>6
  <2>3. Byte(more, 3 * q + 1) = 16 * (u % 16) + v \div 4
    BY <2>2, SecondByte
  <2>4. 3 * q + 1 \in Nat
    OBVIOUS
  <2>5. Bytes(more) = Append(Bytes(s), Byte(more, 3 * q + 1))
    BY <2>1, <2>4, ByteAdded DEF more
  <2>6. ~(Len(s) = 4 * q) /\ ~(Len(s) = 4 * q + 1) /\ ~(Len(s) = 4 * q + 3)
    BY <1>6
  <2> QED
    BY <2>3, <2>5, <2>6 DEF more
<1>7. CASE Len(s) = 4 * q + 3
  <2>1. (6 * Len(s)) \div 8 = 3 * q + 2 /\ (6 * (Len(s) + 1)) \div 8 = 3 * q + 2 + 1
    <3>1. 4 * q + 3 + 1 = 4 * q + 4 /\ 3 * q + 2 + 1 = 3 * q + 3
      OBVIOUS
    <3> QED
      BY <1>7, <3>1, GroupLengths
  <2>2. u \in 0..63 /\ v \in 0..63 /\ b64_val[more[4 * q + 3]] = u /\ b64_val[more[4 * q + 4]] = v
    BY <1>1, <1>2, <1>3, <1>7
  <2>3. Byte(more, 3 * q + 2) = 64 * (u % 4) + v
    <3> HIDE <1>1, <1>2, <1>3
    <3>1. PICK x \in 0..63, y \in 0..63 : x = u /\ y = v
      BY <2>2
    <3>2. b64_val[more[4 * q + 3]] = x /\ b64_val[more[4 * q + 4]] = y
      BY <2>2, <3>1
    <3>3. Byte(more, 3 * q + 2) = 64 * (x % 4) + y
      BY <3>2, ThirdByte
    <3> QED
      BY <3>1, <3>3
  <2>4. 3 * q + 2 \in Nat
    OBVIOUS
  <2>5. Bytes(more) = Append(Bytes(s), Byte(more, 3 * q + 2))
    BY <2>1, <2>4, ByteAdded DEF more
  <2>6. ~(Len(s) = 4 * q) /\ ~(Len(s) = 4 * q + 1) /\ ~(Len(s) = 4 * q + 2)
    BY <1>7
  <2> QED
    BY <2>3, <2>5, <2>6 DEF more
<1> QED
  BY <1>4, <1>5, <1>6, <1>7


(* ---- the decoder follows a text ---- *)

LEMMA TextAppend ==
    ASSUME NEW t \in Seq(Text), NEW c \in Text
    PROVE  /\ Digits(t) \in Seq(Symbols) /\ Stripped(t) \in Seq(Text)
           /\ Digits(Append(t, c)) = IF c \in Symbols THEN Append(Digits(t), c) ELSE Digits(t)
           /\ Stripped(Append(t, c)) = IF c # "newline" THEN Append(Stripped(t), c) ELSE Stripped(t)
<1>1. Symbols \cap Text = Symbols /\ (Text \ {"newline"}) \cap Text \in SUBSET Text
  BY DEF Text
<1>2. /\ Only(Symbols, t) \in Seq(Symbols \cap Text)
      /\ Only(Symbols, Append(t, c)) = Keep(Symbols, Only(Symbols, t), c)
  BY OnlyAppend
<1>3. /\ Only(Text \ {"newline"}, t) \in Seq((Text \ {"newline"}) \cap Text)
      /\ Only(Text \ {"newline"}, Append(t, c)) =
            Keep(Text \ {"newline"}, Only(Text \ {"newline"}, t), c)
  BY OnlyAppend
<1>4. \A x \in Seq((Text \ {"newline"}) \cap Text) : x \in Seq(Text)
  OBVIOUS
<1>5. c \in Text \ {"newline"} <=> c # "newline"
  OBVIOUS
<1> QED
  BY <1>1, <1>2, <1>3, <1>4, <1>5 DEF Digits, Stripped, Keep

(* S is the symbols s and then p pads.                                     *)
Laid(S, s, p) ==
    /\ Len(S) = Len(s) + p
    /\ \A i \in 1..Len(s) : S[i] = s[i]
    /\ \A i \in 1..p : S[Len(s) + i] = "="

(* A text that more characters could make valid, its layout at least.      *)
Layable(S) ==
    \E q \in Nat, r \in 0..3, p \in 0..2 :
        /\ Len(S) = 4 * q + r + p
        /\ \A i \in 1..(4 * q + r) : S[i] \in Symbols
        /\ \A i \in 1..p : S[4 * q + r + i] = "="
        /\ p > 0 => r >= 2 /\ r + p <= 4

LEMMA GoodPrefix ==
    ASSUME NEW S \in Seq(Text), NEW c \in Text, Layable(Append(S, c)) PROVE Layable(S)
<1> DEFINE more == Append(S, c)
<1>1. Len(more) = Len(S) + 1 /\ \A i \in 1..Len(S) : more[i] = S[i]
  OBVIOUS
<1>2. Len(S) \in Nat
  OBVIOUS
<1>3. PICK q \in Nat, r \in 0..3, p \in 0..2 :
        /\ Len(more) = 4 * q + r + p
        /\ \A i \in 1..(4 * q + r) : more[i] \in Symbols
        /\ \A i \in 1..p : more[4 * q + r + i] = "="
        /\ p > 0 => r >= 2 /\ r + p <= 4
  BY DEF Layable
<1> HIDE DEF more
<1>4. CASE p > 0
  <2>1. p - 1 \in 0..2 /\ Len(S) = 4 * q + r + (p - 1) /\ (p - 1 > 0 => r >= 2 /\ r + (p - 1) <= 4)
    BY <1>1, <1>2, <1>3, <1>4
  <2>2. \A i \in 1..(4 * q + r) : i \in 1..Len(S)
    BY <2>1
  <2>3. \A i \in 1..(p - 1) : i \in 1..p /\ 4 * q + r + i \in 1..Len(S)
    BY <2>1
  <2>4. \A i \in 1..(4 * q + r) : S[i] \in Symbols
    BY <1>1, <1>3, <2>2
  <2>5. \A i \in 1..(p - 1) : S[4 * q + r + i] = "="
    BY <1>1, <1>3, <2>3
  <2> QED
    BY <2>1, <2>4, <2>5 DEF Layable
<1>5. CASE p = 0 /\ r > 0
  <2>1. r - 1 \in 0..3 /\ Len(S) = 4 * q + (r - 1) + 0 /\ 0 \in 0..2 /\ ~(0 > 0)
    BY <1>1, <1>2, <1>3, <1>5
  <2>2. \A i \in 1..(4 * q + (r - 1)) : i \in 1..Len(S) /\ i \in 1..(4 * q + r)
    BY <2>1
  <2>3. \A i \in 1..(4 * q + (r - 1)) : S[i] \in Symbols
    BY <1>1, <1>3, <2>2
  <2>4. \A i \in 1..0 : S[4 * q + (r - 1) + i] = "="
    OBVIOUS
  <2> QED
    BY <2>1, <2>3, <2>4 DEF Layable
<1>6. CASE p = 0 /\ r = 0
  <2>1. q - 1 \in Nat /\ 3 \in 0..3 /\ Len(S) = 4 * (q - 1) + 3 + 0 /\ 0 \in 0..2 /\ ~(0 > 0)
    BY <1>1, <1>2, <1>3, <1>6
  <2>2. \A i \in 1..(4 * (q - 1) + 3) : i \in 1..Len(S) /\ i \in 1..(4 * q + r)
    BY <1>6, <2>1
  <2>3. \A i \in 1..(4 * (q - 1) + 3) : S[i] \in Symbols
    BY <1>1, <1>3, <2>2
  <2>4. \A i \in 1..0 : S[4 * (q - 1) + 3 + i] = "="
    OBVIOUS
  <2> QED
    BY <2>1, <2>3, <2>4 DEF Layable
<1> QED
  BY <1>3, <1>4, <1>5, <1>6

LEMMA NotGood ==
    ASSUME NEW s \in Seq(Symbols), NEW S \in Seq(Text), NEW p \in 0..2, Laid(S, s, p),
           NEW q \in Nat, NEW r \in 0..3, Len(s) = 4 * q + r, NEW c \in Text,
           \/ c = "other"
           \/ c \in Symbols /\ p > 0
           \/ c = "=" /\ (r < 2 \/ r + p >= 4)
    PROVE  ~Layable(Append(S, c))
<1> DEFINE more == Append(S, c)
<1>1. /\ Len(more) = Len(S) + 1 /\ more[Len(S) + 1] = c /\ \A i \in 1..Len(S) : more[i] = S[i]
      /\ Len(S) \in Nat /\ Len(s) \in Nat
  OBVIOUS
<1>2. "=" \notin Symbols /\ "other" \notin Symbols
  BY Base64Assumption DEF Symbols
<1>3. Len(S) = Len(s) + p /\ \A i \in 1..p : S[Len(s) + i] = "="
  BY DEF Laid
<1>4. \A i \in 1..Len(s) : S[i] \in Symbols
  BY DEF Laid
<1> SUFFICES ASSUME Layable(more) PROVE FALSE
  BY DEF more
<1> HIDE DEF more
<1>5. PICK q1 \in Nat, r1 \in 0..3, p1 \in 0..2 :
        /\ Len(more) = 4 * q1 + r1 + p1
        /\ \A i \in 1..(4 * q1 + r1) : more[i] \in Symbols
        /\ \A i \in 1..p1 : more[4 * q1 + r1 + i] = "="
        /\ p1 > 0 => r1 >= 2 /\ r1 + p1 <= 4
  BY DEF Layable
<1>6. CASE c = "other"
  <2>1. CASE p1 = 0
    <3>1. Len(S) + 1 \in 1..(4 * q1 + r1)
      BY <1>1, <1>5, <2>1
    <3> QED
      BY <1>1, <1>2, <1>5, <1>6, <3>1
  <2>2. CASE p1 > 0
    <3>1. p1 \in 1..p1 /\ Len(S) + 1 = 4 * q1 + r1 + p1
      BY <1>1, <1>5, <2>2
    <3> QED
      BY <1>1, <1>5, <1>6, <3>1
  <2> QED
    BY <2>1, <2>2
<1>7. CASE c \in Symbols /\ p > 0
  <2>1. CASE p1 > 0
    <3>1. p1 \in 1..p1 /\ Len(S) + 1 = 4 * q1 + r1 + p1
      BY <1>1, <1>5, <2>1
    <3> QED
      BY <1>1, <1>2, <1>5, <1>7, <3>1
  <2>2. CASE p1 = 0
    <3>1. Len(S) \in 1..(4 * q1 + r1) /\ Len(S) \in 1..Len(S) /\ p \in 1..p
      BY <1>1, <1>3, <1>5, <1>7, <2>2
    <3>2. S[Len(S)] = "="
      BY <1>3, <3>1
    <3> QED
      BY <1>1, <1>2, <1>5, <3>1, <3>2
  <2> QED
    BY <2>1, <2>2
<1>8. CASE c = "=" /\ (r < 2 \/ r + p >= 4)
  <2>1. p1 > 0
    <3> SUFFICES ASSUME p1 = 0 PROVE FALSE
      OBVIOUS
    <3>1. Len(S) + 1 \in 1..(4 * q1 + r1)
      BY <1>1, <1>5
    <3> QED
      BY <1>1, <1>2, <1>5, <1>8, <3>1
  <2>2. ~(4 * q1 + r1 < Len(s))
    <3> SUFFICES ASSUME 4 * q1 + r1 < Len(s) PROVE FALSE
      OBVIOUS
    <3>1. 1 \in 1..p1 /\ 4 * q1 + r1 + 1 \in 1..Len(s) /\ 4 * q1 + r1 + 1 \in 1..Len(S)
      BY <1>1, <1>3, <2>1
    <3>2. more[4 * q1 + r1 + 1] = "=" /\ S[4 * q1 + r1 + 1] \in Symbols
      BY <1>4, <1>5, <3>1
    <3> QED
      BY <1>1, <1>2, <3>1, <3>2
  <2>3. ~(4 * q1 + r1 > Len(s))
    <3> SUFFICES ASSUME 4 * q1 + r1 > Len(s) PROVE FALSE
      OBVIOUS
    <3>1. Len(s) + 1 \in 1..(4 * q1 + r1)
      BY <1>1
    <3>2. more[Len(s) + 1] \in Symbols
      BY <1>5, <3>1
    <3>3. CASE p > 0
      <4>1. 1 \in 1..p /\ Len(s) + 1 \in 1..Len(S)
        BY <1>1, <1>3, <3>3
      <4> QED
        BY <1>1, <1>2, <1>3, <3>2, <4>1
    <3>4. CASE p = 0
      <4>1. Len(s) + 1 = Len(S) + 1
        BY <1>3, <3>4
      <4> QED
        BY <1>1, <1>2, <1>8, <3>2, <4>1
    <3> QED
      BY <3>3, <3>4
  <2>4. 4 * q1 + r1 = 4 * q + r
    BY <1>1, <2>2, <2>3
  <2>5. r1 = r
    BY <2>4
  <2>6. p1 = p + 1
    BY <1>1, <1>3, <1>5, <2>4
  <2> QED
    BY <1>5, <1>8, <2>1, <2>5, <2>6
<1> QED
  BY <1>6, <1>7, <1>8


(* The bits of the last symbol that no byte has taken yet.                 *)
Pending(d, s) ==
    /\ d.quad = 0 => d.bits = 0
    /\ d.quad = 1 => d.bits = 6 /\ d.acc % 64 = b64_val[s[Len(s)]]
    /\ d.quad = 2 => d.bits = 4 /\ d.acc % 16 = b64_val[s[Len(s)]] % 16
    /\ d.quad = 3 => d.bits = 2 /\ d.acc % 4 = b64_val[s[Len(s)]] % 4

(* d stands where reading symbols s and then its pads S leads.             *)
Reads(d, pre, s, S) ==
    /\ Laid(S, s, d.pad)
    /\ \E q \in Nat : Len(s) = 4 * q + d.quad
    /\ Pending(d, s)
    /\ pre \o d.out = Bytes(s)
    /\ d.pad > 0 => d.quad >= 2 /\ d.quad + d.pad <= 4

Decoding(d, pre, t) ==
    /\ d \in Decoders /\ pre \in Outs
    /\ d.err => ~Layable(Stripped(t))
    /\ ~d.err => Reads(d, pre, Digits(t), Stripped(t))

LEMMA LaidSymbol ==
    ASSUME NEW s \in Seq(Symbols), NEW S \in Seq(Text), NEW c \in Symbols, Laid(S, s, 0)
    PROVE  Laid(Append(S, c), Append(s, c), 0)
<1>1. c \in Text
  BY DEF Text
<1>2. Len(S) = Len(s) /\ \A i \in 1..Len(s) : S[i] = s[i]
  BY DEF Laid
<1>3. Len(Append(S, c)) = Len(Append(s, c)) + 0
  BY <1>1, <1>2
<1>4. \A i \in 1..Len(Append(s, c)) : Append(S, c)[i] = Append(s, c)[i]
  BY <1>1, <1>2
<1>5. \A i \in 1..0 : Append(S, c)[Len(Append(s, c)) + i] = "="
  OBVIOUS
<1> QED
  BY <1>3, <1>4, <1>5 DEF Laid

LEMMA LaidPad ==
    ASSUME NEW s \in Seq(Symbols), NEW S \in Seq(Text), NEW p \in 0..2, Laid(S, s, p)
    PROVE  Laid(Append(S, "="), s, p + 1)
<1> DEFINE more == Append(S, "=")
<1>1. "=" \in Text
  BY DEF Text
<1>2. /\ Len(S) = Len(s) + p /\ \A i \in 1..Len(s) : S[i] = s[i]
      /\ \A i \in 1..p : S[Len(s) + i] = "="
  BY DEF Laid
<1>3. /\ Len(more) = Len(S) + 1 /\ more[Len(S) + 1] = "=" /\ \A i \in 1..Len(S) : more[i] = S[i]
      /\ Len(S) \in Nat /\ Len(s) \in Nat
  BY <1>1
<1> HIDE DEF more
<1>4. Len(more) = Len(s) + (p + 1)
  BY <1>2, <1>3
<1>5. \A i \in 1..Len(s) : more[i] = s[i]
  <2>1. \A i \in 1..Len(s) : i \in 1..Len(S)
    BY <1>2, <1>3
  <2> QED
    BY <1>2, <1>3, <2>1
<1>6. ASSUME NEW i \in 1..(p + 1) PROVE more[Len(s) + i] = "="
  <2>1. CASE i \in 1..p
    <3>1. Len(s) + i \in 1..Len(S)
      BY <1>2, <1>3, <2>1
    <3> QED
      BY <1>2, <1>3, <2>1, <3>1
  <2>2. CASE i = p + 1
    <3>1. Len(s) + i = Len(S) + 1
      BY <1>2, <1>3, <2>2
    <3> QED
      BY <1>3, <3>1
  <2> QED
    BY <2>1, <2>2
<1> QED
  BY <1>4, <1>5, <1>6 DEF Laid, more

LEMMA AppendMoves ==
    ASSUME NEW pre \in Outs, NEW out \in Outs, NEW b \in 0..255
    PROVE  pre \o Append(out, b) = Append(pre \o out, b)
BY DEF Outs

LEMMA ReadsSymbol ==
    ASSUME NEW d \in Decoders, NEW pre \in Outs, NEW s \in Seq(Symbols), NEW S \in Seq(Text),
           NEW c \in Symbols, ~d.err, d.pad = 0, Reads(d, pre, s, S)
    PROVE  /\ Decode1(d, c) \in Decoders /\ ~Decode1(d, c).err
           /\ Reads(Decode1(d, c), pre, Append(s, c), Append(S, c))
<1>1. PICK v \in 0..63 : v = b64_val[c]
  BY Base64Assumption DEF Symbols
<1>2. PICK e : e = Decode1(d, c)
  OBVIOUS
<1>3. /\ e \in Decoders /\ ~e.err /\ e.pad = 0 /\ e.quad = (d.quad + 1) % 4
      /\ e.acc = NextAcc(d.acc, v) /\ e.bits = NextBits(d.bits)
      /\ e.out = IF d.bits = 0 THEN d.out ELSE Append(d.out, NextByte(d.acc, d.bits, v))
  BY <1>1, <1>2, SymbolTaken
<1>4. d.acc \in Accs /\ d.quad \in 0..3 /\ d.out \in Outs /\ d.bits \in BitCounts
  BY DecoderFields DEF Quads
<1>5. /\ Len(Append(s, c)) = Len(s) + 1 /\ Append(s, c)[Len(s) + 1] = c /\ Len(s) \in Nat
      /\ (Len(s) > 0 => s[Len(s)] \in Symbols)
  OBVIOUS
<1>6. b64_val[Append(s, c)[Len(Append(s, c))]] = v
  BY <1>1, <1>5
<1>7. Laid(Append(S, c), Append(s, c), e.pad)
  BY <1>3, LaidSymbol DEF Reads
<1>8. PICK q \in Nat : Len(s) = 4 * q + d.quad
  BY DEF Reads
<1>9. \E k \in Nat : Len(Append(s, c)) = 4 * k + e.quad
  <2>1. CASE d.quad = 3
    <3>1. e.quad = 0 /\ q + 1 \in Nat /\ Len(s) + 1 = 4 * (q + 1) + 0
      BY <1>3, <1>8, <2>1
    <3> QED
      BY <1>5, <3>1
  <2>2. CASE d.quad # 3
    <3>1. e.quad = d.quad + 1 /\ Len(s) + 1 = 4 * q + (d.quad + 1)
      BY <1>3, <1>4, <1>8, <2>2
    <3> QED
      BY <1>5, <3>1
  <2> QED
    BY <2>1, <2>2
<1>10. /\ e.acc % 64 = v /\ e.acc % 16 = v % 16 /\ e.acc % 4 = v % 4
       /\ NextByte(d.acc, 6, v) = 4 * (d.acc % 64) + v \div 16
       /\ NextByte(d.acc, 4, v) = 16 * (d.acc % 16) + v \div 4
       /\ NextByte(d.acc, 2, v) = 64 * (d.acc % 4) + v
  <2>1. PICK acc \in Accs : acc = d.acc
    BY <1>4
  <2>2. /\ NextByte(acc, 6, v) = 4 * (acc % 64) + v \div 16
        /\ NextByte(acc, 4, v) = 16 * (acc % 16) + v \div 4
        /\ NextByte(acc, 2, v) = 64 * (acc % 4) + v
        /\ NextAcc(acc, v) % 64 = v /\ NextAcc(acc, v) % 16 = v % 16
        /\ NextAcc(acc, v) % 4 = v % 4
    BY BytesOfAcc
  <2> QED
    BY <1>3, <2>1, <2>2
<1>11. NextBits(0) = 6 /\ NextBits(6) = 4 /\ NextBits(4) = 2 /\ NextBits(2) = 0
  BY DEF NextBits
<1>12. Pending(d, s)
  BY DEF Reads
<1>13. Pending(e, Append(s, c))
  <2>1. /\ d.quad = 0 => e.quad = 1 /\ e.bits = 6
        /\ d.quad = 1 => e.quad = 2 /\ e.bits = 4
        /\ d.quad = 2 => e.quad = 3 /\ e.bits = 2
        /\ d.quad = 3 => e.quad = 0 /\ e.bits = 0
    BY <1>3, <1>11, <1>12 DEF Pending
  <2>2. d.quad = 0 \/ d.quad = 1 \/ d.quad = 2 \/ d.quad = 3
    BY <1>4
  <2> QED
    BY <1>6, <1>10, <2>1, <2>2 DEF Pending
<1>14. pre \o e.out = Bytes(Append(s, c))
  <2>1. pre \o d.out = Bytes(s)
    BY DEF Reads
  <2>2. PICK u : Len(s) > 0 => u = b64_val[s[Len(s)]]
    OBVIOUS
  <2>3. CASE d.quad = 0
    <3>1. d.bits = 0 /\ Len(s) = 4 * q
      BY <1>8, <1>12, <2>3 DEF Pending
    <3>2. Bytes(Append(s, c)) = Bytes(s)
      <4>1. Adds(s, c, q, u, v)
        BY <1>1, <2>2, BytesAppend
      <4> QED
        BY <3>1, <4>1 DEF Adds
    <3> QED
      BY <1>3, <2>1, <3>1, <3>2
  <2>4. CASE d.quad # 0
    <3> DEFINE b == NextByte(d.acc, d.bits, v)
    <3>1. b \in 0..255
      BY <1>1, <1>4, NextTypes
    <3>2. d.bits # 0
      BY <1>4, <1>12, <2>4 DEF Pending
    <3>3. e.out = Append(d.out, b)
      BY <1>3, <3>2
    <3>4. Bytes(Append(s, c)) = Append(Bytes(s), b)
      <4>1. Len(s) > 0 /\ u = b64_val[s[Len(s)]]
        BY <1>4, <1>8, <2>2, <2>4
      <4>0. Adds(s, c, q, u, v)
        BY <1>1, <2>2, BytesAppend
      <4>2. CASE d.quad = 1
        <5>1. b = 4 * u + v \div 16 /\ Len(s) = 4 * q + 1
          BY <1>8, <1>10, <1>12, <4>1, <4>2 DEF Pending
        <5>2. Bytes(Append(s, c)) = Append(Bytes(s), 4 * u + v \div 16)
          BY <4>0, <5>1 DEF Adds
        <5> QED
          BY <5>1, <5>2
      <4>3. CASE d.quad = 2
        <5>1. b = 16 * (u % 16) + v \div 4 /\ Len(s) = 4 * q + 2
          BY <1>8, <1>10, <1>12, <4>1, <4>3 DEF Pending
        <5>2. Bytes(Append(s, c)) = Append(Bytes(s), 16 * (u % 16) + v \div 4)
          BY <4>0, <5>1 DEF Adds
        <5> QED
          BY <5>1, <5>2
      <4>4. CASE d.quad = 3
        <5>1. b = 64 * (u % 4) + v /\ Len(s) = 4 * q + 3
          BY <1>8, <1>10, <1>12, <4>1, <4>4 DEF Pending
        <5>2. Bytes(Append(s, c)) = Append(Bytes(s), 64 * (u % 4) + v)
          BY <4>0, <5>1 DEF Adds
        <5> QED
          BY <5>1, <5>2
      <4> QED
        BY <1>4, <2>4, <4>2, <4>3, <4>4
    <3> HIDE DEF b
    <3>5. pre \o Append(d.out, b) = Append(pre \o d.out, b)
      BY <1>4, <3>1, AppendMoves
    <3> QED
      BY <2>1, <3>3, <3>4, <3>5
  <2> QED
    BY <2>3, <2>4
<1>15. Reads(e, pre, Append(s, c), Append(S, c))
  <2>1. ~(e.pad > 0)
    BY <1>3
  <2> QED
    BY <1>7, <1>9, <1>13, <1>14, <2>1 DEF Reads
<1> QED
  BY <1>2, <1>3, <1>15

(* One character read: the relation holds on.                              *)
LEMMA FollowsOne ==
    ASSUME NEW t \in Seq(Text), NEW c \in Text, NEW d, NEW pre, Decoding(d, pre, t)
    PROVE  Decoding(Decode1(d, c), pre, Append(t, c))
<1> DEFINE s == Digits(t)
           S == Stripped(t)
<1>1. /\ s \in Seq(Symbols) /\ S \in Seq(Text)
      /\ Digits(Append(t, c)) = IF c \in Symbols THEN Append(s, c) ELSE s
      /\ Stripped(Append(t, c)) = IF c # "newline" THEN Append(S, c) ELSE S
  BY TextAppend
<1>2. d \in Decoders /\ pre \in Outs /\ (d.err => ~Layable(S)) /\ (~d.err => Reads(d, pre, s, S))
  BY DEF Decoding
<1>3. "=" \notin Symbols /\ "newline" \notin Symbols /\ "other" \notin Symbols
  BY Base64Assumption DEF Symbols
<1> HIDE DEF s, S
<1>4. PICK e : e = Decode1(d, c)
  OBVIOUS
<1>5. e \in Decoders
  BY <1>2, <1>4, Decode1Type
<1>6. d.quad \in 0..3 /\ d.pad \in 0..2
  BY <1>2, DecoderFields DEF Quads, Pads
<1>7. CASE ~d.err /\ d.pad = 0 /\ c \in Symbols
  <2>1. ~e.err /\ Reads(e, pre, Append(s, c), Append(S, c))
    BY <1>1, <1>2, <1>4, <1>7, ReadsSymbol
  <2>2. Digits(Append(t, c)) = Append(s, c) /\ Stripped(Append(t, c)) = Append(S, c)
    BY <1>1, <1>3, <1>7
  <2> QED
    BY <1>2, <1>4, <1>5, <2>1, <2>2 DEF Decoding
<1>8. CASE ~(~d.err /\ d.pad = 0 /\ c \in Symbols)
  <2>1. \/ e = d /\ (d.err \/ c = "newline")
        \/ /\ ~d.err /\ e.err
           /\ \/ c = "=" /\ (d.quad < 2 \/ d.quad + d.pad >= 4)
              \/ c = "other"
              \/ c \in Symbols /\ d.pad > 0
        \/ /\ ~d.err /\ ~e.err /\ c = "=" /\ d.quad >= 2 /\ d.quad + d.pad < 4
           /\ e.pad = d.pad + 1 /\ e.acc = d.acc /\ e.bits = d.bits /\ e.quad = d.quad
           /\ e.out = d.out
    BY <1>2, <1>4, <1>8, OtherTaken
  <2>2. CASE e = d /\ d.err
    <3>1. ~Layable(Stripped(Append(t, c)))
      BY <1>1, <1>2, <2>2, GoodPrefix
    <3> QED
      BY <1>2, <1>4, <1>5, <2>2, <3>1 DEF Decoding
  <2>3. CASE e = d /\ ~d.err /\ c = "newline"
    <3>1. Digits(Append(t, c)) = s /\ Stripped(Append(t, c)) = S
      BY <1>1, <1>3, <2>3
    <3> QED
      BY <1>2, <1>4, <1>5, <2>3, <3>1 DEF Decoding
  <2>4. CASE /\ ~d.err /\ e.err
             /\ \/ c = "=" /\ (d.quad < 2 \/ d.quad + d.pad >= 4)
                \/ c = "other"
                \/ c \in Symbols /\ d.pad > 0
    <3>1. Laid(S, s, d.pad) /\ \E q \in Nat : Len(s) = 4 * q + d.quad
      BY <1>2, <2>4 DEF Reads
    <3>2. PICK q \in Nat : Len(s) = 4 * q + d.quad
      BY <3>1
    <3>3. ~Layable(Append(S, c))
      BY <1>1, <1>6, <2>4, <3>1, <3>2, NotGood
    <3>4. Stripped(Append(t, c)) = Append(S, c)
      BY <1>1, <1>3, <2>4
    <3> QED
      BY <1>2, <1>4, <1>5, <2>4, <3>3, <3>4 DEF Decoding
  <2>5. CASE /\ ~d.err /\ ~e.err /\ c = "=" /\ d.quad >= 2 /\ d.quad + d.pad < 4
             /\ e.pad = d.pad + 1 /\ e.acc = d.acc /\ e.bits = d.bits /\ e.quad = d.quad
             /\ e.out = d.out
    <3>1. Digits(Append(t, c)) = s /\ Stripped(Append(t, c)) = Append(S, "=")
      BY <1>1, <1>3, <2>5
    <3>2. Reads(d, pre, s, S)
      BY <1>2, <2>5
    <3>3. Laid(Append(S, "="), s, e.pad)
      BY <1>1, <1>6, <2>5, <3>2, LaidPad DEF Reads
    <3>4. Pending(e, s)
      BY <2>5, <3>2 DEF Reads, Pending
    <3>5. e.quad >= 2 /\ e.quad + e.pad <= 4
      BY <1>6, <2>5
    <3>6. Reads(e, pre, s, Append(S, "="))
      BY <2>5, <3>2, <3>3, <3>4, <3>5 DEF Reads
    <3> QED
      BY <1>2, <1>4, <1>5, <2>5, <3>1, <3>6 DEF Decoding
  <2> QED
    BY <2>1, <2>2, <2>3, <2>4, <2>5
<1> QED
  BY <1>7, <1>8


(* ---- a piece of text, and its end ---- *)

LEMMA OneMore ==
    ASSUME NEW t \in Seq(Text), NEW data \in Seq(Text), NEW i \in 0..(Len(data) - 1)
    PROVE  /\ t \o SubSeq(data, 1, i) \in Seq(Text) /\ data[i + 1] \in Text
           /\ t \o SubSeq(data, 1, i + 1) = Append(t \o SubSeq(data, 1, i), data[i + 1])
<1>1. i + 1 \in 1..Len(data) /\ Len(data) \in Nat
  OBVIOUS
<1>2. data[i + 1] \in Text
  BY <1>1
<1>3. /\ SubSeq(data, 1, i) \in Seq(Text) /\ Len(SubSeq(data, 1, i)) = i
      /\ \A j \in 1..i : SubSeq(data, 1, i)[j] = data[j]
  BY <1>1
<1>4. /\ SubSeq(data, 1, i + 1) \in Seq(Text) /\ Len(SubSeq(data, 1, i + 1)) = i + 1
      /\ \A j \in 1..(i + 1) : SubSeq(data, 1, i + 1)[j] = data[j]
  BY <1>1
<1>5. PICK a \in Seq(Text), b \in Seq(Text) : a = SubSeq(data, 1, i) /\ b = SubSeq(data, 1, i + 1)
  BY <1>3, <1>4
<1>9. PICK c \in Text : c = data[i + 1]
  BY <1>2
<1>6. b = Append(a, c)
  <2>1. Append(a, c) \in Seq(Text)
    OBVIOUS
  <2>2. PICK z \in Seq(Text) : z = Append(a, c)
    BY <2>1
  <2>3. Len(a) = i
    BY <1>3, <1>5
  <2>4. Len(z) = i + 1 /\ z[i + 1] = c /\ \A j \in 1..i : z[j] = a[j]
    BY <2>2, <2>3
  <2>5. Len(b) = i + 1 /\ \A j \in 1..(i + 1) : b[j] = data[j]
    BY <1>4, <1>5
  <2>6. \A j \in 1..i : a[j] = data[j]
    BY <1>3, <1>5
  <2>7. ASSUME NEW j \in 1..(i + 1) PROVE z[j] = b[j]
    <3>1. CASE j \in 1..i
      BY <2>4, <2>5, <2>6, <3>1
    <3>2. CASE j = i + 1
      BY <1>9, <2>4, <2>5, <3>2
    <3> QED
      BY <3>1, <3>2
  <2>8. z = b
    BY <2>4, <2>5, <2>7, SameSeq
  <2> QED
    BY <2>2, <2>8
<1>7. t \o Append(a, c) = Append(t \o a, c)
  OBVIOUS
<1>8. t \o a \in Seq(Text)
  OBVIOUS
<1> QED
  BY <1>5, <1>6, <1>7, <1>8, <1>9

Row(p) == [i \in 1..p |-> "="]

LEMMA PadRow ==
    ASSUME NEW p \in Nat, NEW T, "=" \in T
    PROVE  Row(p) \in Seq(T) /\ Len(Row(p)) = p /\ \A i \in 1..p : Row(p)[i] = "="
<1>1. Row(p) \in [1..p -> T] /\ \A i \in 1..p : Row(p)[i] = "="
  BY DEF Row
<1> QED
  BY <1>1

LEMMA AllOfIt ==
    ASSUME NEW t \in Seq(Text), NEW data \in Seq(Text)
    PROVE  t \o SubSeq(data, 1, 0) = t /\ t \o SubSeq(data, 1, Len(data)) = t \o data
<1>1. SubSeq(data, 1, 0) = <<>>
  OBVIOUS
<1>2. SubSeq(data, 1, Len(data)) = data
  OBVIOUS
<1>3. t \o <<>> = t
  OBVIOUS
<1> QED
  BY <1>1, <1>2, <1>3

(* b64dec_update carries the relation over the piece it is given.          *)
LEMMA FollowsUpdate ==
    ASSUME NEW t \in Seq(Text), NEW data \in Seq(Text), NEW d \in Decoders, NEW pre,
           Decoding(Emptied(d), pre, t)
    PROVE  Decoding(b64dec_update(d, data), pre, t \o data)
<1>1. PICK f : DecodedBy(f, d, data)
  BY UpdateFunction
<1>2. PICK N \in Nat : N = Len(data)
  OBVIOUS
<1> DEFINE P == {i \in 0..N : Decoding(f[i], pre, t \o SubSeq(data, 1, i))}
<1>3. 0 \in P
  <2>1. t \o SubSeq(data, 1, 0) = t /\ f[0] = Emptied(d) /\ 0 \in 0..N
    BY <1>1, AllOfIt DEF DecodedBy
  <2> QED
    BY <2>1
<1>4. ASSUME NEW i \in 0..(N - 1), i \in P PROVE i + 1 \in P
  <2>1. Decoding(f[i], pre, t \o SubSeq(data, 1, i))
    BY <1>4
  <2>2. /\ t \o SubSeq(data, 1, i) \in Seq(Text) /\ data[i + 1] \in Text
        /\ t \o SubSeq(data, 1, i + 1) = Append(t \o SubSeq(data, 1, i), data[i + 1])
    BY <1>2, OneMore
  <2>3. i + 1 \in 1..N /\ i + 1 - 1 = i /\ i + 1 \in 0..N
    OBVIOUS
  <2>4. f[i + 1] = Decode1(f[i], data[i + 1])
    BY <1>1, <1>2, <2>3 DEF DecodedBy
  <2>5. PICK w \in Seq(Text) : w = t \o SubSeq(data, 1, i)
    BY <2>2
  <2>6. Decoding(Decode1(f[i], data[i + 1]), pre, Append(w, data[i + 1]))
    BY <2>1, <2>2, <2>5, FollowsOne
  <2> QED
    BY <2>2, <2>3, <2>4, <2>5, <2>6
<1>5. \A i \in 0..N : i \in P
  <2> HIDE DEF P
  <2> QED
    BY <1>3, <1>4, SetInduction
<1>6. Decoding(f[N], pre, t \o SubSeq(data, 1, N))
  BY <1>5
<1> QED
  BY <1>1, <1>2, <1>6, AllOfIt DEF DecodedBy

(* What no text may start with.                                            *)
LEMMA BadStays ==
    ASSUME NEW t \in Seq(Text), NEW data \in Seq(Text), ~Layable(Stripped(t))
    PROVE  ~Layable(Stripped(t \o data))
<1>1. PICK N \in Nat : N = Len(data)
  OBVIOUS
<1> DEFINE P == {i \in 0..N : ~Layable(Stripped(t \o SubSeq(data, 1, i)))}
<1>2. 0 \in P
  <2>1. t \o SubSeq(data, 1, 0) = t /\ 0 \in 0..N
    BY AllOfIt
  <2> QED
    BY <2>1
<1>3. ASSUME NEW i \in 0..(N - 1), i \in P PROVE i + 1 \in P
  <2>1. ~Layable(Stripped(t \o SubSeq(data, 1, i)))
    BY <1>3
  <2>2. /\ t \o SubSeq(data, 1, i) \in Seq(Text) /\ data[i + 1] \in Text
        /\ t \o SubSeq(data, 1, i + 1) = Append(t \o SubSeq(data, 1, i), data[i + 1])
    BY <1>1, OneMore
  <2>3. PICK w \in Seq(Text) : w = t \o SubSeq(data, 1, i)
    BY <2>2
  <2>4. PICK c \in Text : c = data[i + 1]
    BY <2>2
  <2>5. /\ Stripped(w) \in Seq(Text)
        /\ Stripped(Append(w, c)) = IF c # "newline" THEN Append(Stripped(w), c) ELSE Stripped(w)
    BY TextAppend
  <2>6. ~Layable(Stripped(Append(w, c)))
    BY <2>1, <2>3, <2>5, GoodPrefix
  <2>7. t \o SubSeq(data, 1, i + 1) = Append(w, c) /\ i + 1 \in 0..N
    BY <2>2, <2>3, <2>4
  <2> QED
    BY <2>6, <2>7
<1>4. \A i \in 0..N : i \in P
  <2> HIDE DEF P
  <2> QED
    BY <1>2, <1>3, SetInduction
<1>5. N \in 0..N /\ t \o SubSeq(data, 1, N) = t \o data
  BY <1>1, AllOfIt
<1>6. ~Layable(Stripped(t \o SubSeq(data, 1, N)))
  BY <1>4, <1>5
<1> QED
  BY <1>5, <1>6

LEMMA TextType ==
    ASSUME NEW t \in Seq(Text)
    PROVE  /\ Digits(t) \in Seq(Symbols) /\ Stripped(t) \in Seq(Text)
           /\ Meaning(t) \in Outs
<1>1. "=" \in Text
  BY DEF Text
<1>2. Digits(t) \in Seq(Symbols) /\ Stripped(t) \in Seq(Text)
  BY <1>1, TextAppend
<1> QED
  BY <1>2, BytesType DEF Meaning

LEMMA BadIsInvalid ==
    ASSUME NEW t \in Seq(Text), ~Layable(Stripped(t)) PROVE ~Valid(t)
<1> SUFFICES ASSUME Valid(t) PROVE Layable(Stripped(t))
  OBVIOUS
<1>1. PICK s \in Seq(Symbols), S \in Seq(Text) : s = Digits(t) /\ S = Stripped(t)
  BY TextType
<1>2. PICK p : p = Len(S) - Len(s)
  OBVIOUS
<1>3. S = s \o [i \in 1..p |-> "="] /\ Len(s) % 4 # 1
      /\ (p > 0 => Len(s) % 4 # 0 /\ (Len(s) % 4) + p = 4)
  BY <1>1, <1>2 DEF Valid
<1>4. PICK n \in Nat : n = Len(s)
  OBVIOUS
<1>5. PICK q \in Nat, r \in 0..3 : n = 4 * q + r /\ n % 4 = r
  <2>1. n \div 4 \in Nat /\ n % 4 \in 0..3 /\ n = 4 * (n \div 4) + (n % 4)
    OBVIOUS
  <2> QED
    BY <2>1
<1>6. p \in Int
  BY <1>2
<1>7. CASE p > 0
  <2>1. p \in 0..2 /\ r >= 2 /\ r + p <= 4
    BY <1>3, <1>4, <1>5, <1>6, <1>7
  <2>2. PICK e \in Seq({"="}) : e = Row(p) /\ Len(e) = p /\ \A i \in 1..p : e[i] = "="
    <3>1. p \in Nat /\ "=" \in {"="}
      BY <2>1
    <3>2. Row(p) \in Seq({"="}) /\ Len(Row(p)) = p /\ \A i \in 1..p : Row(p)[i] = "="
      BY <3>1, PadRow
    <3> QED
      BY <3>2
  <2>3. S = s \o e
    BY <1>3, <2>2 DEF Row
  <2>4. \A i \in 1..n : S[i] = s[i]
    BY <1>4, <2>3
  <2>5. ASSUME NEW i \in 1..p PROVE S[n + i] = "="
    <3>1. n + i \in (Len(s) + 1)..(Len(s) + Len(e)) /\ n + i - Len(s) = i
      BY <1>4, <2>1, <2>2
    <3>2. (s \o e)[n + i] = e[i]
      BY <1>4, <2>1, <2>2, <3>1
    <3> QED
      BY <2>2, <2>3, <3>2
  <2>6. \A i \in 1..(4 * q + r) : S[i] \in Symbols
    <3>1. \A i \in 1..n : s[i] \in Symbols
      BY <1>4
    <3> QED
      BY <1>5, <2>4, <3>1
  <2>7. \A i \in 1..p : S[4 * q + r + i] = "="
    BY <1>5, <2>5
  <2>8. Len(S) = 4 * q + r + p
    BY <1>2, <1>4, <1>5, <1>6
  <2>9. Layable(S)
    BY <2>1, <2>6, <2>7, <2>8 DEF Layable
  <2> QED
    BY <1>1, <2>9
<1>8. CASE ~(p > 0)
  <2>1. [i \in 1..p |-> "="] = <<>>
    BY <1>6, <1>8
  <2>2. s \o <<>> = s
    OBVIOUS
  <2>3. S = s
    BY <1>3, <2>1, <2>2
  <2>4. \A i \in 1..(4 * q + r) : S[i] \in Symbols
    <3>1. \A i \in 1..n : s[i] \in Symbols
      BY <1>4
    <3> QED
      BY <1>5, <2>3, <3>1
  <2>5. \A i \in 1..0 : S[4 * q + r + i] = "="
    OBVIOUS
  <2>6. Len(S) = 4 * q + r + 0 /\ 0 \in 0..2 /\ ~(0 > 0)
    <3>1. Len(S) = n
      BY <1>4, <2>3
    <3>2. n = 4 * q + r + 0 /\ 0 \in 0..2 /\ ~(0 > 0)
      BY <1>5
    <3> QED
      BY <3>1, <3>2
  <2>7. Layable(S)
    BY <2>4, <2>5, <2>6 DEF Layable
  <2> QED
    BY <1>1, <2>7
<1> QED
  BY <1>7, <1>8

LEMMA StrayBits ==
    ASSUME NEW s \in Seq(Symbols), NEW q \in Nat, NEW r \in {0, 2, 3}, Len(s) = 4 * q + r,
           NEW u, Len(s) > 0 => u = b64_val[s[Len(s)]]
    PROVE  (\A i \in 8 * ((6 * Len(s)) \div 8)..6 * Len(s) - 1 : Bit(s, i) = 0)
           <=> (r = 2 => u % 16 = 0) /\ (r = 3 => u % 4 = 0)
<1>1. Len(s) > 0 => u \in 0..63
  <2>1. Len(s) > 0 => s[Len(s)] \in Symbols
    OBVIOUS
  <2> QED
    BY <2>1, Base64Assumption DEF Symbols
<1>2. CASE r = 0
  <2>1. (6 * Len(s)) \div 8 = 3 * q
    BY <1>2, GroupLengths
  <2>2. \A i \in 8 * (3 * q)..6 * Len(s) - 1 : FALSE
    BY <1>2
  <2> QED
    BY <1>2, <2>1, <2>2
<1>3. CASE r = 2
  <2>1. 8 * ((6 * Len(s)) \div 8) = 24 * q + 8 /\ 6 * Len(s) - 1 = 24 * q + 11
    <3>1. (6 * Len(s)) \div 8 = 3 * q + 1
      BY <1>3, GroupLengths
    <3> QED
      BY <1>3, <3>1
  <2>2. PICK x \in 0..63 : x = u /\ x = b64_val[s[4 * q + 1 + 1]]
    <3>1. Len(s) > 0 /\ 4 * q + 1 + 1 = Len(s)
      BY <1>3
    <3> QED
      BY <1>1, <3>1
  <2>3. PICK b0, b1, b2, b3, b4, b5 \in {0, 1} :
           /\ (x \div 8) % 2 = b2 /\ (x \div 4) % 2 = b3 /\ (x \div 2) % 2 = b4
           /\ (x \div 1) % 2 = b5 /\ x % 16 = 8 * b2 + 4 * b3 + 2 * b4 + b5
    BY SixBits
  <2>4. /\ Bit(s, 24 * q + 6 * 1 + 2) = b2 /\ Bit(s, 24 * q + 6 * 1 + 3) = b3
        /\ Bit(s, 24 * q + 6 * 1 + 4) = b4 /\ Bit(s, 24 * q + 6 * 1 + 5) = b5
    <3>1. 1 \in 0..3
      OBVIOUS
    <3>2. LET v == b64_val[s[4 * q + 1 + 1]] IN
          /\ Bit(s, 24 * q + 6 * 1 + 2) = (v \div 8) % 2 /\ Bit(s, 24 * q + 6 * 1 + 3) = (v \div 4) % 2
          /\ Bit(s, 24 * q + 6 * 1 + 4) = (v \div 2) % 2 /\ Bit(s, 24 * q + 6 * 1 + 5) = (v \div 1) % 2
      BY <3>1, BitsOf, Zenon
    <3> QED
      BY <2>2, <2>3, <3>2
  <2>5. /\ 24 * q + 6 * 1 + 2 = 24 * q + 8 /\ 24 * q + 6 * 1 + 3 = 24 * q + 9
        /\ 24 * q + 6 * 1 + 4 = 24 * q + 10 /\ 24 * q + 6 * 1 + 5 = 24 * q + 11
    OBVIOUS
  <2>6. u % 16 = 0 <=> b2 = 0 /\ b3 = 0 /\ b4 = 0 /\ b5 = 0
    <3>1. 8 * b2 + 4 * b3 + 2 * b4 + b5 = 0 <=> b2 = 0 /\ b3 = 0 /\ b4 = 0 /\ b5 = 0
      OBVIOUS
    <3> QED
      BY <2>2, <2>3, <3>1
  <2>7. \A i \in 24 * q + 8..24 * q + 11 :
           i = 24 * q + 8 \/ i = 24 * q + 9 \/ i = 24 * q + 10 \/ i = 24 * q + 11
    OBVIOUS
  <2>8. /\ 24 * q + 8 \in 24 * q + 8..24 * q + 11 /\ 24 * q + 9 \in 24 * q + 8..24 * q + 11
        /\ 24 * q + 10 \in 24 * q + 8..24 * q + 11 /\ 24 * q + 11 \in 24 * q + 8..24 * q + 11
    OBVIOUS
  <2>9. (\A i \in 24 * q + 8..24 * q + 11 : Bit(s, i) = 0) <=> u % 16 = 0
    BY <2>4, <2>5, <2>6, <2>7, <2>8
  <2> QED
    BY <1>3, <2>1, <2>9
<1>4. CASE r = 3
  <2>1. 8 * ((6 * Len(s)) \div 8) = 24 * q + 16 /\ 6 * Len(s) - 1 = 24 * q + 17
    <3>1. (6 * Len(s)) \div 8 = 3 * q + 2
      BY <1>4, GroupLengths
    <3> QED
      BY <1>4, <3>1
  <2>2. PICK x \in 0..63 : x = u /\ x = b64_val[s[4 * q + 2 + 1]]
    <3>1. Len(s) > 0 /\ 4 * q + 2 + 1 = Len(s)
      BY <1>4
    <3> QED
      BY <1>1, <3>1
  <2>3. PICK b0, b1, b2, b3, b4, b5 \in {0, 1} :
           (x \div 2) % 2 = b4 /\ (x \div 1) % 2 = b5 /\ x % 4 = 2 * b4 + b5
    BY SixBits
  <2>4. Bit(s, 24 * q + 6 * 2 + 4) = b4 /\ Bit(s, 24 * q + 6 * 2 + 5) = b5
    <3>1. 2 \in 0..3
      OBVIOUS
    <3>2. LET v == b64_val[s[4 * q + 2 + 1]] IN
          Bit(s, 24 * q + 6 * 2 + 4) = (v \div 2) % 2 /\ Bit(s, 24 * q + 6 * 2 + 5) = (v \div 1) % 2
      BY <3>1, BitsOf, Zenon
    <3> QED
      BY <2>2, <2>3, <3>2
  <2>5. 24 * q + 6 * 2 + 4 = 24 * q + 16 /\ 24 * q + 6 * 2 + 5 = 24 * q + 17
    OBVIOUS
  <2>6. u % 4 = 0 <=> b4 = 0 /\ b5 = 0
    BY <2>2, <2>3
  <2>7. \A i \in 24 * q + 16..24 * q + 17 : i = 24 * q + 16 \/ i = 24 * q + 17
    OBVIOUS
  <2>8. 24 * q + 16 \in 24 * q + 16..24 * q + 17 /\ 24 * q + 17 \in 24 * q + 16..24 * q + 17
    OBVIOUS
  <2>9. (\A i \in 24 * q + 16..24 * q + 17 : Bit(s, i) = 0) <=> u % 4 = 0
    BY <2>4, <2>5, <2>6, <2>7, <2>8
  <2> QED
    BY <1>4, <2>1, <2>9
<1> QED
  BY <1>2, <1>3, <1>4

(* b64dec_finish accepts exactly the texts that are base64.                *)
LEMMA FinishIsValid ==
    ASSUME NEW t \in Seq(Text), NEW d, NEW pre, Decoding(d, pre, t)
    PROVE  b64dec_finish(d) <=> Valid(t)
<1>1. PICK s \in Seq(Symbols), S \in Seq(Text) : s = Digits(t) /\ S = Stripped(t)
  BY TextType
<1>2. CASE d.err
  BY <1>2, BadIsInvalid DEF Decoding, b64dec_finish
<1>3. CASE ~d.err
  <2>1. d \in Decoders /\ Reads(d, pre, s, S)
    BY <1>1, <1>3 DEF Decoding
  <2>2. d.acc \in Accs /\ d.quad \in 0..3 /\ d.pad \in 0..2 /\ d.bits \in BitCounts
    BY <2>1, DecoderFields DEF Quads, Pads
  <2>3. PICK p \in 0..2, r \in 0..3, q \in Nat : p = d.pad /\ r = d.quad /\ Len(s) = 4 * q + r
    BY <2>1, <2>2 DEF Reads
  <2>4. /\ Len(S) = Len(s) + p /\ \A i \in 1..Len(s) : S[i] = s[i]
        /\ \A i \in 1..p : S[Len(s) + i] = "="
    BY <2>1, <2>3 DEF Reads, Laid
  <2>5. Len(S) - Len(s) = p
    BY <2>4
  <2>6. Len(s) % 4 = r
    BY <2>3
  <2>7. p > 0 => r >= 2 /\ r + p <= 4
    BY <2>1, <2>3 DEF Reads
  <2>8. S = s \o [i \in 1..p |-> "="]
    <3>1. "=" \in Text /\ s \in Seq(Text)
      BY DEF Text
    <3>2. PICK e \in Seq(Text) : e = Row(p) /\ Len(e) = p /\ \A i \in 1..p : e[i] = "="
      <4>1. Row(p) \in Seq(Text) /\ Len(Row(p)) = p /\ \A i \in 1..p : Row(p)[i] = "="
        BY <3>1, PadRow
      <4> QED
        BY <4>1
    <3>3. PICK w \in Seq(Text) : w = s
      BY <3>1
    <3>4. PICK z \in Seq(Text) : z = w \o e
      <4>1. w \o e \in Seq(Text)
        OBVIOUS
      <4> QED
        BY <4>1
    <3>7. Len(z) = Len(s) + p /\ (\A i \in 1..Len(s) : z[i] = s[i])
          /\ (\A i \in 1..p : z[Len(s) + i] = "=")
      <4>1. /\ Len(z) = Len(w) + Len(e) /\ \A i \in 1..Len(w) : z[i] = w[i]
            /\ \A i \in 1..Len(e) : z[Len(w) + i] = e[i]
        BY <3>4
      <4> QED
        BY <3>2, <3>3, <4>1
    <3>5. ASSUME NEW i \in 1..Len(S) PROVE S[i] = z[i]
      <4>1. CASE i <= Len(s)
        BY <2>4, <3>7, <4>1
      <4>2. CASE i > Len(s)
        <5>1. i - Len(s) \in 1..p /\ Len(s) + (i - Len(s)) = i
          BY <2>4, <4>2
        <5> QED
          BY <2>4, <3>7, <5>1
      <4> QED
        BY <4>1, <4>2
    <3>6. S = z
      BY <2>4, <3>5, <3>7, SameSeq
    <3> QED
      BY <3>2, <3>3, <3>4, <3>6 DEF Row
  <2>9. PICK u : Len(s) > 0 => u = b64_val[s[Len(s)]]
    OBVIOUS
  <2>10. r # 1 => (d.acc % 2^d.bits = 0 <=> (r = 2 => u % 16 = 0) /\ (r = 3 => u % 4 = 0))
    <3>1. Pending(d, s)
      BY <2>1 DEF Reads
    <3>2. CASE r = 0
      <4>1. d.bits = 0
        BY <2>3, <3>1, <3>2 DEF Pending
      <4>2. 2^d.bits = 1
        BY <4>1, Powers
      <4>3. PICK acc \in Accs : acc = d.acc
        BY <2>2
      <4>4. acc % 1 = 0
        BY DEF Accs
      <4> QED
        BY <3>2, <4>2, <4>3, <4>4
    <3>3. CASE r = 2
      <4>1. d.bits = 4 /\ d.acc % 16 = u % 16
        <5>1. Len(s) > 0
          BY <2>3, <3>3
        <5> QED
          BY <2>3, <2>9, <3>1, <3>3, <5>1 DEF Pending
      <4>2. 2^d.bits = 16
        BY <4>1, Powers
      <4> QED
        BY <3>3, <4>1, <4>2
    <3>4. CASE r = 3
      <4>1. d.bits = 2 /\ d.acc % 4 = u % 4
        <5>1. Len(s) > 0
          BY <2>3, <3>4
        <5> QED
          BY <2>3, <2>9, <3>1, <3>4, <5>1 DEF Pending
      <4>2. 2^d.bits = 4
        BY <4>1, Powers
      <4> QED
        BY <3>4, <4>1, <4>2
    <3> QED
      BY <3>2, <3>3, <3>4
  <2>11. r # 1 => ((\A i \in 8 * ((6 * Len(s)) \div 8)..6 * Len(s) - 1 : Bit(s, i) = 0)
                   <=> (r = 2 => u % 16 = 0) /\ (r = 3 => u % 4 = 0))
    <3> SUFFICES ASSUME r # 1
                 PROVE  (\A i \in 8 * ((6 * Len(s)) \div 8)..6 * Len(s) - 1 : Bit(s, i) = 0)
                        <=> (r = 2 => u % 16 = 0) /\ (r = 3 => u % 4 = 0)
      OBVIOUS
    <3>1. r \in {0, 2, 3}
      OBVIOUS
    <3> QED
      BY <2>3, <2>9, <3>1, StrayBits
  <2>12. Valid(t) <=> /\ r # 1 /\ (p > 0 => r + p = 4)
                      /\ \A i \in 8 * ((6 * Len(s)) \div 8)..6 * Len(s) - 1 : Bit(s, i) = 0
    <3>1. (p > 0 => r # 0 /\ r + p = 4) <=> (p > 0 => r + p = 4)
      BY <2>7
    <3>2. Valid(t) <=>
            /\ S = s \o [i \in 1..(Len(S) - Len(s)) |-> "="]
            /\ Len(s) % 4 # 1
            /\ Len(S) - Len(s) > 0 => Len(s) % 4 # 0 /\ (Len(s) % 4) + (Len(S) - Len(s)) = 4
            /\ \A i \in 8 * ((6 * Len(s)) \div 8)..6 * Len(s) - 1 : Bit(s, i) = 0
      BY <1>1, Zenon DEF Valid
    <3> QED
      BY <2>5, <2>6, <2>8, <3>1, <3>2
  <2> QED
    BY <1>3, <2>3, <2>10, <2>11, <2>12 DEF b64dec_finish
<1> QED
  BY <1>2, <1>3


-----------------------------------------------------------------------------
(* The upload *)

Uploads == [f : BOOLEAN, dec : Decoders, bytes : Nat, failed : BOOLEAN]

\* What the sink has made of the text it was given.
Sunk(u, file, io, fed) ==
    /\ u.failed => io \/ ~Layable(Stripped(fed))
    /\ ~u.failed /\ u.f =>
          /\ Decoding(u.dec, file, fed) /\ ~u.dec.err /\ u.dec.out = <<>>
          /\ u.bytes = Len(file)
    /\ ~u.failed /\ ~u.f => fed = <<>> /\ u = NoUpload /\ file \in {NoTmp, Stale}

\* What the text stands for, or a beginning of it when the close lost the rest.
Written(file) ==
    \E n \in 0..Len(Meaning(content)) :
        /\ file = SubSeq(Meaning(content), 1, n)
        /\ n < Len(Meaning(content)) => "close" \in faulty

UploadRight ==
    /\ content \in Seq(Text) /\ run \in Seq(Text) /\ upload \in Uploads
    /\ at \in {"reading", "dispatch"} =>
          \E fed \in Seq(Text) : /\ Sunk(upload, tmp, "sink" \in faulty, fed)
                                 /\ js.err = "none" => content = fed \o run
    /\ at = "dispatch" => js.err = "none"
    /\ at # "reading" => run = <<>>
    /\ at \in {"remove", "rename"} =>
          /\ ~upload.failed /\ ~upload.f /\ Valid(content)
          /\ upload.bytes = Len(Meaning(content)) /\ Written(tmp)
    /\ at = "waiting" => upload.f \/ upload.failed \/ tmp \in {NoTmp, Stale}
    /\ at # "idle" => reply = "none"
    /\ at \notin {"idle", "rename"} => dest = "old"
    /\ at = "idle" /\ reply = "none" => content = <<>> /\ tmp \in {NoTmp, Stale} /\ faulty = {}
    /\ UploadedAsSent /\ NoTempSurvives

LEMMA UploadFields ==
    ASSUME NEW u \in Uploads
    PROVE  u.f \in BOOLEAN /\ u.dec \in Decoders /\ u.bytes \in Nat /\ u.failed \in BOOLEAN
BY DEF Uploads

LEMMA FreshDecoder ==
    /\ b64dec_init \in Decoders /\ Emptied(b64dec_init) = b64dec_init
    /\ ~b64dec_init.err /\ b64dec_init.out = <<>> /\ Decoding(b64dec_init, <<>>, <<>>)
<1>1. 0 \in Accs /\ 0 \in BitCounts /\ 0 \in Quads /\ 0 \in Pads /\ <<>> \in Outs
  BY DEF Accs, BitCounts, Quads, Pads, Outs
<1>2. b64dec_init \in Decoders
  BY <1>1 DEF b64dec_init, Decoders
<1>3. /\ b64dec_init.err = FALSE /\ b64dec_init.out = <<>> /\ b64dec_init.quad = 0
      /\ b64dec_init.bits = 0 /\ b64dec_init.pad = 0
  BY DEF b64dec_init
<1>4. Emptied(b64dec_init) = b64dec_init
  BY DEF Emptied, b64dec_init
<1>5. Digits(<<>>) = <<>> /\ Stripped(<<>>) = <<>>
  BY OnlyEmpty DEF Digits, Stripped
<1>6. Bytes(<<>>) = <<>>
  <2>1. Len(<<>>) = 0 /\ (6 * 0) \div 8 = 0 /\ 1..0 = {}
    OBVIOUS
  <2>2. Bytes(<<>>) = [k \in 1..0 |-> Byte(<<>>, k - 1)]
    BY <2>1 DEF Bytes
  <2> QED
    BY <2>1, <2>2
<1>7. Laid(<<>>, <<>>, 0)
  BY DEF Laid
<1>8. 0 \in Nat /\ Len(<<>>) = 4 * 0 + 0 /\ <<>> \o <<>> = <<>> /\ ~(0 > 0)
  OBVIOUS
<1>9. Reads(b64dec_init, <<>>, <<>>, <<>>)
  <2>1. Pending(b64dec_init, <<>>)
    BY <1>3 DEF Pending
  <2>2. \E q \in Nat : Len(<<>>) = 4 * q + b64dec_init.quad
    BY <1>3, <1>8
  <2> QED
    BY <1>3, <1>6, <1>7, <1>8, <2>1, <2>2 DEF Reads
<1> QED
  BY <1>1, <1>2, <1>3, <1>4, <1>5, <1>9 DEF Decoding

\* The sink keeps nothing of what it has written but the file.
LEMMA DecodingFlushed ==
    ASSUME NEW d, NEW pre, NEW t, Decoding(d, pre, t), ~d.err
    PROVE  Decoding(Emptied(d), pre \o d.out, t)
<1>1. d \in Decoders /\ pre \in Outs /\ Reads(d, pre, Digits(t), Stripped(t)) /\ d.out \in Outs
  BY DecoderFields DEF Decoding
<1>2. PICK e : e = Emptied(d)
  OBVIOUS
<1>3. /\ e \in Decoders /\ e.out = <<>> /\ e.acc = d.acc /\ e.bits = d.bits /\ e.quad = d.quad
      /\ e.pad = d.pad /\ e.err = d.err
  BY <1>1, <1>2, EmptiedType
<1>4. PICK w \in Outs : w = pre \o d.out
  <2>1. pre \o d.out \in Outs
    BY <1>1 DEF Outs
  <2> QED
    BY <2>1
<1>5. w \o <<>> = w
  BY DEF Outs
<1>6. Reads(e, w, Digits(t), Stripped(t))
  BY <1>1, <1>3, <1>4, <1>5 DEF Reads, Pending
<1> QED
  BY <1>2, <1>3, <1>4, <1>6 DEF Decoding

LEMMA DecodedAll ==
    ASSUME NEW d, NEW pre, NEW t, Decoding(d, pre, t), ~d.err, d.out = <<>>
    PROVE  pre = Meaning(t) /\ pre \in Outs
<1>1. pre \in Outs /\ pre \o <<>> = Bytes(Digits(t))
  BY DEF Decoding, Reads
<1>2. pre \o <<>> = pre
  BY <1>1 DEF Outs
<1> QED
  BY <1>1, <1>2 DEF Meaning

LEMMA SinkRight ==
    ASSUME NEW u \in Uploads, NEW file, NEW io \in BOOLEAN, NEW fed \in Seq(Text),
           NEW data \in Seq(Text), Sunk(u, file, io, fed),
           NEW r \in upload_sink(u, file, data)
    PROVE  /\ r.u \in Uploads /\ r.io \in BOOLEAN
           /\ Sunk(r.u, r.tmp, io \/ r.io, fed \o data)
<1>1. u.f \in BOOLEAN /\ u.dec \in Decoders /\ u.bytes \in Nat /\ u.failed \in BOOLEAN
  BY UploadFields
<1>2. PICK d : d = b64dec_update(u.dec, data)
  OBVIOUS
<1>3. PICK opened : opened = IF u.f THEN file ELSE <<>>
  OBVIOUS
<1> DEFINE bad == [u EXCEPT !.failed = TRUE]
           ended == [bad EXCEPT !.f = TRUE]
           more == [u EXCEPT !.f = TRUE, !.dec = Emptied(d), !.bytes = u.bytes + Len(d.out)]
<1>4. CASE u.failed \/ data = <<>>
  <2>1. r = [u |-> u, tmp |-> file, io |-> FALSE]
    BY <1>4 DEF upload_sink
  <2>2. r.u = u /\ r.tmp = file /\ r.io = FALSE
    BY <2>1
  <2>3. CASE data = <<>>
    <3>1. fed \o <<>> = fed
      OBVIOUS
    <3> QED
      BY <2>2, <2>3, <3>1 DEF Sunk
  <2>4. CASE u.failed
    <3>1. io \/ ~Layable(Stripped(fed))
      BY <2>4 DEF Sunk
    <3>2. io \/ ~Layable(Stripped(fed \o data))
      BY <3>1, BadStays
    <3> QED
      BY <2>2, <2>4, <3>2 DEF Sunk
  <2> QED
    BY <1>4, <2>3, <2>4
<1>5. CASE ~(u.failed \/ data = <<>>)
  <2>1. /\ Decoding(Emptied(u.dec), opened, fed) /\ opened \in Outs
        /\ u.bytes = Len(opened)
    <3>1. CASE u.f
      <4>1. Decoding(u.dec, file, fed) /\ u.dec.out = <<>> /\ u.bytes = Len(file) /\ ~u.dec.err
        BY <1>5, <3>1 DEF Sunk
      <4>2. Decoding(Emptied(u.dec), file \o u.dec.out, fed)
        BY <4>1, DecodingFlushed
      <4>3. file \in Outs
        BY <4>1, DecodedAll
      <4>4. file \o <<>> = file
        BY <4>3 DEF Outs
      <4> QED
        BY <1>3, <3>1, <4>1, <4>2, <4>3, <4>4
    <3>2. CASE ~u.f
      <4>1. u = NoUpload /\ fed = <<>>
        BY <1>5, <3>2 DEF Sunk
      <4>2. u.dec = b64dec_init /\ u.bytes = 0
        BY <4>1 DEF NoUpload
      <4>3. opened = <<>> /\ <<>> \in Outs /\ Len(<<>>) = 0
        BY <1>3, <3>2 DEF Outs
      <4> QED
        BY <4>1, <4>2, <4>3, FreshDecoder
    <3> QED
      BY <1>1, <3>1, <3>2
  <2>2. Decoding(d, opened, fed \o data)
    BY <1>1, <1>2, <2>1, FollowsUpdate
  <2>3. d \in Decoders /\ d.out \in Outs /\ d.err \in BOOLEAN
    BY <2>2, DecoderFields DEF Decoding
  <2>4. \/ ~u.f /\ r = [u |-> bad, tmp |-> file, io |-> TRUE]
        \/ d.err /\ r = [u |-> ended, tmp |-> opened, io |-> FALSE]
        \/ ~d.err /\ r = [u |-> ended, tmp |-> opened, io |-> TRUE]
        \/ ~d.err /\ r = [u |-> more, tmp |-> opened \o d.out, io |-> FALSE]
    BY <1>2, <1>3, <1>5 DEF upload_sink, Emptied
  <2>5. bad \in Uploads /\ bad.failed = TRUE /\ ended \in Uploads /\ ended.failed = TRUE
    BY DEF Uploads
  <2>6. CASE ~u.f /\ r = [u |-> bad, tmp |-> file, io |-> TRUE]
    <3>1. r.u = bad /\ r.io = TRUE
      BY <2>6
    <3> QED
      BY <2>5, <3>1 DEF Sunk
  <2>7. CASE d.err /\ r = [u |-> ended, tmp |-> opened, io |-> FALSE]
    <3>1. r.u = ended /\ r.io = FALSE
      BY <2>7
    <3>2. ~Layable(Stripped(fed \o data))
      BY <2>2, <2>7 DEF Decoding
    <3> QED
      BY <2>5, <3>1, <3>2 DEF Sunk
  <2>8. CASE ~d.err /\ r = [u |-> ended, tmp |-> opened, io |-> TRUE]
    <3>1. r.u = ended /\ r.io = TRUE
      BY <2>8
    <3> QED
      BY <2>5, <3>1 DEF Sunk
  <2>9. CASE ~d.err /\ r = [u |-> more, tmp |-> opened \o d.out, io |-> FALSE]
    <3>1. r.u = more /\ r.tmp = opened \o d.out /\ r.io = FALSE
      BY <2>9
    <3>2. PICK e \in Decoders : e = Emptied(d) /\ e.out = <<>> /\ e.err = d.err
      BY <2>3, EmptiedType
    <3>3. PICK n \in Nat : n = u.bytes + Len(d.out) /\ n = Len(opened \o d.out)
      BY <1>1, <2>1, <2>3 DEF Outs
    <3>4. /\ more \in Uploads /\ more.failed = u.failed /\ more.f = TRUE /\ more.dec = e
          /\ more.bytes = n
      BY <3>2, <3>3 DEF Uploads
    <3>5. Decoding(e, opened \o d.out, fed \o data)
      BY <2>2, <2>9, <3>2, DecodingFlushed
    <3> HIDE DEF more
    <3> QED
      BY <1>5, <2>9, <3>1, <3>2, <3>3, <3>4, <3>5 DEF Sunk
  <2> QED
    BY <2>4, <2>6, <2>7, <2>8, <2>9
<1> QED
  BY <1>4, <1>5


-----------------------------------------------------------------------------
(* Every step of an upload. *)

\* What upload_cleanup leaves.
LEMMA CleanedUp ==
    ASSUME NEW failed, upload_cleanup(failed),
           upload.f \/ upload.bytes > 0 \/ upload.failed \/ tmp \in {NoTmp, Stale}
    PROVE  /\ upload' = NoUpload /\ faulty \subseteq faulty' /\ failed \subseteq faulty'
           /\ tmp' \in {NoTmp, Stale} \/ "remove" \in faulty'
BY DEF upload_cleanup

LEMMA NoUploadType == NoUpload \in Uploads
<1>1. b64dec_init \in Decoders /\ 0 \in Nat
  BY FreshDecoder
<1> QED
  BY <1>1 DEF NoUpload, Uploads

LEMMA NoText == <<>> \in Seq(Text)
OBVIOUS

\* A request ends: what it leaves behind could not be removed.
LEMMA EndsClean ==
    ASSUME UploadRight, NEW r, Answer(r), r \notin {"none", "wrote", "lost"}, upload' = NoUpload,
           tmp' \in {NoTmp, Stale} \/ "remove" \in faulty', content' = content,
           faulty \subseteq faulty', dest' = dest, dest = "old",
           r = "bad content" /\ faulty = {} => ~Valid(content) \/ content = <<>>
    PROVE  UploadRight'
<1>1. /\ reply' = r /\ at' = "idle" /\ run' = <<>> /\ <<>> \in Seq(Text)
      /\ content \in Seq(Text) /\ upload' \in Uploads
  <2>1. reply' = r /\ at' = "idle" /\ run' = <<>>
    BY DEF Answer
  <2>2. content \in Seq(Text)
    BY DEF UploadRight
  <2> QED
    BY <2>1, <2>2, NoText, NoUploadType
<1>2. faulty' = {} => faulty = {}
  OBVIOUS
<1>3. UploadedAsSent'
  BY <1>1, <1>2 DEF UploadedAsSent
<1>4. NoTempSurvives'
  BY DEF NoTempSurvives
<1> QED
  BY <1>1, <1>3, <1>4 DEF UploadRight

LEMMA ReadingText ==
    ASSUME UploadRight, at \in {"reading", "dispatch"}
    PROVE  \E fed \in Seq(Text) : /\ Sunk(upload, tmp, "sink" \in faulty, fed)
                                  /\ js.err = "none" => content = fed \o run
BY DEF UploadRight

LEMMA Owed ==
    ASSUME UploadRight, at \in {"reading", "dispatch"}
    PROVE  upload.f \/ upload.failed \/ tmp \in {NoTmp, Stale}
BY ReadingText DEF Sunk

LEMMA DispatchedText ==
    ASSUME UploadRight, at \in {"reading", "dispatch"}, run = <<>>, js.err = "none"
    PROVE  content \in Seq(Text) /\ Sunk(upload, tmp, "sink" \in faulty, content)
<1>1. PICK fed \in Seq(Text) : Sunk(upload, tmp, "sink" \in faulty, fed) /\ content = fed \o run
  BY ReadingText
<1>2. fed \o <<>> = fed
  OBVIOUS
<1> QED
  BY <1>1, <1>2

\* A client that writes content writes text, and the scanner sees which.
LEMMA ContentWritten ==
    ASSUME NEW s, NEW w, Good(s, w), NEW step \in Writes(w)
    PROVE  /\ InRun(s, step[1]) <=>
                /\ w.at = "string" /\ w.stack = ContentPath
                /\ step[1] \notin {"quote", "backslash"}
           /\ InRun(s, step[1]) => step[1] \in Text
           /\ Unescaped(s, step[1]) \in Seq(Text)
           /\ w.at = "escape" => step[1] \in Escapes
<1>1. /\ w \in Bodies /\ s.err = "none" /\ (s.esc <=> w.at \in {"key_escape", "escape"})
      /\ (s.divert <=> w.at \in {"string", "escape"} /\ w.stack = ContentPath)
  BY DEF Good, Tracks
<1>2. InRun(s, step[1]) <=> /\ w.at = "string" /\ w.stack = ContentPath
                            /\ step[1] \notin {"quote", "backslash"}
  BY <1>1 DEF InRun
<1>3. ASSUME w.at = "string", w.stack = ContentPath, step[1] \notin {"quote", "backslash"}
      PROVE  step[1] \in Text
  <2> DEFINE more == [w EXCEPT !.n = @ + 1]
             escaped == [more EXCEPT !.at = "escape"]
  <2>1. step \in {<<"quote", Wrote(w)>>}
                 \cup (IF w.n >= (IF w.stack = ContentPath THEN MaxContent ELSE MaxString) THEN {}
                       ELSE {<<c, more>> : c \in (IF w.stack = ContentPath
                                                    THEN Text \ {"newline"} ELSE {"c"})}
                            \cup {<<"backslash", escaped>>})
    BY <1>3, Zenon DEF Writes
  <2> HIDE DEF more, escaped
  <2>2. \/ step = <<"quote", Wrote(w)>> \/ step = <<"backslash", escaped>>
        \/ \E c \in Text : step = <<c, more>>
    BY <1>3, <2>1, Zenon
  <2>3. \A c, v : <<c, v>>[1] = c
    OBVIOUS
  <2> QED
    BY <1>3, <2>2, <2>3, Zenon
<1>4. Unescaped(s, step[1]) \in Seq(Text)
  <2>1. "slash" \in Text /\ "newline" \in Text
    BY Base64Assumption DEF Text, Symbols
  <2>2. <<"slash">> \in Seq(Text) /\ <<"newline">> \in Seq(Text) /\ <<>> \in Seq(Text)
    BY <2>1
  <2>3. \/ Unescaped(s, step[1]) = <<"slash">> \/ Unescaped(s, step[1]) = <<"newline">>
        \/ Unescaped(s, step[1]) = <<>>
    BY DEF Unescaped
  <2> QED
    BY <2>2, <2>3
<1>5. ASSUME w.at = "escape" PROVE step[1] \in Escapes
  <2> DEFINE v == [w EXCEPT !.at = "string"]
  <2>1. PICK c \in Escapes : step = <<c, v>>
    BY <1>5, Zenon DEF Writes
  <2> HIDE DEF v
  <2> QED
    BY <2>1
<1> QED
  BY <1>2, <1>3, <1>4, <1>5

\* A JSON reader sees what the sink is given, unless the scanner refuses it.
LEMMA ReadIsSunk ==
    ASSUME Good(js, client), NEW step \in Writes(client),
           NEW seen \in (IF InContent THEN Read(step[1]) ELSE {<<>>})
    PROVE  /\ seen \in Seq(Text)
           /\ InRun(js, step[1]) => seen = <<step[1]>>
           /\ ~InRun(js, step[1]) /\ jstream_feed(js, step[1]).err = "none" =>
                 seen = Unescaped(js, step[1])
<1>1. /\ js \in Jstreams /\ js.err = "none" /\ (js.esc <=> client.at \in {"key_escape", "escape"})
      /\ (js.divert <=> InContent)
  BY DEF Good, Tracks, InContent
<1>2. /\ InRun(js, step[1]) <=> /\ client.at = "string" /\ client.stack = ContentPath
                                /\ step[1] \notin {"quote", "backslash"}
      /\ InRun(js, step[1]) => step[1] \in Text
      /\ Unescaped(js, step[1]) \in Seq(Text)
      /\ client.at = "escape" => step[1] \in Escapes
  BY ContentWritten
<1>3. PICK c : c = step[1]
  OBVIOUS
<1>4. \A x \in Text : <<x>> \in Seq(Text)
  OBVIOUS
<1>5. CASE ~InContent
  <2>1. seen = <<>> /\ Unescaped(js, c) = <<>> /\ ~InRun(js, c)
    BY <1>1, <1>5 DEF Unescaped, InRun
  <2> QED
    BY <1>3, <2>1, NoText
<1>6. CASE InContent /\ client.at = "string"
  <2>1. ~js.esc /\ client.stack = ContentPath
    BY <1>1, <1>6 DEF InContent
  <2>2. CASE c \in {"quote", "backslash"}
    <3>1. seen = <<>> /\ Unescaped(js, c) = <<>> /\ ~InRun(js, c)
      BY <1>3, <1>6, <2>1, <2>2 DEF Read, Unescaped, InRun
    <3> QED
      BY <1>3, <3>1, NoText
  <2>3. CASE c \notin {"quote", "backslash"}
    <3>1. InRun(js, c) /\ seen = <<c>> /\ c \in Text
      BY <1>2, <1>3, <1>6, <2>1, <2>3 DEF Read
    <3> QED
      BY <1>3, <1>4, <3>1
  <2> QED
    BY <2>2, <2>3
<1>7. CASE InContent /\ client.at = "escape"
  <2>1. js.esc /\ js.divert /\ ~InRun(js, c) /\ c \in Escapes
    BY <1>1, <1>2, <1>3, <1>7 DEF InRun
  <2>2. "slash" \in Text /\ "newline" \in Text /\ "other" \in Text
    BY Base64Assumption DEF Text, Symbols
  <2>3. CASE c = "slash"
    <3>1. seen = <<"slash">> /\ Unescaped(js, c) = <<"slash">>
      BY <1>1, <1>3, <1>7, <2>1, <2>3 DEF Read, Unescaped
    <3> QED
      BY <1>3, <1>4, <2>1, <2>2, <3>1
  <2>4. CASE c = "n"
    <3>1. seen = <<"newline">> /\ Unescaped(js, c) = <<"newline">>
      BY <1>1, <1>3, <1>7, <2>1, <2>4 DEF Read, Unescaped
    <3> QED
      BY <1>3, <1>4, <2>1, <2>2, <3>1
  <2>5. CASE c \in {"quote", "u"}
    <3>1. jstream_feed(js, c) = Failed(js, "ECONTENT")
      BY <1>1, <2>1, <2>5 DEF jstream_feed, Diverted
    <3>2. jstream_feed(js, c).err = "ECONTENT"
      BY <1>1, <3>1, FailedType
    <3>3. seen = <<"other">> \/ \E x \in Text : seen = <<x>>
      BY <1>3, <1>7, <2>5 DEF Read
    <3> QED
      BY <1>3, <1>4, <2>1, <2>2, <3>2, <3>3
  <2> QED
    BY <2>1, <2>3, <2>4, <2>5 DEF Escapes
<1> QED
  BY <1>5, <1>6, <1>7 DEF InContent

\* The sink is given what was read since it was last given anything.
LEMMA SunkOn ==
    ASSUME UploadRight, at = "reading", at' = "reading", NEW fed \in Seq(Text),
           Sunk(upload, tmp, "sink" \in faulty, fed), NEW data \in Seq(Text), Sink(data),
           js'.err = "none" => content' = fed \o data, content' \in Seq(Text),
           run' = <<>>, reply' = reply, dest' = dest
    PROVE  UploadRight'
<1>1. upload \in Uploads /\ reply = "none" /\ dest = "old"
  BY DEF UploadRight
<1>2. PICK r \in upload_sink(upload, tmp, data) :
        /\ upload' = r.u /\ tmp' = r.tmp
        /\ faulty' = IF r.io THEN faulty \cup {"sink"} ELSE faulty
  BY DEF Sink
<1>3. PICK io \in BOOLEAN : io <=> "sink" \in faulty
  <2>1. CASE "sink" \in faulty
    <3> WITNESS TRUE \in BOOLEAN
    <3> QED
      BY <2>1
  <2>2. CASE "sink" \notin faulty
    <3> WITNESS FALSE \in BOOLEAN
    <3> QED
      BY <2>2
  <2> QED
    BY <2>1, <2>2
<1>4. /\ r.u \in Uploads /\ r.io \in BOOLEAN
      /\ Sunk(r.u, r.tmp, io \/ r.io, fed \o data)
  <2>1. Sunk(upload, tmp, io, fed)
    BY <1>3 DEF Sunk
  <2> QED
    BY <1>1, <1>2, <2>1, SinkRight
<1>5. (io \/ r.io) <=> "sink" \in faulty'
  BY <1>2, <1>3, <1>4
<1>6. PICK t \in Seq(Text) : t = fed \o data
  <2>1. fed \o data \in Seq(Text)
    OBVIOUS
  <2> QED
    BY <2>1
<1>7. t \o <<>> = t /\ <<>> \in Seq(Text)
  OBVIOUS
<1>8. Sunk(upload', tmp', "sink" \in faulty', t)
  BY <1>2, <1>4, <1>5, <1>6 DEF Sunk
<1>9. js'.err = "none" => content' = t \o run'
  BY <1>6, <1>7
<1>10. UploadedAsSent' /\ NoTempSurvives'
  BY <1>1 DEF UploadedAsSent, NoTempSurvives
<1>11. upload' \in Uploads /\ run' \in Seq(Text)
  BY <1>2, <1>4, <1>7
<1> QED
  BY <1>1, <1>8, <1>9, <1>10, <1>11 DEF UploadRight

LEMMA FeedRight ==
    ASSUME UploadRight, ScanRight, Feed PROVE UploadRight'
<1>1. /\ at = "reading" /\ at' = "reading" /\ reply' = reply /\ dest' = dest /\ js.err = "none"
      /\ Good(js, client)
  BY DEF Feed, ScanRight, Good
<1>2. PICK step \in Writes(client) :
        /\ js' = jstream_feed(js, step[1])
        /\ \E seen \in (IF InContent THEN Read(step[1]) ELSE {<<>>}) : content' = content \o seen
        /\ IF InRun(js, step[1])
             THEN run' = Append(run, step[1]) /\ UNCHANGED <<upload, tmp, faulty>>
             ELSE run' = <<>> /\ Sink(run \o Unescaped(js, step[1]))
  BY Zenon DEF Feed
<1>3. PICK seen \in (IF InContent THEN Read(step[1]) ELSE {<<>>}) : content' = content \o seen
  BY <1>2
<1>4. /\ seen \in Seq(Text)
      /\ InRun(js, step[1]) => seen = <<step[1]>> /\ step[1] \in Text
      /\ ~InRun(js, step[1]) /\ js'.err = "none" => seen = Unescaped(js, step[1])
      /\ Unescaped(js, step[1]) \in Seq(Text)
  BY <1>1, <1>2, <1>3, ReadIsSunk, ContentWritten
<1>5. PICK fed \in Seq(Text) : Sunk(upload, tmp, "sink" \in faulty, fed) /\ content = fed \o run
  BY <1>1, ReadingText
<1>6. content \in Seq(Text) /\ run \in Seq(Text)
  BY DEF UploadRight
<1>7. content' \in Seq(Text)
  <2>1. content \o seen \in Seq(Text)
    BY <1>4, <1>6
  <2> QED
    BY <1>3, <2>1
<1>8. CASE InRun(js, step[1])
  <2>1. PICK c \in Text : c = step[1]
    BY <1>4, <1>8
  <2>2. content' = content \o <<c>> /\ run' = Append(run, c) /\ UNCHANGED <<upload, tmp, faulty>>
    BY <1>2, <1>3, <1>4, <1>8, <2>1
  <2>3. (fed \o run) \o <<c>> = fed \o Append(run, c) /\ Append(run, c) \in Seq(Text)
    <3>1. PICK a \in Seq(Text) : a = run
      BY <1>6
    <3>2. (fed \o a) \o <<c>> = fed \o Append(a, c) /\ Append(a, c) \in Seq(Text)
      OBVIOUS
    <3> QED
      BY <3>1, <3>2
  <2>4. content' = fed \o run' /\ run' \in Seq(Text)
    BY <1>5, <2>2, <2>3
  <2>5. Sunk(upload', tmp', "sink" \in faulty', fed)
    BY <1>5, <2>2 DEF Sunk
  <2>6. upload' \in Uploads /\ reply' = "none" /\ dest' = "old"
    BY <1>1, <2>2 DEF UploadRight
  <2>7. UploadedAsSent' /\ NoTempSurvives'
    BY <1>1, <2>6 DEF UploadedAsSent, NoTempSurvives
  <2> QED
    BY <1>1, <1>7, <2>4, <2>5, <2>6, <2>7 DEF UploadRight
<1>9. CASE ~InRun(js, step[1])
  <2>1. PICK x \in Seq(Text) : x = Unescaped(js, step[1])
    BY <1>4
  <2>2. (js'.err = "none" => content' = content \o x) /\ run' = <<>> /\ Sink(run \o x)
    BY <1>2, <1>3, <1>4, <1>9, <2>1
  <2>3. PICK data \in Seq(Text) : data = run \o x
    <3>1. run \o x \in Seq(Text)
      BY <1>6
    <3> QED
      BY <3>1
  <2>4. (fed \o run) \o x = fed \o (run \o x)
    BY <1>6
  <2>5. (js'.err = "none" => content' = fed \o data) /\ Sink(data)
    BY <1>5, <2>2, <2>3, <2>4
  <2> QED
    BY <1>1, <1>5, <1>7, <2>2, <2>5, SunkOn
<1> QED
  BY <1>8, <1>9

LEMMA ChunkEndsRight ==
    ASSUME UploadRight, ChunkEnds PROVE UploadRight'
<1>1. at = "reading" /\ at' = "reading" /\ reply' = reply /\ run' = <<>> /\ Sink(run)
      /\ content' = content /\ js' = js /\ dest' = dest
  BY DEF ChunkEnds
<1>2. PICK fed \in Seq(Text) : /\ Sunk(upload, tmp, "sink" \in faulty, fed)
                               /\ js.err = "none" => content = fed \o run
  BY <1>1, ReadingText
<1>3. run \in Seq(Text) /\ content' \in Seq(Text)
  BY <1>1 DEF UploadRight
<1>4. js'.err = "none" => content' = fed \o run
  BY <1>1, <1>2
<1> QED
  BY <1>1, <1>2, <1>3, <1>4, SunkOn

LEMMA PostBeginRight ==
    ASSUME UploadRight, PostBegin PROVE UploadRight'
<1>1. /\ at' = "reading" /\ upload' = NoUpload /\ tmp' = tmp /\ content' = content /\ run' = run
      /\ faulty' = faulty /\ reply' = reply /\ at = "idle" /\ reply = "none" /\ dest' = dest
  BY DEF PostBegin, scanVars
<1>2. content = <<>> /\ run = <<>> /\ tmp \in {NoTmp, Stale} /\ faulty = {} /\ dest = "old"
  BY <1>1 DEF UploadRight, UploadedAsSent
<1>3. <<>> \in Seq(Text) /\ <<>> \o <<>> = <<>>
  OBVIOUS
<1>4. NoUpload.failed = FALSE /\ NoUpload.f = FALSE
  BY DEF NoUpload
<1>5. Sunk(upload', tmp', "sink" \in faulty', <<>>)
  BY <1>1, <1>2, <1>4 DEF Sunk
<1>6. UploadedAsSent' /\ NoTempSurvives'
  BY <1>1 DEF UploadedAsSent, NoTempSurvives
<1>7. \E fed \in Seq(Text) : /\ Sunk(upload', tmp', "sink" \in faulty', fed)
                             /\ js'.err = "none" => content' = fed \o run'
  BY <1>1, <1>2, <1>3, <1>5
<1>8. content' \in Seq(Text) /\ run' \in Seq(Text) /\ upload' \in Uploads
  BY <1>1, <1>2, <1>3, NoUploadType
<1> QED
  BY <1>1, <1>2, <1>6, <1>7, <1>8 DEF UploadRight

LEMMA PostFailsRight ==
    ASSUME UploadRight, PostFails \/ Dispatch PROVE UploadRight'
<1>1. /\ upload_cleanup({}) /\ content' = content /\ dest' = dest
      /\ at \in {"reading", "dispatch"}
  BY DEF PostFails, Dispatch
<1>2. PICK r \in {"ok", "error", "accepted", "bad escape"} : Answer(r)
  BY DEF PostFails, Dispatch
<1>3. /\ tmp' \in {NoTmp, Stale} \/ "remove" \in faulty'
      /\ upload' = NoUpload /\ faulty \subseteq faulty'
  BY <1>1, Owed, CleanedUp
<1>4. r \notin {"none", "wrote", "lost"} /\ r # "bad content" /\ dest = "old"
  BY <1>1 DEF UploadRight
<1> QED
  BY <1>1, <1>2, <1>3, <1>4, EndsClean

LEMMA ToolUploadRight ==
    ASSUME UploadRight, ToolUpload PROVE UploadRight'
<1>1. at = "dispatch" /\ content' = content /\ dest' = dest
  BY DEF ToolUpload
<1>2. /\ upload \in Uploads /\ run = <<>> /\ reply = "none" /\ dest = "old" /\ js.err = "none"
      /\ upload.f \in BOOLEAN /\ upload.failed \in BOOLEAN
  BY <1>1, UploadFields DEF UploadRight
<1>3. content \in Seq(Text) /\ Sunk(upload, tmp, "sink" \in faulty, content)
  BY <1>1, <1>2, DispatchedText
<1>4. ~upload.failed /\ upload.f =>
        /\ Decoding(upload.dec, tmp, content) /\ ~upload.dec.err /\ upload.dec.out = <<>>
        /\ upload.bytes = Len(tmp) /\ (b64dec_finish(upload.dec) <=> Valid(content))
        /\ tmp = Meaning(content) /\ tmp \in Outs
  BY <1>3, FinishIsValid, DecodedAll DEF Sunk
<1>5. CASE js.content_found /\ ~upload.failed /\ upload.f /\ b64dec_finish(upload.dec)
  <2>1. /\ at' = "remove" /\ upload' = [upload EXCEPT !.f = FALSE] /\ run' = run
        /\ reply' = reply
        /\ \E n \in 0..Len(tmp) :
              /\ tmp' = SubSeq(tmp, 1, n)
              /\ faulty' = IF n = Len(tmp) THEN faulty ELSE faulty \cup {"close"}
    BY <1>5 DEF ToolUpload
  <2>2. /\ upload' \in Uploads /\ upload'.f = FALSE /\ upload'.failed = upload.failed
        /\ upload'.bytes = upload.bytes
    BY <1>2, <2>1 DEF Uploads
  <2>3. PICK n \in 0..Len(tmp) :
              /\ tmp' = SubSeq(tmp, 1, n)
              /\ faulty' = IF n = Len(tmp) THEN faulty ELSE faulty \cup {"close"}
    BY <2>1
  <2>4. PICK m : m = Meaning(content)
    OBVIOUS
  <2>5. tmp = m /\ Meaning(content)' = m /\ Len(m) \in Nat
    BY <1>1, <1>4, <1>5, <2>4 DEF Outs
  <2>6. n < Len(m) => "close" \in faulty'
    BY <2>3, <2>5
  <2>7. Written(tmp)'
    BY <2>3, <2>5, <2>6 DEF Written
  <2>8. UploadedAsSent' /\ NoTempSurvives'
    BY <1>2, <2>1 DEF UploadedAsSent, NoTempSurvives
  <2>9. Valid(content) /\ <<>> \in Seq(Text) /\ upload.bytes = Len(m)
    BY <1>4, <1>5, <2>5
  <2>10. Valid(content)'
    BY <1>1, <2>9
  <2> QED
    BY <1>1, <1>2, <1>3, <1>5, <2>1, <2>2, <2>5, <2>7, <2>8, <2>9, <2>10 DEF UploadRight
<1>6. CASE ~(js.content_found /\ ~upload.failed /\ upload.f /\ b64dec_finish(upload.dec))
  <2>1. upload_cleanup({}) /\ Answer(IF js.content_found THEN "bad content" ELSE "error")
    BY <1>6 DEF ToolUpload
  <2>2. /\ tmp' \in {NoTmp, Stale} \/ "remove" \in faulty'
        /\ upload' = NoUpload /\ faulty \subseteq faulty'
    BY <1>1, <2>1, Owed, CleanedUp
  <2>3. PICK r : r = IF js.content_found THEN "bad content" ELSE "error"
    OBVIOUS
  <2>4. Answer(r) /\ r \notin {"none", "wrote", "lost"}
    BY <2>1, <2>3
  <2>5. r = "bad content" /\ faulty = {} => ~Valid(content) \/ content = <<>>
    <3> SUFFICES ASSUME r = "bad content", faulty = {} PROVE ~Valid(content) \/ content = <<>>
      OBVIOUS
    <3>1. CASE upload.failed
      BY <1>3, <3>1, BadIsInvalid DEF Sunk
    <3>2. CASE ~upload.failed /\ ~upload.f
      BY <1>3, <3>2 DEF Sunk
    <3>3. CASE ~upload.failed /\ upload.f
      <4>1. js.content_found
        BY <2>3
      <4> QED
        BY <1>4, <1>6, <3>3, <4>1
    <3> QED
      BY <3>1, <3>2, <3>3
  <2> QED
    BY <1>1, <1>2, <2>2, <2>4, <2>5, EndsClean
<1> QED
  BY <1>5, <1>6

LEMMA UploadRemoveRight ==
    ASSUME UploadRight, UploadRemove PROVE UploadRight'
<1>1. /\ at = "remove" /\ at' = "rename" /\ content' = content /\ run' = run /\ upload' = upload
      /\ tmp' = tmp /\ faulty' = faulty /\ reply' = reply
  BY DEF UploadRemove, scanVars
<1>2. /\ run = <<>> /\ upload \in Uploads /\ reply = "none" /\ content \in Seq(Text)
      /\ run \in Seq(Text) /\ ~upload.failed /\ ~upload.f /\ Valid(content)
      /\ upload.bytes = Len(Meaning(content)) /\ Written(tmp)
  BY <1>1 DEF UploadRight
<1>3. Valid(content)' /\ upload'.bytes = Len(Meaning(content))' /\ Written(tmp)'
  BY <1>1, <1>2 DEF Written
<1>4. UploadedAsSent' /\ NoTempSurvives'
  BY <1>1, <1>2 DEF UploadedAsSent, NoTempSurvives
<1> QED
  BY <1>1, <1>2, <1>3, <1>4 DEF UploadRight

LEMMA UploadRenamed ==
    ASSUME UploadRight, UploadRename PROVE UploadRight'
<1>1. /\ at = "rename" /\ dest' = tmp /\ tmp' = NoTmp /\ upload' = NoUpload /\ content' = content
      /\ faulty' = faulty /\ reply' = "wrote" /\ at' = "idle" /\ run' = <<>>
  BY DEF UploadRename, Answer
<1>2. content \in Seq(Text) /\ Valid(content) /\ Written(tmp) /\ <<>> \in Seq(Text)
  BY <1>1 DEF UploadRight
<1>3. Valid(content)' /\ Written(dest)'
  BY <1>1, <1>2 DEF Written
<1>4. UploadedAsSent' /\ NoTempSurvives'
  BY <1>1, <1>3 DEF UploadedAsSent, NoTempSurvives, Written
<1> QED
  BY <1>1, <1>2, <1>4, NoUploadType DEF UploadRight

LEMMA UploadNotRenamed ==
    ASSUME UploadRight, UploadRenameFails PROVE UploadRight'
<1>1. /\ at = "rename" /\ upload_cleanup({"rename"}) /\ content' = content
      /\ reply' = "error" /\ at' = "idle" /\ run' = <<>> /\ upload' = NoUpload
      /\ "rename" \in faulty'
  BY DEF UploadRenameFails, Answer, upload_cleanup
<1>2. /\ content \in Seq(Text) /\ <<>> \in Seq(Text) /\ upload.bytes = Len(Meaning(content))
  BY <1>1 DEF UploadRight
<1>3. NoTempSurvives'
  <2>1. CASE upload.bytes > 0
    <3>1. tmp' \in {NoTmp, Stale} \/ "remove" \in faulty'
      BY <1>1, <2>1, CleanedUp
    <3> QED
      BY <3>1 DEF NoTempSurvives
  <2>2. CASE ~(upload.bytes > 0)
    <3>1. PICK t \in Seq(0..255) : t = Meaning(content)
      BY <1>2, TextType DEF Outs
    <3>2. Len(t) = 0
      BY <1>2, <2>2, <3>1
    <3>3. t = <<>>
      BY <3>2
    <3>4. Meaning(content) = <<>>
      BY <3>1, <3>3
    <3>5. Meaning(content)' = <<>>
      BY <1>1, <3>4
    <3> QED
      BY <1>1, <3>5 DEF NoTempSurvives
  <2> QED
    BY <2>1, <2>2
<1>4. UploadedAsSent'
  BY <1>1 DEF UploadedAsSent
<1> QED
  BY <1>1, <1>2, <1>3, <1>4, NoUploadType DEF UploadRight

LEMMA OthersRight ==
    ASSUME UploadRight,
           PostRefused \/ PostParsed \/ ToolWait \/ Waiting \/ WaitAnswered \/ NextPost \/ PowerLost
    PROVE  UploadRight'
<1>0. <<>> \in Seq(Text)
  OBVIOUS
<1>1. CASE PostRefused
  <2>1. /\ at = "idle" /\ reply = "none" /\ reply' = "error" /\ at' = at /\ content' = content
        /\ run' = run /\ upload' = upload /\ tmp' = tmp /\ faulty' = faulty /\ dest' = dest
    BY <1>1 DEF PostRefused, scanVars
  <2>2. tmp \in {NoTmp, Stale} /\ faulty = {} /\ dest = "old"
    BY <2>1 DEF UploadRight, UploadedAsSent
  <2>3. UploadedAsSent' /\ NoTempSurvives'
    BY <2>1, <2>2 DEF UploadedAsSent, NoTempSurvives
  <2> QED
    BY <2>1, <2>3 DEF UploadRight
<1>2. CASE PostParsed
  <2>1. /\ at = "reading" /\ run = <<>> /\ at' = "dispatch" /\ content' = content
        /\ run' = run /\ upload' = upload /\ tmp' = tmp /\ faulty' = faulty /\ reply' = reply
        /\ dest' = dest /\ js' = js
    BY <1>2 DEF PostParsed, scanVars
  <2>2. js.err = "none"
    BY <1>2 DEF PostParsed, jstream_finish
  <2>3. content \in Seq(Text) /\ Sunk(upload, tmp, "sink" \in faulty, content)
    BY <2>1, <2>2, DispatchedText
  <2>4. upload \in Uploads /\ reply = "none" /\ dest = "old"
    BY <2>1 DEF UploadRight
  <2>5. Sunk(upload', tmp', "sink" \in faulty', content)
    BY <2>1, <2>3 DEF Sunk
  <2>6. content \o <<>> = content
    BY <2>3
  <2>7. \E fed \in Seq(Text) : /\ Sunk(upload', tmp', "sink" \in faulty', fed)
                               /\ js'.err = "none" => content' = fed \o run'
    BY <2>1, <2>3, <2>5, <2>6
  <2>8. UploadedAsSent' /\ NoTempSurvives'
    BY <2>1, <2>4 DEF UploadedAsSent, NoTempSurvives
  <2> QED
    BY <1>0, <2>1, <2>2, <2>3, <2>4, <2>7, <2>8 DEF UploadRight
<1>3. CASE ToolWait
  <2>1. /\ at = "dispatch" /\ at' = "waiting" /\ content' = content /\ dest' = dest
        /\ run' = run /\ upload' = upload /\ tmp' = tmp /\ faulty' = faulty /\ reply' = reply
    BY <1>3 DEF ToolWait
  <2>2. upload.f \/ upload.failed \/ tmp \in {NoTmp, Stale}
    BY <2>1, Owed
  <2>3. reply = "none" /\ dest = "old"
    BY <2>1 DEF UploadRight
  <2>4. UploadedAsSent' /\ NoTempSurvives'
    BY <2>1, <2>3 DEF UploadedAsSent, NoTempSurvives
  <2> QED
    BY <2>1, <2>2, <2>3, <2>4 DEF UploadRight
<1>4. CASE Waiting
  <2>1. /\ at = "waiting" /\ at' = at /\ content' = content /\ dest' = dest
        /\ run' = run /\ upload' = upload /\ tmp' = tmp /\ faulty' = faulty /\ reply' = reply
    BY <1>4 DEF Waiting, scanVars
  <2>2. reply = "none"
    BY <2>1 DEF UploadRight
  <2>3. UploadedAsSent' /\ NoTempSurvives'
    BY <2>1, <2>2 DEF UploadedAsSent, NoTempSurvives
  <2> QED
    BY <2>1, <2>3 DEF UploadRight
<1>5. CASE WaitAnswered
  <2>1. at = "waiting" /\ upload_cleanup({}) /\ Answer("ok") /\ content' = content /\ dest' = dest
    BY <1>5 DEF WaitAnswered
  <2>2. /\ tmp' \in {NoTmp, Stale} \/ "remove" \in faulty'
        /\ upload' = NoUpload /\ faulty \subseteq faulty' /\ dest = "old"
    BY <2>1, CleanedUp DEF UploadRight
  <2>3. "ok" \notin {"none", "wrote", "lost"} /\ "ok" # "bad content"
    OBVIOUS
  <2> QED
    BY <2>1, <2>2, <2>3, EndsClean
<1>6. CASE NextPost
  <2>1. /\ at = "idle" /\ reply' = "none" /\ at' = at /\ content' = <<>> /\ faulty' = {}
        /\ tmp' \in {NoTmp, Stale} /\ run' = run /\ upload' = upload /\ dest' = "old"
    BY <1>6 DEF NextPost
  <2>2. UploadedAsSent' /\ NoTempSurvives'
    BY <2>1 DEF UploadedAsSent, NoTempSurvives
  <2> QED
    BY <1>0, <2>1, <2>2 DEF UploadRight
<1>7. CASE PowerLost
  <2>1. /\ upload' = NoUpload /\ reply' = "lost" /\ at' = "idle" /\ run' = <<>>
        /\ content' = content
    BY <1>7 DEF PowerLost, Answer
  <2>2. UploadedAsSent' /\ NoTempSurvives'
    BY <2>1 DEF UploadedAsSent, NoTempSurvives
  <2> QED
    BY <1>0, <2>1, <2>2, NoUploadType DEF UploadRight
<1> QED
  BY <1>1, <1>2, <1>3, <1>4, <1>5, <1>6, <1>7

LEMMA UploadRightNext == ScanRight /\ UploadRight /\ [Next]_vars => UploadRight'
<1> SUFFICES ASSUME ScanRight, UploadRight, [Next]_vars PROVE UploadRight'
  OBVIOUS
<1>1. CASE Feed
  BY <1>1, FeedRight
<1>2. CASE ChunkEnds
  BY <1>2, ChunkEndsRight
<1>3. CASE PostBegin
  BY <1>3, PostBeginRight
<1>4. CASE PostFails \/ Dispatch
  BY <1>4, PostFailsRight
<1>5. CASE ToolUpload
  BY <1>5, ToolUploadRight
<1>6. CASE UploadRemove
  BY <1>6, UploadRemoveRight
<1>7. CASE UploadRename
  BY <1>7, UploadRenamed
<1>8. CASE UploadRenameFails
  BY <1>8, UploadNotRenamed
<1>9. CASE PostRefused \/ PostParsed \/ ToolWait \/ Waiting \/ WaitAnswered \/ NextPost \/ PowerLost
  BY <1>9, OthersRight
<1>10. CASE UNCHANGED vars
  <2>1. /\ at' = at /\ content' = content /\ run' = run /\ upload' = upload /\ tmp' = tmp
        /\ faulty' = faulty /\ reply' = reply /\ dest' = dest /\ js' = js
    BY <1>10 DEF vars, scanVars
  <2>2. UploadedAsSent' /\ NoTempSurvives'
    BY <2>1 DEF UploadRight, UploadedAsSent, NoTempSurvives
  <2> QED
    BY <2>1, <2>2 DEF UploadRight, Written
<1> QED
  BY <1>1, <1>2, <1>3, <1>4, <1>5, <1>6, <1>7, <1>8, <1>9, <1>10 DEF Next

LEMMA UploadRightInit == Init => UploadRight
<1> SUFFICES ASSUME Init PROVE UploadRight
  OBVIOUS
<1>1. /\ at = "idle" /\ content = <<>> /\ run = <<>> /\ upload = NoUpload /\ tmp = NoTmp
      /\ faulty = {} /\ reply = "none" /\ <<>> \in Seq(Text) /\ dest = "old"
  BY DEF Init
<1>2. UploadedAsSent /\ NoTempSurvives
  BY <1>1 DEF UploadedAsSent, NoTempSurvives
<1> QED
  BY <1>1, <1>2, NoUploadType DEF UploadRight

LEMMA ScanRightInit == Init => ScanRight
<1> SUFFICES ASSUME Init PROVE ScanRight
  OBVIOUS
<1>1. client = NewBody /\ js = jstream_init /\ at = "idle"
  BY DEF Init
<1>2. /\ <<>> \in Seq(NameChars) /\ <<>> \in Seq([is_obj : BOOLEAN, on_path : BOOLEAN])
      /\ <<>> \in Seq([obj : BOOLEAN, key : Seq(NameChars)])
  OBVIOUS
<1>3. js \in Jstreams /\ client \in Bodies
  BY <1>1, <1>2 DEF jstream_init, Jstreams, NewBody, Bodies
<1> QED
  BY <1>1, <1>3 DEF ScanRight

\* Content of any length, with the escapes \/, \n, \uXXXX and \" anywhere, cut
\* into chunks anywhere and with any call failing: the file upload_file
\* confirms holds the bytes the content stands for, or a beginning of them when
\* the unchecked fclose lost the rest; with no call failing only content that
\* is not base64, or empty, is called bad; a refusal leaves the file as it was
\* unless the rename failed.
THEOREM UploadsAsSent == Spec => []UploadedAsSent
<1>1. UploadRight => UploadedAsSent
  BY DEF UploadRight
<1>2. QED
  BY <1>1, ScanRightInit, UploadRightInit, ScanRightNext, UploadRightNext, PTL DEF Spec

\* After upload_cleanup, at the end of handle_post, a temp file of this request
\* is left only when its remove failed, or the rename of content of no bytes
\* did, which upload_cleanup takes for nothing to remove; or power was lost.
THEOREM TempRemoved == Spec => []NoTempSurvives
<1>1. UploadRight => NoTempSurvives
  BY DEF UploadRight
<1>2. QED
  BY <1>1, ScanRightInit, UploadRightInit, ScanRightNext, UploadRightNext, PTL DEF Spec

\* The decoder alone: a text given to b64dec_update whole is decoded to what
\* RFC 4648 says it means, and b64dec_finish accepts it exactly when it is
\* base64: whole groups, padding of the right length, no stray bits.
THEOREM DecodesExactly ==
    \A text \in Seq(Text) :
        LET d == b64dec_update(b64dec_init, text) IN
        /\ b64dec_finish(d) <=> Valid(text)
        /\ Valid(text) => d.out = Meaning(text)
<1> TAKE text \in Seq(Text)
<1>1. PICK d : d = b64dec_update(b64dec_init, text)
  OBVIOUS
<1>2. <<>> \in Seq(Text) /\ <<>> \o text = text
  OBVIOUS
<1>3. Decoding(d, <<>>, text)
  BY <1>1, <1>2, FreshDecoder, FollowsUpdate
<1>4. b64dec_finish(d) <=> Valid(text)
  BY <1>3, FinishIsValid
<1>5. ASSUME Valid(text) PROVE d.out = Meaning(text)
  <2>1. ~d.err
    BY <1>4, <1>5 DEF b64dec_finish
  <2>2. <<>> \o d.out = Bytes(Digits(text)) /\ d.out \in Outs
    BY <1>3, <2>1, DecoderFields DEF Decoding, Reads
  <2>3. <<>> \o d.out = d.out
    BY <2>2 DEF Outs
  <2> QED
    BY <2>2, <2>3 DEF Meaning
<1> QED
  BY <1>1, <1>4, <1>5
=============================================================================
