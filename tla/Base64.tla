------------------------------- MODULE Base64 -------------------------------
(***************************************************************************)
(* util/base64.c: the decoder that is fed a text in pieces, and, as the    *)
(* reference it is checked against, what RFC 4648 says a whole text means. *)
(* "newline" stands for LF and CR, "other" for a character outside the     *)
(* alphabet.  Of the accumulator only the low 14 bits are ever read.       *)
(***************************************************************************)
EXTENDS Integers, Sequences, SequencesExt

CONSTANT b64_val   \* the symbols of the alphabet and their values

ASSUME Base64Assumption ==
    /\ b64_val \in [DOMAIN b64_val -> 0..63]
    /\ "slash" \in DOMAIN b64_val
    /\ DOMAIN b64_val \cap {"=", "newline", "other", "quote", "backslash"} = {}

Symbols == DOMAIN b64_val
Text == Symbols \cup {"=", "newline", "other"}

b64dec_init == [acc |-> 0, bits |-> 0, quad |-> 0, pad |-> 0, err |-> FALSE, out |-> <<>>]

(* Bug: padding does not end the text.                                     *)
Decode1_after_pad(d, c) ==
    IF d.err \/ c = "newline" THEN d
    ELSE IF c = "=" THEN
        IF d.quad < 2 \/ d.quad + d.pad >= 4 THEN [d EXCEPT !.err = TRUE]
        ELSE [d EXCEPT !.pad = @ + 1]
    ELSE IF c \notin Symbols THEN [d EXCEPT !.err = TRUE]
    ELSE LET acc == (d.acc * 64 + b64_val[c]) % 16384
             bits == d.bits + 6
             left == bits % 8
         IN  [d EXCEPT !.quad = (@ + 1) % 4, !.acc = acc, !.bits = left,
                       !.out = IF bits >= 8 THEN Append(@, (acc \div 2^left) % 256) ELSE @]

(* One character; the loop stops at an error.                              *)
Decode1(d, c) ==
    IF d.err \/ c = "newline" THEN d
    ELSE IF c = "=" THEN
        IF d.quad < 2 \/ d.quad + d.pad >= 4 THEN [d EXCEPT !.err = TRUE]
        ELSE [d EXCEPT !.pad = @ + 1]
    ELSE IF c \notin Symbols \/ d.pad > 0 THEN [d EXCEPT !.err = TRUE]
    ELSE LET acc == (d.acc * 64 + b64_val[c]) % 16384
             bits == d.bits + 6
             left == bits % 8
         IN  [d EXCEPT !.quad = (@ + 1) % 4, !.acc = acc, !.bits = left,
                       !.out = IF bits >= 8 THEN Append(@, (acc \div 2^left) % 256) ELSE @]

(* out holds what this call wrote.                                         *)
b64dec_update(d, text) ==
    LET dec[i \in 0..Len(text)] ==
            IF i = 0 THEN [d EXCEPT !.out = <<>>] ELSE Decode1(dec[i - 1], text[i])
    IN  dec[Len(text)]

b64dec_finish(d) ==
    /\ ~d.err
    /\ d.quad # 1
    /\ d.pad > 0 => d.quad + d.pad = 4
    /\ d.acc % 2^d.bits = 0

(* ---- reference ---- *)

(* The characters of a text that are in S.                                 *)
Only(S, text) ==
    LET kept[i \in 0..Len(text)] ==
            IF i = 0 THEN <<>>
            ELSE IF text[i] \in S THEN Append(kept[i - 1], text[i]) ELSE kept[i - 1]
    IN  kept[Len(text)]
Stripped(text) == Only(Text \ {"newline"}, text)
Digits(text) == Only(Symbols, text)

Bit(s, i) == (b64_val[s[i \div 6 + 1]] \div 2^(5 - (i % 6))) % 2
Byte(s, k) == LET b(j) == Bit(s, 8 * k + j) * 2^(7 - j)
              IN  b(0) + b(1) + b(2) + b(3) + b(4) + b(5) + b(6) + b(7)

(* The bytes that digits, and a text, stand for.                           *)
Bytes(s) == [k \in 1..((6 * Len(s)) \div 8) |-> Byte(s, k - 1)]
Meaning(text) == Bytes(Digits(text))

(* Whole groups, the last one padded or left short, no stray bits.         *)
Valid(text) ==
    LET t == Stripped(text)
        s == Digits(text)
        pads == Len(t) - Len(s)
    IN  /\ t = s \o [i \in 1..pads |-> "="]
        /\ Len(s) % 4 # 1
        /\ pads > 0 => Len(s) % 4 # 0 /\ (Len(s) % 4) + pads = 4
        /\ \A i \in 8 * ((6 * Len(s)) \div 8)..6 * Len(s) - 1 : Bit(s, i) = 0
=============================================================================
