----------------------------- MODULE MdnsQuery -----------------------------
(***************************************************************************)
(* core/mdns.c: what a received query is answered with.  A packet is a     *)
(* sequence of cells after its header: a label, a pointer to a cell, the   *)
(* end of a name, or the type and class that follow a name.  Lengths are   *)
(* in cells.                                                               *)
(***************************************************************************)
EXTENDS Integers, Sequences, SequencesExt, FiniteSetsExt

CONSTANTS
    Host, Service, Fqdn,   \* the names advertised, as sequences of labels
    Queries,               \* packets on the network, see Packet
    MaxHops,               \* the 16 pointers name_equals follows
    TxtSizes,              \* sizes of the TXT record
    OutMax                 \* stands for MDNS_DGRAM_MAX

VARIABLES
    txt,      \* cfg->txt_len
    dgram     \* the last datagram and what was sent for it

mdnsVars == <<txt, dgram>>

Types == {"A", "PTR", "SRV", "TXT", "ANY", "AAAA"}
End == [k |-> "end"]
Label(l) == [k |-> "label", label |-> l]
Pointer(to) == [k |-> "pointer", to |-> to]
Ask(type, qu) == [k |-> "ask", type |-> type, qu |-> qu]
Cell == {End} \cup [k : {"label"}, label : STRING] \cup [k : {"pointer"}, to : Nat]
        \cup [k : {"ask"}, type : Types, qu : BOOLEAN]

(* A query is made of questions, names followed by an Ask, of which the    *)
(* last cells may be missing; behind the i-th are Ends(q)[i] cells.        *)
IsQuestion(s) ==
    /\ s \in Seq(Cell) /\ Len(s) > 1
    /\ \A i \in DOMAIN s : s[i].k \in (IF i < Len(s) - 1 THEN {"label"}
                                       ELSE IF i < Len(s) THEN {"end", "pointer"} ELSE {"ask"})
Ends(q) ==
    LET ends[i \in 0..Len(q.questions)] ==
          IF i = 0 THEN 0 ELSE ends[i - 1] + Len(q.questions[i])
    IN  ends
PacketLen(q) == Ends(q)[Len(q.questions)] - q.cut
Packet(q) ==
    LET ends == Ends(q)
        Holder(c) == CHOOSE i \in DOMAIN q.questions : c \in (ends[i - 1] + 1)..ends[i]
    IN  [c \in 1..PacketLen(q) |-> q.questions[Holder(c)][c - ends[Holder(c) - 1]]]

ASSUME MdnsAssumption ==
    /\ Host \in Seq(STRING) /\ Service \in Seq(STRING) /\ Fqdn \in Seq(STRING)
    /\ MaxHops \in Nat /\ OutMax \in Nat /\ TxtSizes \subseteq Nat
    /\ \A q \in Queries :
          /\ DOMAIN q = {"questions", "cut"} /\ DOMAIN q.questions = 1..Len(q.questions)
          /\ Len(q.questions) \in Nat /\ \A i \in DOMAIN q.questions : IsQuestion(q.questions[i])
          /\ q.cut \in Nat /\ PacketLen(q) \in Nat

(* One cell of the loop in name_equals: a pointer is followed, a label     *)
(* compared with the next one of the name.  The high byte of a type is     *)
(* zero: a pointer to it meets a name's end.                               *)
Refuse(w) == [w EXCEPT !.at = "refused"]
Follow(pkt, name, w) ==
    IF w.at # "cell" THEN w
    ELSE IF w.off \notin DOMAIN pkt THEN Refuse(w)
    ELSE CASE pkt[w.off].k = "pointer" ->
                IF w.hops < MaxHops
                THEN [at |-> "cell", off |-> pkt[w.off].to, matched |-> w.matched, hops |-> w.hops + 1]
                ELSE Refuse(w)
           [] pkt[w.off].k = "label" ->
                IF w.matched < Len(name) /\ pkt[w.off].label = name[w.matched + 1]
                THEN [at |-> "cell", off |-> w.off + 1, matched |-> w.matched + 1, hops |-> w.hops]
                ELSE Refuse(w)
           [] OTHER -> [w EXCEPT !.at = "end"]

(* Each of its cells is a label of the name, one of MaxHops pointers or    *)
(* the last.                                                               *)
Walk(pkt, off, name) ==
    LET walk[n \in 0..(Len(name) + MaxHops + 1)] ==
          IF n = 0 THEN [at |-> "cell", off |-> off, matched |-> 0, hops |-> 0]
          ELSE Follow(pkt, name, walk[n - 1])
    IN  walk[Len(name) + MaxHops + 1]

(* Bug: a name that ends early is taken for the whole.                     *)
name_equals_prefix(pkt, off, name) ==
    Walk(pkt, off, name).at = "end" /\ Walk(pkt, off, name).matched > 0

name_equals(pkt, off, name) ==
    Walk(pkt, off, name).at = "end" /\ Walk(pkt, off, name).matched = Len(name)

(* The cell after a name, 0 when the packet ends first.                    *)
skip_name(pkt, off) ==
    LET ends == {i \in DOMAIN pkt : i >= off /\ pkt[i].k # "label"}
    IN  IF ends = {} THEN 0 ELSE Min(ends) + 1

(* What a question about one of our names wants.                           *)
Wants(pkt, off, type) ==
    IF name_equals(pkt, off, Host) THEN (IF type \in {"A", "ANY"} THEN {"A"} ELSE {})
    ELSE IF name_equals(pkt, off, Service) THEN (IF type \in {"PTR", "ANY"} THEN {"PTR"} ELSE {})
    ELSE IF name_equals(pkt, off, Fqdn)
      THEN (IF type = "ANY" THEN {"SRV", "TXT"} ELSE {"SRV", "TXT"} \cap {type})
    ELSE {}

(* One question; a malformed one ends the scan, what was found stays.      *)
Scan(pkt, w) ==
    LET after == skip_name(pkt, w.off)
        found == Wants(pkt, w.off, pkt[after].type)
    IN  IF w.off > Len(pkt) \/ after = 0 \/ after > Len(pkt) THEN [w EXCEPT !.off = Len(pkt) + 1]
        ELSE [off |-> after + 1, want |-> w.want \cup found,
              unicast |-> w.unicast \/ (found # {} /\ pkt[after].qu)]

scan_questions(pkt, qdcount) ==
    LET scanned[i \in 0..qdcount] ==
          IF i = 0 THEN [off |-> 1, want |-> {}, unicast |-> FALSE]
          ELSE Scan(pkt, scanned[i - 1])
    IN  scanned[qdcount]

(* The sizes of what emit_ptr, emit_srv, emit_txt, emit_a and emit_nsec    *)
(* write; without a text emit_txt writes one empty string.                 *)
Records == {"PTR", "SRV", "TXT", "A", "NSEC"}
Length(records) ==
    LET Sized(r, size) == IF r \in records THEN size ELSE 0
    IN  1 + Sized("PTR", 2) + Sized("SRV", 2) + Sized("TXT", IF txt > 0 THEN txt + 1 ELSE 2)
          + Sized("A", 1) + Sized("NSEC", 1)

(* Nothing is sent for a response, for no question of ours, or when the    *)
(* records do not all fit.                                                 *)
mdns_build_response(pkt, qdcount, response) ==
    LET w == scan_questions(pkt, qdcount)
        srv == IF "PTR" \in w.want THEN {"SRV", "TXT"} ELSE {}
        a == IF (w.want \cup srv) \cap {"SRV", "A"} # {} THEN {"A", "NSEC"} ELSE {}
        records == w.want \cup srv \cup a
    IN  [records |-> IF response \/ Length(records) > OutMax THEN {} ELSE records,
         unicast |-> ~response /\ w.unicast]

mdns_build_announcement == IF Length(Records) > OutMax THEN {} ELSE Records

NoDatagram == [is |-> "none"]
MdnsInit == txt \in TxtSizes /\ dgram = NoDatagram

mdns_handle_readable ==
    /\ \E q \in Queries, response \in BOOLEAN :
          LET built == mdns_build_response(Packet(q), Len(q.questions), response)
          IN  dgram' = [is |-> "query", query |-> q, response |-> response,
                        records |-> built.records, unicast |-> built.unicast]
    /\ UNCHANGED txt

mdns_announce ==
    /\ dgram' = [is |-> "announced", records |-> mdns_build_announcement]
    /\ UNCHANGED txt

(* ---- reference ---- *)

(* The cells met from one on, behind labels and across pointers.           *)
Trail(pkt, off, steps) ==
    LET cell[n \in 0..steps] ==
          IF n = 0 THEN off
          ELSE LET c == cell[n - 1]
               IN  IF c \in DOMAIN pkt /\ pkt[c].k = "pointer" THEN pkt[c].to ELSE c + 1
    IN  cell

(* A name stands at a cell: its labels are met in their order, across at   *)
(* most MaxHops pointers, and then the end of a name.                      *)
Spells(pkt, off, name) ==
    LET steps == Len(name) + MaxHops
        cell == Trail(pkt, off, steps)
        Labels(n) == {m \in 0..(n - 1) : pkt[cell[m]].k = "label"}
    IN  \E n \in 0..steps :
          /\ \A m \in 0..n : cell[m] \in DOMAIN pkt
          /\ \A m \in 0..n : m = n <=> pkt[cell[m]].k \in {"end", "ask"}
          /\ Cardinality(Labels(n)) = Len(name)
          /\ \A m \in Labels(n) : pkt[cell[m]].label = name[Cardinality(Labels(m)) + 1]

OurName(pkt, off) ==
    IF Spells(pkt, off, Host) THEN "host"
    ELSE IF Spells(pkt, off, Service) THEN "service"
    ELSE IF Spells(pkt, off, Fqdn) THEN "instance" ELSE "not ours"

(* The questions that are whole, from how the packet was made.             *)
Whole(q) ==
    {[name |-> OurName(Packet(q), Ends(q)[i - 1] + 1), ask |-> Last(q.questions[i])] :
        i \in {j \in DOMAIN q.questions : Ends(q)[j] <= PacketLen(q)}}

Ours(x) ==
    \/ x.name = "host" /\ x.ask.type \in {"A", "ANY"}
    \/ x.name = "service" /\ x.ask.type \in {"PTR", "ANY"}
    \/ x.name = "instance" /\ x.ask.type \in {"SRV", "TXT", "ANY"}
Due(x) ==
    CASE x.name = "host" -> {"A", "NSEC"}
      [] x.name = "service" -> Records
      [] x.name = "instance" /\ x.ask.type = "TXT" -> {"TXT"}
      [] x.name = "instance" /\ x.ask.type = "SRV" -> {"SRV", "A", "NSEC"}
      [] OTHER -> {"SRV", "TXT", "A", "NSEC"}

(* A query gets every record its whole questions ask for and none besides, *)
(* however their names are compressed and wherever the packet breaks off;  *)
(* a pointer loop ends; the answer goes to the sender alone exactly when a *)
(* question of ours asked for it (mdns.c:342-355); and a response or an    *)
(* announcement that does not fit is not sent in part.                     *)
AnswersWhatIsAsked ==
  /\ dgram.is = "announced" => dgram.records \in {{}, Records}
  /\ dgram.is = "query" =>
        LET ours == {x \in Whole(dgram.query) : Ours(x)}
            due == UNION {Due(x) : x \in ours}
        IN  IF dgram.response \/ Length(due) > OutMax THEN dgram.records = {}
            ELSE /\ dgram.records = due
                 /\ due # {} => (dgram.unicast <=> \E x \in ours : x.ask.qu)
=============================================================================
