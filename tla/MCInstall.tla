----------------------------- MODULE MCInstall -----------------------------
(* Streams for Install: NSPs whose header is shorter or longer than the     *)
(* prefix, with a gap, with a wrong hash, out of order, without a cnmt;     *)
(* padded XCIs, one with its files out of order in the table, one without   *)
(* a secure partition; something that is neither.                           *)
EXTENDS Install, TLC

CONSTANTS a, b, m

FileAt(id, type, offset, size, intact) ==
    [id |-> id, type |-> type, offset |-> offset, size |-> size, intact |-> intact]
TableAt(at, size) == [at |-> at, size |-> size, parses |-> TRUE]
Nsp(head, gap, intact) ==
    LET data == head + gap IN
    [kind |-> "nsp", tables |-> <<TableAt(0, head)>>, length |-> data + 7,
     files |-> <<FileAt(a, "nca", data, 2, TRUE), FileAt(m, "cnmt", data + 2, 1, TRUE),
                 FileAt(m, "tik", data + 3, 1, TRUE), FileAt(m, "other", data + 4, 1, TRUE),
                 FileAt(b, "nca", data + 5, 2, intact)>>]
Backwards == [Nsp(3, 0, TRUE) EXCEPT !.files = Reverse(@)]
NoCnmt ==
    [kind |-> "nsp", tables |-> <<TableAt(0, 2)>>, length |-> 3,
     files |-> <<FileAt(a, "nca", 2, 1, TRUE)>>]
Xci(root, intact) ==
    [kind |-> "xci", tables |-> <<TableAt(root, 1), TableAt(root + 2, 1)>>, length |-> root + 10,
     files |-> <<FileAt(m, "cnmt", root + 7, 1, TRUE), FileAt(a, "nca", root + 3, 2, intact),
                 FileAt(b, "nca", root + 5, 2, TRUE)>>]
NoSecure == [Xci(2, TRUE) EXCEPT !.tables = <<TableAt(2, 1)>>]
BadTable == [Xci(2, TRUE) EXCEPT !.tables[2].parses = FALSE]
Neither == [Nsp(1, 0, TRUE) EXCEPT !.kind = "unknown"]

MCContainers ==
    {Nsp(1, 0, TRUE), Nsp(2, 1, TRUE), Nsp(3, 0, FALSE), Nsp(3, 1, TRUE), Backwards, NoCnmt,
     Xci(2, TRUE), Xci(3, FALSE), NoSecure, BadTable, Neither}
=============================================================================
