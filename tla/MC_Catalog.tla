------------------------------ MODULE MC_Catalog ------------------------------
(* Directory entries of five kinds: a well-formed descriptor, a name      *)
(* without ".desktop", a descriptor without Exec=, one whose read fails    *)
(* before both fields are found, and one that cannot be opened.           *)
EXTENDS Catalog, TLC

Entry(d, o, n, x, r) == [desktop |-> d, opens |-> o, hasName |-> n,
                         hasExec |-> x, readError |-> r]

MCEntries ==
    { Entry(TRUE, TRUE, TRUE, TRUE, FALSE),
      Entry(FALSE, TRUE, TRUE, TRUE, FALSE),
      Entry(TRUE, TRUE, TRUE, FALSE, FALSE),
      Entry(TRUE, TRUE, TRUE, TRUE, TRUE),
      Entry(TRUE, FALSE, FALSE, FALSE, FALSE) }
=============================================================================
