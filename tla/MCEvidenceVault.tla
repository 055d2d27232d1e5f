---------------------------- MODULE MCEvidenceVault ----------------------------
(* EvidenceVault with three copies, two of them into one directory and two of  *)
(* them of one copy id, on and off the host, and two retrievals from the same  *)
(* copy into one directory, which are interchangeable.                         *)
EXTENDS EvidenceVault, TLC

CONSTANTS c1, c2, c3, r1, r2

MCOp == {c1, c2, c3, r1, r2}

Copy(dir, copy, domain, off) ==
    [kind |-> "copy", dir |-> dir, copy |-> copy, domain |-> domain, off |-> off]

FromK2 ==
    [kind |-> "retrieve", dir |-> "D3", copy |-> "k2", domain |-> "B", off |-> TRUE]

MCAsked == [o \in MCOp |-> CASE o = c1 -> Copy("D1", "k1", "A", FALSE)
                             [] o = c2 -> Copy("D1", "k2", "B", FALSE)
                             [] o = c3 -> Copy("D2", "k2", "B", TRUE)
                             [] OTHER  -> FromK2]

Interchangeable == Permutations({r1, r2})
=============================================================================
