------------------------------- MODULE MCPageMap -------------------------------
(* Instances of PageMap.  Addresses 0 and va are in the first 4 MB (va is  *)
(* UTEMP), vb in the last 4 MB below UTOP (it is USTACKTOP), vu in the     *)
(* 4 MB that start at UVPT.                                                *)
EXTENDS PageMap, TLC

CONSTANTS v0, va, vb, vu

Slot(v) == IF v = vu THEN 2 ELSE IF v = vb THEN 1 ELSE 0

AllVA    == {v0, va, vb, vu}
AllUser  == {v0, va, vb}
AllLegal == {va, vb}
AllPanic == {v0, vb}
AllPDX   == [v \in AllVA |-> Slot(v)]

Sym == Permutations(Page) \cup Permutations(Env) \cup Permutations(Asid)
================================================================================
