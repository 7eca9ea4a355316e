----------------------------- MODULE FileStore ------------------------------
(***************************************************************************)
(* What a volume promises: a file is what was written to it, whatever is   *)
(* done to other files in between and however often the volume is          *)
(* unmounted.  Opening, closing, listing, reading and mounting change      *)
(* nothing.                                                                *)
(***************************************************************************)
EXTENDS Naturals, Sequences, FiniteSetsExt

CONSTANTS
    Paths,    \* the files there may be
    Values,   \* what a unit of a file may hold
    Counts    \* units one call writes

VARIABLE data   \* what is in each file that exists

Init == data = [p \in {} |-> <<>>]

\* d with n units of v from offset off on.
Overlaid(d, off, n, v) ==
    [k \in 1..Max({Len(d), off + n}) |-> IF k \in off + 1 .. off + n THEN v ELSE d[k]]

\* What a store d can be after one call.
Created(d) ==
    {[q \in DOMAIN d \cup {p} |-> IF q = p THEN <<>> ELSE d[q]] : p \in Paths \ DOMAIN d}

Truncated(d) == {[d EXCEPT ![p] = <<>>] : p \in DOMAIN d}

Written(d) ==
    UNION {{[d EXCEPT ![p] = Overlaid(@, off, n, v)] :
              off \in 0..Len(d[p]), n \in Counts, v \in Values} : p \in DOMAIN d}

Next == LET d == data IN data' \in Created(d) \cup Truncated(d) \cup Written(d)

Spec == Init /\ [][Next]_data
=============================================================================
