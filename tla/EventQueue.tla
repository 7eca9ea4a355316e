----------------------------- MODULE EventQueue -----------------------------
(***************************************************************************)
(* What an input device promises to the program that reads it: what the    *)
(* user does becomes one item each, and the reader gets the items in their *)
(* order, each of them once.  Items are lost only while the queue is full  *)
(* or while it is being flushed.                                           *)
(***************************************************************************)
EXTENDS Naturals, Sequences

CONSTANTS
    Cap,       \* items the queue holds
    Strokes,   \* what the user does
    Item(_),   \* the item that a stroke becomes
    Nothing    \* no stroke, no item

VARIABLES
    stroke,    \* what the user is doing
    queue,     \* items not yet read
    got,       \* what the last read returned
    flushing

vars == <<stroke, queue, got, flushing>>

Init == stroke = Nothing /\ queue = <<>> /\ got = Nothing /\ flushing = FALSE

\* The user acts ...
Stroke ==
    /\ stroke = Nothing
    /\ stroke' \in Strokes
    /\ UNCHANGED <<queue, got, flushing>>

\* ... and the item is entered, unless it is none or there is no room.
Enter ==
    /\ stroke # Nothing
    /\ stroke' = Nothing
    /\ queue' = IF Item(stroke) = Nothing \/ flushing \/ Len(queue) = Cap
                THEN queue ELSE Append(queue, Item(stroke))
    /\ UNCHANGED <<got, flushing>>

Read ==
    /\ queue # <<>> /\ ~flushing
    /\ got' = Head(queue) /\ queue' = Tail(queue)
    /\ UNCHANGED <<stroke, flushing>>

ReadEmpty ==
    /\ queue = <<>> /\ ~flushing
    /\ got' = Nothing
    /\ UNCHANGED <<stroke, queue, flushing>>

Flush ==
    /\ ~flushing
    /\ flushing' = TRUE /\ queue' = <<>>
    /\ UNCHANGED <<stroke, got>>

FlushEnd ==
    /\ flushing
    /\ flushing' = FALSE
    /\ UNCHANGED <<stroke, queue, got>>

Next == Stroke \/ Enter \/ Read \/ ReadEmpty \/ Flush \/ FlushEnd

Spec == Init /\ [][Next]_vars
=============================================================================
