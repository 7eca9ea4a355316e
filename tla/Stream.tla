------------------------------- MODULE Stream -------------------------------
(***************************************************************************)
(* What a program may expect of a file that it has opened as a stream: its *)
(* characters are put and got one after another at one position, as if     *)
(* there were no buffers.  What was put is safe once the stream has passed *)
(* it on; an error can take back only what was not safe, and is noticed.   *)
(***************************************************************************)
EXTENDS Integers, Sequences

CONSTANTS Texts, EOF

VARIABLES
    open,    \* whether the file is open
    data,    \* its characters, as the program sees them
    safe,    \* its characters that no error takes back
    pos,     \* the position
    broken,  \* an error has occurred; nothing can be put or got any more
    ended,   \* reading has failed; nothing can be got until a seek
    todo,    \* the characters the program is about to put
    ch       \* the last character it got, or EOF

vars == <<open, data, safe, pos, broken, ended, todo, ch>>

Init ==
    /\ ~open /\ ~broken /\ ~ended
    /\ data = <<>> /\ safe = <<>> /\ pos = 0 /\ todo = <<>> /\ ch = EOF

\* d with character c behind the first p.
Written(d, p, c) == IF p < Len(d) THEN [d EXCEPT ![p + 1] = c] ELSE Append(d, c)

Open ==
    /\ ~open /\ open' = TRUE
    /\ data' \in {data, <<>>} /\ safe' = data'
    /\ pos' = 0 /\ broken' = FALSE /\ ended' = FALSE
    /\ UNCHANGED <<todo, ch>>

\* The program hands over characters, which are put one at a time.
Say ==
    /\ open /\ todo = <<>> /\ todo' \in Texts
    /\ UNCHANGED <<open, data, safe, pos, broken, ended, ch>>

Put ==
    /\ open /\ ~broken /\ todo # <<>>
    /\ data' = Written(data, pos, Head(todo))
    /\ pos' = pos + 1 /\ todo' = Tail(todo)
    /\ safe' \in {safe, data'}
    /\ UNCHANGED <<open, broken, ended, ch>>

\* A broken stream takes characters, or refuses the rest of them.
PutInVain ==
    /\ open /\ broken /\ todo # <<>>
    /\ todo' \in {<<>>, Tail(todo)}
    /\ UNCHANGED <<open, data, safe, pos, broken, ended, ch>>

Break ==
    /\ open /\ ~broken /\ broken' = TRUE
    /\ data' = safe /\ pos' \in 0..pos /\ todo' = <<>>
    /\ UNCHANGED <<open, safe, ended, ch>>

Sync ==
    /\ open /\ safe' = data
    /\ UNCHANGED <<open, data, pos, broken, ended, todo, ch>>

Get ==
    /\ open /\ ~broken /\ ~ended /\ pos < Len(data)
    /\ ch' = data[pos + 1] /\ pos' = pos + 1
    /\ UNCHANGED <<open, data, safe, broken, ended, todo>>

\* There is nothing left, or reading fails, or has failed before.
GetNothing ==
    /\ open /\ ch' = EOF
    /\ ended' \in {ended, TRUE}
    /\ pos = Len(data) \/ ended' \/ broken
    /\ UNCHANGED <<open, data, safe, pos, broken, todo>>

Seek ==
    /\ open /\ pos' \in 0..Len(data) /\ ended' = FALSE
    /\ UNCHANGED <<open, data, safe, broken, todo, ch>>

Close ==
    /\ open /\ open' = FALSE
    /\ data' \in {data, safe} /\ safe' = data'
    /\ pos' = 0 /\ broken' = FALSE /\ ended' = FALSE
    /\ UNCHANGED <<todo, ch>>

Next == \/ Open \/ Say \/ Put \/ PutInVain \/ Break \/ Sync
        \/ Get \/ GetNothing \/ Seek \/ Close

Spec == Init /\ [][Next]_vars
=============================================================================
