-------------------------------- MODULE Shell --------------------------------
(***************************************************************************)
(* The shell (src/bin/sh.c) running a script: a line is cut into           *)
(* statements and words, and a statement is an assignment, a built-in      *)
(* command, a part of an if block or a program that is started.            *)
(*                                                                         *)
(* A line is a sequence of tokens [is, text]: runs of ordinary characters, *)
(* blanks, quotes, semicolons, comment signs, variables and escapes.       *)
(* Assumed of scripts: an escape is followed by a character, a condition   *)
(* or "&" by or after a command, paths are absolute and without dots, no   *)
(* two variables have one hash, and modes are not tested (-x).             *)
(***************************************************************************)
EXTENDS Integers, Sequences, TLC
LOCAL INSTANCE SequencesExt

CONSTANTS
    MAX_ARGS,   \* words of a statement (16)
    ARG_VLEN,   \* characters of a word and its end (64)
    Environ     \* what the shell inherits from init

ASSUME ShellAssumption == {MAX_ARGS, ARG_VLEN} \subseteq Nat \ {0, 1}

VARIABLE sh     \* lines still to run, variables, lastret, if_block, if_skip,
                \* cwdbuf, uinfo and what has run so far (history)

\* The shell before a script; uinfo is what getuser gives.
NewShell(lines, uinfo) ==
    [lines |-> lines, vars |-> << >>, last |-> "0", block |-> 0, skip |-> FALSE,
     cwd |-> "/", uinfo |-> uinfo, ran |-> <<>>]

-----------------------------------------------------------------------------
(* Words.  args holds the words so far, exp says that a blank came after   *)
(* the last, and lit is the quotation that is open.                        *)

\* With MAX_ARGS words there is no new one and the last one goes on.
NewArg(p) ==
    IF Len(p.args) < MAX_ARGS THEN [p EXCEPT !.args = Append(@, "")] ELSE p

\* Appends to the last word what there is room for.
AddArg(p, text) ==
    IF text = "" THEN p
    ELSE LET q == IF p.args = <<>> THEN NewArg(p) ELSE p
             word == q.args[Len(q.args)] \o text
             room == IF Len(word) < ARG_VLEN THEN Len(word) ELSE ARG_VLEN - 1
         IN [q EXCEPT !.args[Len(q.args)] = SubSeq(word, 1, room)]

\* The word that a blank has announced.
Expected(p) == IF p.exp THEN [NewArg(p) EXCEPT !.exp = FALSE] ELSE p

\* Variables of the script come before the shell's own and these before
\* what it inherits; what is not there is empty.
GetVar(s, name) ==
    CASE name \in DOMAIN s.vars -> s.vars[name]
      [] name = "?" -> s.last
      [] name = "PWD" -> s.cwd
      [] name = "USER" -> s.uinfo.uname
      [] name = "GROUP" -> s.uinfo.gname
      [] name \in DOMAIN Environ -> Environ[name]
      [] OTHER -> ""

\* The cases of the switch fall through, so all four become an escape
\* character; an escape does not start the word a blank has announced.
Escaped(char) == IF char \in {"n", "r", "t", "e"} THEN "^" ELSE char

\* One token.  In double quotes only variables, escapes and the closing
\* quote are special, in single quotes only the closing quote.
Token(s, p, tok) ==
    LET one == [p EXCEPT !.used = @ + 1]
        literal == \/ p.lit = "quote"
                   \/ p.lit # "" /\ tok.is \in {"quote", "blank", "semi", "hash"}
    IN CASE p.end -> p
         [] tok.is = p.lit -> [one EXCEPT !.lit = ""]
         [] tok.is # p.lit /\ literal -> AddArg(one, tok.text)
         [] ~literal /\ tok.is = "escape" -> AddArg(one, Escaped(tok.char))
         [] ~literal /\ tok.is = "semi" -> [one EXCEPT !.end = TRUE]
         [] ~literal /\ tok.is = "hash" -> [p EXCEPT !.end = TRUE, !.used = p.all]
         [] ~literal /\ tok.is = "var" -> AddArg(Expected(one), GetVar(s, tok.name))
         [] ~literal /\ tok.is = "blank" -> [one EXCEPT !.exp = TRUE]
         [] ~literal /\ tok.is \in {"quote", "dquote"} /\ p.lit = "" ->
                [Expected(one) EXCEPT !.lit = tok.is]
         [] ~literal /\ tok.is = "text" -> AddArg(Expected(one), tok.text)

\* The words of the first statement of a line and the rest of the line
\* (parse_line).
Statement(s, line) ==
    LET p == FoldLeft(LAMBDA q, tok : Token(s, q, tok),
                      [args |-> <<>>, exp |-> FALSE, lit |-> "", end |-> FALSE,
                       used |-> 0, all |-> Len(line)], line)
    IN [args |-> p.args, rest |-> SubSeq(line, p.used + 1, Len(line))]

-----------------------------------------------------------------------------
(* Commands.  fs gives the type of each path there is; code is what a      *)
(* program would exit with.  A result is a new shell and an exit code.     *)

\* atoi of a number as the shell prints it.
Atoi(text) ==
    IF \E n \in 0..255 : ToString(n) = text
    THEN CHOOSE n \in 0..255 : ToString(n) = text ELSE 0

Status(holds) == IF holds THEN 0 ELSE 1

\* test and [, the latter with a word more.
Test(words, fs) ==
    LET extra == IF words[1] = "[" THEN 1 ELSE 0
        n == Len(words)
        left == words[2]   op == words[n - 1 - extra]   right == words[n - extra]
    IN CASE n \notin {3 + extra, 4 + extra} \/ (extra = 1 /\ words[n] # "]") -> 255
         [] n = 4 + extra /\ op = "=" -> Status(left = right)
         [] n = 4 + extra /\ op = "-eq" -> Status(Atoi(left) = Atoi(right))
         [] n = 4 + extra /\ op = "-ne" -> Status(Atoi(left) # Atoi(right))
         [] n = 4 + extra /\ op = "-lt" -> Status(Atoi(left) < Atoi(right))
         [] n = 4 + extra /\ op = "-gt" -> Status(Atoi(left) > Atoi(right))
         [] n = 3 + extra /\ op = "-e" -> Status(right \in DOMAIN fs)
         [] n = 3 + extra /\ op = "-f" -> Status(right \in DOMAIN fs /\ fs[right] = "file")
         [] n = 3 + extra /\ op = "-d" -> Status(right \in DOMAIN fs /\ fs[right] = "dir")
         [] OTHER -> 255

\* The position of the equals sign in a word, or 0.
Equals(word) ==
    LET at == {i \in 1..Len(word) : SubSeq(word, i, i) = "="}
    IN IF at = {} THEN 0 ELSE CHOOSE i \in at : \A j \in at : i <= j

Assign(s, word) ==
    [s EXCEPT !.vars = (SubSeq(word, 1, Equals(word) - 1)
                        :> SubSeq(word, Equals(word) + 1, Len(word))) @@ @]

\* Seeded fault: what is skipped goes on being skipped.
FiFault(s) == [s EXCEPT !.block = @ - 1]

\* The end of a block; skipping ends with the outermost.
Fi(s) == [s EXCEPT !.block = @ - 1, !.skip = @ /\ s.block > 1]

Did(s, words, bg, code) ==
    [s EXCEPT !.ran = Append(@, [args |-> words, bg |-> bg, code |-> code])]

RECURSIVE Exec(_, _, _, _, _)
\* cmd_exec: an assignment in front of a command, then the command.  exit
\* ends a session at the prompt but no script.
Exec(s, argv, bg, fs, code) ==
    LET sets == Equals(argv[1]) > 0 /\ ~s.skip
        t == IF sets THEN Assign(s, argv[1]) ELSE s
        words == IF sets THEN Tail(argv) ELSE argv
        bin == words[1]
    IN IF words = <<>> THEN <<t, 0>>
       ELSE IF t.block > 0 /\ bin = "fi" THEN <<Fi(t), 0>>
       ELSE IF t.block > 0 /\ bin = "else" THEN <<[t EXCEPT !.skip = ~@], 0>>
       ELSE IF t.skip \/ (t.block > 0 /\ bin = "then") THEN <<t, 0>>
       ELSE CASE bin = "exit" -> <<t, 0>>
              [] bin = "echo" -> <<Did(t, words, FALSE, 0), 0>>
              [] bin = "init" -> <<t, 255>>
              [] bin = "cd" ->
                    IF Len(words) = 2 /\ words[2] \in DOMAIN fs /\ fs[words[2]] = "dir"
                    THEN <<[t EXCEPT !.cwd = words[2]], 0>> ELSE <<t, 255>>
              [] bin \in {"test", "["} -> <<t, Test(words, fs)>>
              [] bin = "if" ->
                    LET cond == Exec(t, Tail(words), bg, fs, code)
                    IN <<[cond[1] EXCEPT !.block = @ + 1, !.skip = @ \/ cond[2] >= 1], 0>>
              [] bin = "!" ->
                    LET cond == Exec(t, Tail(words), bg, fs, code)
                    IN <<cond[1], Status(cond[2] # 0)>>
              [] OTHER ->
                    IF "/bin/" \o bin \notin DOMAIN fs THEN <<t, 255>>
                    ELSE <<Did(t, words, bg, code), IF bg THEN 0 ELSE code>>

\* The next statement of the script (eval_file, eval_line).
Command(fs, code) ==
    LET stmt == Statement(sh, Head(sh.lines))
        more == IF stmt.rest = <<>> THEN Tail(sh.lines) ELSE <<stmt.rest>> \o Tail(sh.lines)
        next == [sh EXCEPT !.lines = more]
        bg == stmt.args[Len(stmt.args)] = "&"
        argv == IF bg THEN Front(stmt.args) ELSE stmt.args
        done == Exec(next, argv, bg, fs, code)
    IN /\ sh.lines # <<>>
       /\ sh' = IF stmt.args = <<>> THEN next
                ELSE [done[1] EXCEPT !.last = ToString(done[2])]

-----------------------------------------------------------------------------
(* What a script says, as a structure: assignments, commands and ifs.  A   *)
(* word is a sequence of text and variables.                               *)

Value(st, word) ==
    FoldLeft(LAMBDA text, part :
                text \o (IF part.is = "text" THEN part.text
                         ELSE IF part.name = "?" THEN ToString(st.last)
                         ELSE IF part.name \in DOMAIN st.vars THEN st.vars[part.name] ELSE ""),
             "", word)

Values(st, words) == [i \in DOMAIN words |-> Value(st, words[i])]

\* A condition or command: two values are the same, a path is there unless
\* something is mounted above it, or a program ends with 0.  What has run must
\* start with the program, whose exit code counts unless it is left running.
Ran(st, item) ==
    CASE item.is = "same" ->
            [st EXCEPT !.last = Status(Value(st, item.left) = Value(st, item.right))]
      [] item.is = "there" -> [st EXCEPT !.last = Status(st.place # item.under)]
      [] item.is = "run" ->
            IF st.ran = <<>> THEN [st EXCEPT !.ends = TRUE]
            ELSE IF /\ st.ran[1].args = Values(st, item.words)
                    /\ st.ran[1].bg = item.bg
                 THEN [st EXCEPT !.ran = Tail(@), !.last = IF item.bg THEN 0 ELSE st.ran[1].code]
                 ELSE [st EXCEPT !.wrong = TRUE]

RECURSIVE Follow(_, _)
\* What has run, compared with a script from its start on: wrong if they
\* differ, ends if the script goes on.
Follow(st, items) ==
    LET Step(x, item) ==
            IF x.wrong \/ x.ends THEN x
            ELSE CASE item.is = "set" ->
                        [x EXCEPT !.vars = (item.name :> Value(x, item.val)) @@ @, !.last = 0]
                   [] item.is = "if" ->
                        LET cond == Ran(x, item.cond)
                            holds == (cond.last = 0) # item.not
                        IN IF cond.wrong \/ cond.ends THEN cond
                           ELSE Follow(cond, IF holds THEN item.then ELSE item.else)
                   [] OTHER -> Ran(x, item)
    IN FoldLeft(Step, st, items)
=============================================================================
