------------------------------- MODULE Printf -------------------------------
(***************************************************************************)
(* Formatted output: of the C library (libc/printf.c), which programs use, *)
(* and of the kernel (tty.c), for its own messages.  Pure functions from a *)
(* format and arguments to the characters written.                         *)
(*                                                                         *)
(* An argument is an integer, a character or a string as the conversion    *)
(* calls for.  Left out: an integer of the smallest value of the widest    *)
(* type, whose negation overflows, and a kernel format that ends with %.   *)
(***************************************************************************)
EXTENDS Chars, Integers, Sequences, SequencesExt

CONSTANTS
    INTBITS,     \* width of int, long and pointers
    LONGBITS,    \* width of long long
    NULL         \* the string that is not there

hexchars == <<"0", "1", "2", "3", "4", "5", "6", "7",
              "8", "9", "a", "b", "c", "d", "e", "f">>
hexchars_upper == [hexchars EXCEPT ![11] = "A", ![12] = "B", ![13] = "C",
                                   ![14] = "D", ![15] = "E", ![16] = "F"]
Decimals == {hexchars[i] : i \in 1..10}
Digit(c) == CHOOSE n \in 0..9 : hexchars[n + 1] = c

-----------------------------------------------------------------------------
(* The specifier behind a %.                                               *)

\* FSPEC_INIT
Plainly == [left |-> FALSE, sign |-> <<>>, width |-> 0, len |-> "int", conv |-> "none"]

\* Length modifiers, what they are put before, and what they make of it.
Modifiers == {<<"h", "int", "short">>, <<"h", "short", "char">>,
              <<"l", "int", "long">>, <<"l", "long", "llong">>,
              <<"j", "int", "intptr">>, <<"z", "int", "size">>,
              <<"t", "int", "ptrdiff">>, <<"L", "int", "ldouble">>}

\* readfspec stops at the first character that is not for it.
Accepts(spec, c) ==
    \/ c \in {"-", "+", "#", "h", "l"} \cup Decimals
    \/ c = " " /\ spec.sign = <<>>
    \/ \E m \in Modifiers : m[1] = c /\ m[2] = spec.len

Flag(spec, c) ==
    [spec EXCEPT
        !.left = @ \/ c = "-",
        !.sign = IF c \in {"+", " "} THEN <<c>> ELSE @,
        !.width = IF c \in Decimals THEN 10 * @ + Digit(c) ELSE @,
        !.len = LET to == {m[3] : m \in {n \in Modifiers : n[1] = c /\ n[2] = @}}
                IN IF to = {} THEN @ ELSE CHOOSE len \in to : TRUE]

\* What stopped it is the conversion, known or not.
ReadSpec(f) ==
    LET spec[i \in 0..Len(f)] == IF i = 0 THEN Plainly ELSE Flag(spec[i - 1], f[i])
        stops == {i \in 0..Len(f) : IF i = Len(f) THEN TRUE ELSE ~Accepts(spec[i], f[i + 1])}
        n == Min(stops)
    IN IF n = Len(f) THEN [spec |-> spec[n], rest |-> <<>>]
       ELSE [spec |-> [spec[n] EXCEPT !.conv = f[n + 1]],
             rest |-> SubSeq(f, n + 2, Len(f))]

-----------------------------------------------------------------------------
(* Conversions: whether they succeed, and what they write.                 *)

Fails == [ok |-> FALSE, text |-> <<>>]
Writes(s) == [ok |-> TRUE, text |-> s]

\* The digits of n, none for 0: the loops that fill buf from its end.
Digits(n, base, chars) ==
    LET d[k \in 0..n] == IF k = 0 THEN <<>>
                         ELSE Append(d[k \div base], chars[(k % base) + 1])
    IN d[n]

Bits(len) == IF len = "llong" THEN LONGBITS ELSE INTBITS

\* finfowr_octal, finfowr_uint and finfowr_hex.  A size_t is fetched, and
\* goes on into the case of the long double.
Unsigned(spec, v, base, chars) ==
    LET n == v % 2^Bits(spec.len) IN
    IF spec.len \in {"ptrdiff", "size", "ldouble"} THEN Fails
    ELSE IF n = 0 THEN Writes(<<"0">>)
    ELSE Writes(spec.sign \o Digits(n, base, chars))

\* finfowr_int: nothing is cut to the width of a short or a char.
SignedFault(spec, v) ==
    IF spec.len \in {"size", "ldouble"} THEN Fails
    ELSE IF v < 0 THEN Writes(<<"-">> \o Digits(v % 2^Bits(spec.len), 10, hexchars))
    ELSE IF v = 0 THEN Writes(<<"0">>)
    ELSE Writes(spec.sign \o Digits(v, 10, hexchars))

Signed(spec, v) ==
    IF spec.len \in {"size", "ldouble"} THEN Fails
    ELSE IF v < 0 THEN Writes(<<"-">> \o Digits(-v, 10, hexchars))
    ELSE IF v = 0 THEN Writes(<<"0">>)
    ELSE Writes(spec.sign \o Digits(v, 10, hexchars))

\* finfowr_str: only strings are padded.
String(spec, s) ==
    LET pad == [i \in 1..spec.width - Len(s) |-> " "] IN
    IF s = NULL THEN Fails
    ELSE Writes(IF spec.left THEN s \o pad ELSE pad \o s)

\* finfowr_ptr
Pointer(spec, v) ==
    Writes(<<"0", "x">> \o Unsigned([spec EXCEPT !.len = "intptr"], v, 16, hexchars).text)

\* finfowr_conv; a double is never written.
Convert(spec, v) ==
    CASE spec.conv \in {"d", "i"} -> Signed(spec, v)
      [] spec.conv = "o" -> Unsigned(spec, v, 8, hexchars)
      [] spec.conv = "u" -> Unsigned(spec, v, 10, hexchars)
      [] spec.conv = "x" -> Unsigned(spec, v, 16, hexchars)
      [] spec.conv = "X" -> Unsigned(spec, v, 16, hexchars_upper)
      [] spec.conv = "c" -> Writes(<<v>>)
      [] spec.conv = "s" -> String(spec, v)
      [] spec.conv = "p" -> Pointer(spec, v)
      [] OTHER -> Fails

Conversions == {"d", "i", "o", "u", "x", "X", "f", "F", "e", "E", "g", "G",
                "a", "A", "c", "s", "p", "n"}

\* internprintf: done is what has been written, and what %n has stored.  A
\* conversion that fails ends it, one that is unknown writes nothing.
RECURSIVE Internprintf(_, _, _)
Internprintf(fmt, args, done) ==
    IF fmt = <<>> THEN done
    ELSE IF Head(fmt) # "%" THEN
        Internprintf(Tail(fmt), args, [done EXCEPT !.text = Append(@, Head(fmt))])
    ELSE LET r == ReadSpec(Tail(fmt)) IN
        IF r.spec.conv \notin Conversions THEN Internprintf(r.rest, args, done)
        ELSE IF r.spec.conv = "n" THEN
            Internprintf(r.rest, Tail(args), [done EXCEPT !.counts = Append(@, Len(done.text))])
        ELSE LET out == Convert(r.spec, Head(args)) IN
            IF out.ok THEN Internprintf(r.rest, Tail(args), [done EXCEPT !.text = @ \o out.text])
            ELSE [done EXCEPT !.ok = FALSE]

\* vfprintf into a file that takes everything.
Formatted(fmt, args) == Internprintf(fmt, args, [ok |-> TRUE, text |-> <<>>, counts |-> <<>>])

\* vsnprintf, with room for size characters: the result is the number stored.
Snprintf(size, fmt, args) ==
    LET p == Formatted(fmt, args)
        s == SubSeq(p.text, 1, Min({size - 1, Len(p.text)}))
    IN [text |-> s, res |-> IF p.ok THEN Len(s) ELSE -1]

-----------------------------------------------------------------------------
(* The kernel's own.                                                       *)

\* tty_printi, tty_printh
Decimal(v) == IF v = 0 THEN <<"0">>
              ELSE (IF v < 0 THEN <<"-">> ELSE <<>>)
                   \o Digits(IF v < 0 THEN -v ELSE v, 10, hexchars)
Hexadecimal(v) == IF v = 0 THEN <<"0">> ELSE Digits(v % 2^INTBITS, 16, hexchars)

\* tty_vprintf: what is not one of the four conversions is skipped.
RECURSIVE Vprintf(_, _)
Vprintf(fmt, args) ==
    IF fmt = <<>> THEN <<>>
    ELSE IF Head(fmt) # "%" THEN <<Head(fmt)>> \o Vprintf(Tail(fmt), args)
    ELSE LET c == fmt[2]
             rest == SubSeq(fmt, 3, Len(fmt))
         IN CASE c = "c" -> args[1] \o Vprintf(rest, Tail(args))
              [] c = "d" -> Decimal(args[1]) \o Vprintf(rest, Tail(args))
              [] c = "x" -> Hexadecimal(args[1]) \o Vprintf(rest, Tail(args))
              [] c = "s" -> args[1] \o Vprintf(rest, Tail(args))
              [] OTHER -> Vprintf(rest, args)

\* kprintf: a message of a level, in its colour, on a line of its own.
Kprintf(level, fmt, args) ==
    level \o <<" ">> \o Vprintf(fmt, args) \o <<NL>>
=============================================================================
