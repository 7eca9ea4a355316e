------------------------------- MODULE Input --------------------------------
(***************************************************************************)
(* Keyboard and mouse input: the PS/2 interrupt (kernel/driver/ps2.c), the *)
(* ring of a device (kernel/driver/device.c) and its readers: a program    *)
(* that uses ioctl, or the console's line editor (kernel/driver/fbcon.c).  *)
(*                                                                         *)
(* The interrupt is atomic; readers run with interrupts enabled, so it may *)
(* fall between any two of their accesses to the ring.  A device has one   *)
(* reader at a time per node (MutualExclusion of module Task), but the     *)
(* console and the keyboard node share a device: Users says who is there.  *)
(* The kernel is compiled without optimisation: every access is made.      *)
(***************************************************************************)
EXTENDS Integers, Sequences, SequencesExt

CONSTANTS
    DEVICE_KEYBOARD_MAX_KEYS,   \* 32 in the code
    DEVICE_MOUSE_MAX_EVENTS,    \* 32 in the code
    LINEBUFSZ,                  \* 4096 in the code
    Devices,   \* what may be connected: "keyboard", "mouse"
    Users,     \* who may read it: sets of "ioctl" and "console"
    Codes,     \* scan codes in use
    Others,    \* bound: those, plain and after e0, in use with a program
    UpCodes,   \* bound: those whose release is seen while the console reads
    Moves,     \* mouse motions in use
    Sizes,     \* sizes of console reads
    MaxLine    \* bound: longest line typed

ASSUME RingAssumption ==
    /\ DEVICE_KEYBOARD_MAX_KEYS \in Nat \ {0, 1}
    /\ DEVICE_MOUSE_MAX_EVENTS = DEVICE_KEYBOARD_MAX_KEYS
ASSUME DevicesAssumption == Devices \subseteq {"keyboard", "mouse"}
ASSUME LineAssumption == LINEBUFSZ \in Nat \ {0, 1, 2}
ASSUME CodesAssumption ==
    /\ Codes \subseteq {"1c", "5a", "12", "66"}
    /\ Others \subseteq Codes /\ UpCodes \subseteq Codes
ASSUME SizesAssumption == Sizes \subseteq Nat \ {0}

\* scancodes2 and scancodes2_other, of the codes in use; "none" is 0.
scancodes2 == [c \in Codes |->
    CASE c = "1c" -> "A" [] c = "5a" -> "RETURN"
      [] c = "12" -> "LEFT_SHIFT" [] c = "66" -> "BACKSPACE"]
scancodes2_other == [c \in Codes |->
    IF c = "5a" THEN "NUMPAD_ENTER" ELSE "none"]

\* ascii and ascii_shift.
Ascii(key, shift) == CASE key = "A" -> IF shift THEN "A" ELSE "a"
                       [] key = "NUMPAD_ENTER" -> "."
                       [] OTHER -> "?"

N == DEVICE_KEYBOARD_MAX_KEYS
Readers == {"ioctl", "console"}
Nothing == <<>>

VARIABLES
    type,      \* dev_p0_type
    users,     \* the readers of this run
    \* the device: what the user does, and the bytes still to be sent for it
    stroke, wire,
    \* the driver
    rel, other,    \* prefixes seen
    mbytes,        \* mouse bytes received
    \* the device's ring
    ring, start, end,
    \* readers
    pc,        \* place of a reader
    key,       \* the item it holds
    got,       \* what the last read of the ring returned
    \* console
    shift, linebuf, nread, nlinebuf, plinebuf,
    text,      \* history: the line as the user edited it
    out        \* history: what console reads returned of the last line

device == <<type, users>>
driver == <<rel, other, mbytes>>
console == <<shift, linebuf, nread, nlinebuf, plinebuf, text, out>>
vars == <<device, stroke, wire, driver, ring, start, end, pc, key, got, console>>

Init ==
    /\ type \in Devices
    /\ users \in Users /\ (type = "mouse" => users = {"ioctl"})
    /\ stroke = Nothing /\ wire = <<>>
    /\ rel = FALSE /\ other = FALSE /\ mbytes = <<>>
    /\ ring = [i \in 0..N-1 |-> Nothing] /\ start = 0 /\ end = 0
    /\ pc = [r \in Readers |-> "idle"]
    /\ key = [r \in Readers |-> Nothing] /\ got = Nothing
    /\ shift = FALSE /\ linebuf = [i \in 0..LINEBUFSZ-1 |-> 0]
    /\ nread = 0 /\ nlinebuf = 0 /\ plinebuf = 0
    /\ text = <<>> /\ out = <<>>

-----------------------------------------------------------------------------
(* The device, which is external: what the user does, and how it is sent.  *)

KeyStrokes == [by : {"keyboard"}, code : Codes, ext : {FALSE}, up : BOOLEAN]
         \cup [by : {"keyboard"}, code : Others, ext : {TRUE}, up : BOOLEAN]
MouseStrokes == [by : {"mouse"}, overflow : BOOLEAN, x : Moves, y : Moves]
Strokes == KeyStrokes \cup MouseStrokes

\* Scan code set 2: e0 for the other keys, f0 if released, then the code.
KeyBytes(k) == (IF k.ext THEN <<"e0">> ELSE <<>>)
                 \o (IF k.up THEN <<"f0">> ELSE <<>>) \o <<k.code>>
MouseBytes(m) == <<m.overflow, m.x, m.y>>

Stroke ==
    /\ stroke = Nothing
    /\ stroke' \in Strokes /\ stroke'.by = type
    /\ "console" \in users =>
          ~stroke'.ext /\ (stroke'.up => stroke'.code \in UpCodes)
    /\ "ioctl" \in users /\ type = "keyboard" => stroke'.code \in Others
    /\ wire' = IF type = "keyboard" THEN KeyBytes(stroke')
                                    ELSE MouseBytes(stroke')
    /\ UNCHANGED <<device, driver, ring, start, end, pc, key, got, console>>

-----------------------------------------------------------------------------
(* The interrupt.                                                          *)

\* Seeded fault: the last slot is used as well.
PutFault(item) ==
    /\ ring' = [ring EXCEPT ![end] = item]
    /\ end' = (end + 1) % N

\* device_keyboard_putkey and device_mouse_putev: the ring is full when one
\* slot is left.
Put(item) ==
    IF (end + 1) % N = start THEN UNCHANGED <<ring, end>>
    ELSE /\ ring' = [ring EXCEPT ![end] = item]
         /\ end' = (end + 1) % N

\* ps2_irqkbd and translate_code.  The release of an unknown key is not 0,
\* and is entered.
IrqKeyboard ==
    /\ type = "keyboard" /\ wire # <<>>
    /\ wire' = Tail(wire)
    /\ stroke' = IF Len(wire) = 1 THEN Nothing ELSE stroke
    /\ LET b == Head(wire) IN
         CASE b = "f0" -> rel' = TRUE /\ UNCHANGED <<other, ring, end>>
           [] b = "e0" -> other' = TRUE /\ UNCHANGED <<rel, ring, end>>
           [] OTHER ->
                LET k == IF other THEN scancodes2_other[b] ELSE scancodes2[b]
                IN  /\ rel' = FALSE /\ other' = FALSE
                    /\ IF k = "none" /\ ~rel
                       THEN UNCHANGED <<ring, end>>
                       ELSE Put([key |-> k, up |-> rel])
    /\ UNCHANGED <<device, mbytes, start, pc, key, got, console>>

\* ps2_irqmouse: three bytes make an event, which is dropped if the motion
\* was too large.
IrqMouse ==
    /\ type = "mouse" /\ wire # <<>>
    /\ wire' = Tail(wire)
    /\ stroke' = IF Len(wire) = 1 THEN Nothing ELSE stroke
    /\ LET bytes == Append(mbytes, Head(wire)) IN
         IF Len(bytes) < 3 THEN mbytes' = bytes /\ UNCHANGED <<ring, end>>
         ELSE /\ mbytes' = <<>>
              /\ IF bytes[1] THEN UNCHANGED <<ring, end>>
                             ELSE Put([x |-> bytes[2], y |-> bytes[3]])
    /\ UNCHANGED <<device, rel, other, start, pc, key, got, console>>

-----------------------------------------------------------------------------
(* ioctl on the device node.                                               *)

Goto(r, from, to) == pc[r] = from /\ pc' = [pc EXCEPT ![r] = to]

\* ECIO_INP_GETEVENT: nothing there ...
GetEmpty ==
    /\ "ioctl" \in users /\ pc["ioctl"] = "idle" /\ start = end
    /\ got' = Nothing
    /\ UNCHANGED <<device, stroke, wire, driver, ring, start, end, pc, key,
                   console>>

\* ... or something: a key is taken before kstart is advanced, while of a
\* mouse event a pointer is returned, evstart advanced, and then it is copied.
GetTest ==
    /\ "ioctl" \in users /\ start # end
    /\ Goto("ioctl", "idle", IF type = "keyboard" THEN "take" ELSE "pointer")
    /\ UNCHANGED <<device, stroke, wire, driver, ring, start, end, key, got,
                   console>>

\* int key = kbdev->keys[kbdev->kstart]
Take(r) ==
    /\ Goto(r, "take", "advance")
    /\ key' = [key EXCEPT ![r] = ring[start]]
    /\ UNCHANGED <<device, stroke, wire, driver, ring, start, end, got, console>>

\* kbdev->kstart = (kbdev->kstart + 1) % DEVICE_KEYBOARD_MAX_KEYS
Advance(r) ==
    /\ Goto(r, "advance", IF r = "console" THEN "key" ELSE "idle")
    /\ start' = (start + 1) % DEVICE_KEYBOARD_MAX_KEYS
    /\ got' = key[r]
    /\ key' = IF r = "console" THEN key ELSE [key EXCEPT ![r] = Nothing]
    /\ UNCHANGED <<device, stroke, wire, driver, ring, end, console>>

\* device_mouse_getev; key holds the slot that ev points to.
MousePointer ==
    /\ Goto("ioctl", "pointer", "copy x")
    /\ start' = (start + 1) % DEVICE_KEYBOARD_MAX_KEYS
    /\ key' = [key EXCEPT !["ioctl"] = start]
    /\ UNCHANGED <<device, stroke, wire, driver, ring, end, got, console>>

\* ioctl_mus copies field by field.
MouseCopyX ==
    /\ Goto("ioctl", "copy x", "copy y")
    /\ got' = [x |-> ring[key["ioctl"]].x, y |-> 0]
    /\ UNCHANGED <<device, stroke, wire, driver, ring, start, end, key, console>>

MouseCopyY ==
    /\ Goto("ioctl", "copy y", "idle")
    /\ got' = [got EXCEPT !.y = ring[key["ioctl"]].y]
    /\ key' = [key EXCEPT !["ioctl"] = Nothing]
    /\ UNCHANGED <<device, stroke, wire, driver, ring, start, end, console>>

\* ECIO_INP_FLUSH: two stores.
FlushStart ==
    /\ "ioctl" \in users
    /\ Goto("ioctl", "idle", "flush")
    /\ start' = 0
    /\ UNCHANGED <<device, stroke, wire, driver, ring, end, key, got, console>>

FlushEnd ==
    /\ Goto("ioctl", "flush", "idle")
    /\ end' = 0
    /\ UNCHANGED <<device, stroke, wire, driver, ring, start, key, got, console>>

-----------------------------------------------------------------------------
(* Reading the console: fbcon_read.                                        *)

Bytes(i, n) == [j \in 1..n |-> linebuf[i + j - 1]]
Smaller(a, b) == IF a < b THEN a ELSE b

\* Seeded fault: the position in the line is not moved on.
RestFault(size) ==
    LET toread == Smaller(nlinebuf, size) IN
    /\ nlinebuf' = nlinebuf - toread
    /\ plinebuf' = plinebuf
    /\ out' = out \o Bytes(plinebuf, toread)

\* What is left of the last line is returned first.
Rest(size) ==
    LET toread == Smaller(nlinebuf, size) IN
    /\ nlinebuf' = nlinebuf - toread
    /\ plinebuf' = plinebuf + toread
    /\ out' = out \o Bytes(plinebuf, toread)

ConsoleRest(size) ==
    /\ "console" \in users /\ pc["console"] = "idle" /\ nlinebuf > 0
    /\ Rest(size)
    /\ UNCHANGED <<device, stroke, wire, driver, ring, start, end, pc, key, got,
                   shift, linebuf, nread, text>>

\* Otherwise a new line is read.
ConsoleCall ==
    /\ "console" \in users /\ nlinebuf = 0
    /\ Goto("console", "idle", "wait")
    /\ nread' = 0 /\ shift' = FALSE
    /\ text' = <<>> /\ out' = <<>>
    /\ UNCHANGED <<device, stroke, wire, driver, ring, start, end, key, got,
                   linebuf, nlinebuf, plinebuf>>

\* device_keyboard_getkey_block: hlt until there is a key.
ConsoleWait ==
    /\ start # end
    /\ Goto("console", "wait", "take")
    /\ UNCHANGED <<device, stroke, wire, driver, ring, start, end, key, got,
                   console>>

\* A key that edits the line.  Lines that would grow beyond the bound
\* MaxLine are not followed.
ConsoleKey ==
    LET k == key["console"] IN
    /\ k # [key |-> "RETURN", up |-> FALSE]
    /\ Goto("console", "key", "wait")
    /\ CASE k.key = "LEFT_SHIFT" ->
              shift' = ~k.up /\ UNCHANGED <<linebuf, nread, text>>
         [] k.key # "LEFT_SHIFT" /\ k.up ->
              UNCHANGED <<shift, linebuf, nread, text>>
         [] k.key = "BACKSPACE" /\ ~k.up ->
              /\ nread' = IF nread = 0 THEN 0 ELSE nread - 1
              /\ linebuf' = IF nread # 0 /\ nread - 1 < LINEBUFSZ - 2
                            THEN [linebuf EXCEPT ![nread - 1] = 0] ELSE linebuf
              /\ text' = IF text = <<>> THEN text ELSE Front(text)
              /\ UNCHANGED shift
         [] k.key \in {"A", "NUMPAD_ENTER"} /\ ~k.up ->
              /\ Len(text) < MaxLine
              /\ linebuf' = IF nread < LINEBUFSZ - 2
                            THEN [linebuf EXCEPT ![nread] = Ascii(k.key, shift)]
                            ELSE linebuf
              /\ nread' = nread + 1
              /\ text' = Append(text, Ascii(k.key, shift))
              /\ UNCHANGED shift
    /\ key' = [key EXCEPT !["console"] = Nothing]
    /\ UNCHANGED <<device, stroke, wire, driver, ring, start, end, got,
                   nlinebuf, plinebuf, out>>

\* Return ends the line; the part that fits is returned.
ConsoleReturn(size) ==
    LET fits == nread <= LINEBUFSZ - 2
        line == IF fits THEN [linebuf EXCEPT ![nread] = "newline"] ELSE linebuf
        n == IF fits THEN nread + 1 ELSE nread
        toread == Smaller(n, size)
    IN
    /\ key["console"] = [key |-> "RETURN", up |-> FALSE]
    /\ Goto("console", "key", "idle")
    /\ linebuf' = line /\ nread' = n
    /\ out' = [j \in 1..toread |-> line[j - 1]]
    /\ IF n > size THEN plinebuf' = size /\ nlinebuf' = n - size
                   ELSE UNCHANGED <<plinebuf, nlinebuf>>
    /\ key' = [key EXCEPT !["console"] = Nothing]
    /\ UNCHANGED <<device, stroke, wire, driver, ring, start, end, got,
                   shift, text>>

-----------------------------------------------------------------------------

Reader ==
    \/ GetEmpty \/ GetTest \/ (\E r \in Readers : Take(r) \/ Advance(r))
    \/ MousePointer \/ MouseCopyX \/ MouseCopyY \/ FlushStart \/ FlushEnd
    \/ ConsoleCall \/ ConsoleWait \/ ConsoleKey
    \/ \E size \in Sizes : ConsoleRest(size) \/ ConsoleReturn(size)

Next == Stroke \/ IrqKeyboard \/ IrqMouse \/ Reader

Spec == Init /\ [][Next]_vars

-----------------------------------------------------------------------------
(* Properties.                                                             *)

\* The positions stay in the ring, the rest of a line in the line buffer, and
\* the bytes of a mouse event are two at most between interrupts.
TypeOK ==
    /\ start \in 0..N-1 /\ end \in 0..N-1
    /\ mbytes \in {<<>>} \cup [1..1 -> BOOLEAN]
                    \cup {<<o, x>> : o \in BOOLEAN, x \in Moves}
    /\ plinebuf + nlinebuf <= LINEBUFSZ

\* The program that reads a device gets what the user does, in order and
\* once, except while the queue is full or being flushed, although the ring
\* is shared with the interrupt and a mouse event is copied after its slot
\* was given back.
ItemOf(s) ==
    IF s.by = "keyboard"
    THEN LET k == IF s.ext THEN scancodes2_other[s.code] ELSE scancodes2[s.code]
         IN  IF k = "none" /\ ~s.up THEN Nothing ELSE [key |-> k, up |-> s.up]
    ELSE IF s.overflow THEN Nothing ELSE [x |-> s.x, y |-> s.y]

Content == [i \in 1..(end + N - start) % N |-> ring[(start + i - 1) % N]]

\* What has not been read, and what the last read has returned or will when the
\* event is copied.
Flushing == pc["ioctl"] = "flush"
Unread == IF Flushing THEN <<>> ELSE Content
Returned == IF pc["ioctl"] \in {"copy x", "copy y"} THEN ring[key["ioctl"]] ELSE got

Abstract == INSTANCE EventQueue WITH
    Cap <- N - 1, Item <- ItemOf,
    queue <- Unread, got <- Returned, flushing <- Flushing

ImplementsQueue == Abstract!Spec

\* However a line is read in pieces, the pieces are the line as it was
\* edited, shifted and ended by return.
LineDelivered ==
    "console" \in users /\ pc["console"] = "idle" /\ nlinebuf = 0 /\ out # <<>>
        => out = Append(text, "newline")
=============================================================================
