--------------------------------- MODULE Wm ---------------------------------
(***************************************************************************)
(* The window manager (bin/wm) and the library its clients call (lib/wm.c): *)
(* the resources, the stack of windows, the focus, the events and what has *)
(* to be drawn.                                                            *)
(*                                                                         *)
(* A client waits for the answer to its message and the server handles one *)
(* message at a time (module Channel), so that a call is one action: the   *)
(* message is handled, and the server goes on to its input and to drawing. *)
(*                                                                         *)
(* The screen and the windows have one dimension; of what is drawn there is *)
(* only the order in which the windows were painted.                       *)
(*                                                                         *)
(* A client may call for anything it owns, at any time and in any order, and *)
(* the server does not look at who asks: the calls of one client are those *)
(* of several, each with its windows.                                      *)
(*                                                                         *)
(* Bounds: clients name their own images and windows; they move a window to *)
(* the top section or the bottom section only from where the code expects  *)
(* it (StackBound); the server reads fewer than MAX_EVENTS events at once. *)
(***************************************************************************)
EXTENDS Integers, Sequences, FiniteSets, SequencesExt, FiniteSetsExt

CONSTANTS
    Clients,       \* the programs
    MAX_RESOURCES, \* resources are 1..MAX_RESOURCES-1; 0 is WM_NULL
    RING,          \* WINDOW_RESOURCE_MAX_EVENTS
    Width,         \* of the screen
    Size,          \* of a window
    Places,        \* where clients put their windows
    None

ASSUME WmAssumption ==
    /\ MAX_RESOURCES \in Nat \ {0} /\ RING \in Nat \ {0} /\ Size \in Nat
    /\ Width \in Nat /\ Places \subseteq 0..Width
    /\ None \notin {"image", "window"}

VARIABLES
    res,     \* [id -> resource]
    desk,    \* stack of windows, focus, events, what has to be drawn
    painted, \* [id -> the windows painted no later than it, if it is on the screen]
    input,   \* buttons and keys held, as the server knows them
    phase    \* "message" or "events"

vars == <<res, desk, painted, input, phase>>

Ids == 1..MAX_RESOURCES-1
Free == [type |-> None]

Init ==
    /\ res = [id \in Ids |-> Free]
    /\ desk = [stack |-> <<>>, center |-> 0, above |-> 0, focus |-> 0, oldfocus |-> 0,
               draw |-> FALSE, moved |-> FALSE, cursor |-> Width \div 2]
    /\ painted = [id \in Ids |-> {}]
    /\ input = [ctrl |-> FALSE, button |-> FALSE]
    /\ phase = "message"

Windows == {id \in Ids : res[id].type = "window"}
Images == {id \in Ids : res[id].type = "image"}
Own(p) == {id \in Windows \cup Images : res[id].owner = p}

-----------------------------------------------------------------------------
(* Resources.                                                              *)

\* server_create_resource: the first id that is free, 0 if there is none.
NewId == LET free == {id \in Ids : res[id].type = None} IN IF free = {} THEN 0 ELSE Min(free)

Image(p, cls) == [type |-> "image", owner |-> p, cls |-> cls, refcnt |-> 0]

Window(p) == [type |-> "window", owner |-> p, x |-> 0, width |-> 0, image |-> 0,
              layer |-> "center", events |-> <<>>]

\* The images a window shows count their windows: the image of w becomes i.
Reimaged(r, w, i) ==
    LET old == r[w].image
    IN [id \in Ids |->
          IF id = w THEN [r[w] EXCEPT !.image = i]
          ELSE IF r[id].type # "image" THEN r[id]
          ELSE [r[id] EXCEPT !.refcnt = @ - (IF id = old THEN 1 ELSE 0)
                                          + (IF id = i THEN 1 ELSE 0)]]

-----------------------------------------------------------------------------
(* The stack: windows always below, then the others up to the top, then     *)
(* windows always above; center and above are the sizes of the first and of *)
(* the first two sections.                                                 *)

\* Bottom and top of the middle section, 0 if it is empty.
BottomCenter(d) == IF d.center < d.above THEN d.stack[d.center + 1] ELSE 0
TopCenter(d) == IF d.center < d.above THEN d.stack[d.above] ELSE 0

Focused(d, w) == [d EXCEPT !.oldfocus = d.focus, !.focus = w, !.draw = TRUE]

\* window_resource_new: on top of the middle section.
Pushed(d, w) ==
    Focused([d EXCEPT !.stack = InsertAt(@, d.above + 1, w), !.above = @ + 1], w)

\* Seeded fault: a window of the middle section, too, is taken for one below.
SectionsFault(d, i) == [d EXCEPT !.center = IF @ > 0 THEN @ - 1 ELSE 0,
                                 !.above = IF i <= @ THEN @ - 1 ELSE @]

\* The sections without the window at i.
Sections(d, i) == [d EXCEPT !.center = IF i <= @ THEN @ - 1 ELSE @,
                            !.above = IF i <= @ THEN @ - 1 ELSE @]

\* Where window w is on the stack.
PlaceOf(d, w) == CHOOSE j \in DOMAIN d.stack : d.stack[j] = w

\* window_resource_free: the focus goes to the top of the middle section.
Dropped(d, w) ==
    LET i == PlaceOf(d, w)
        rest == [Sections(d, i) EXCEPT !.stack = RemoveAt(@, i)]
    IN IF d.focus = w THEN Focused(rest, TopCenter(rest)) ELSE rest

\* The window at i of the middle section is raised to its top.
Raised(d, i) ==
    [d EXCEPT !.stack = InsertAt(RemoveAt(@, i), d.above, d.stack[i])]

\* The bound StackBound: the loops that move the windows between expect w on
\* top of the middle section and alone in it, or, if it goes above, with one
\* more, which gets the focus.
StackBound(d, w, layer) ==
    /\ layer # "center" => w = TopCenter(d)
    /\ layer = "below" => d.center + 1 = d.above
    /\ layer = "above" => d.center + 2 >= d.above

\* The stack after w has been moved to a section.
Layered(d, w, layer) ==
    LET d1 == CASE layer = "below" -> [d EXCEPT !.center = @ + 1]
                [] layer = "above" ->
                     [d EXCEPT !.stack = Append(RemoveAt(@, d.above), w), !.above = @ - 1]
                [] layer = "center" -> d
    IN IF d.focus = w /\ layer # "center" THEN Focused(d1, BottomCenter(d1))
       ELSE [d1 EXCEPT !.draw = TRUE]

-----------------------------------------------------------------------------
(* Calls.  server_update takes a message of client p, and goes on.         *)

Message(p) == phase = "message" /\ phase' = "events" /\ UNCHANGED input

\* No message in time.
Timeout == phase = "message" /\ phase' = "events"
           /\ UNCHANGED <<res, desk, painted, input>>

\* wm_create_image; the answer is 0 if there is no resource left.
CreateImage(p, cls) ==
    /\ Message(p)
    /\ NewId # 0
    /\ res' = [res EXCEPT ![NewId] = Image(p, cls)]
    /\ UNCHANGED <<desk, painted>>

\* wm_create_window
CreateWindow(p) ==
    /\ Message(p)
    /\ NewId # 0
    /\ res' = [res EXCEPT ![NewId] = Window(p)]
    /\ desk' = Pushed(desk, NewId)
    /\ UNCHANGED painted

\* Seeded fault: an image is destroyed although a window shows it.
InUseFault(i) == FALSE

InUse(i) == res[i].refcnt # 0

\* wm_destroy_image, which does not tell whether it was refused.
DestroyImage(p, i) ==
    /\ Message(p)
    /\ i \in Own(p) \cap Images
    /\ res' = IF InUse(i) THEN res ELSE [res EXCEPT ![i] = Free]
    /\ UNCHANGED <<desk, painted>>

\* wm_destroy_window
DestroyWindow(p, w) ==
    /\ Message(p)
    /\ w \in Own(p) \cap Windows
    /\ res' = [Reimaged(res, w, 0) EXCEPT ![w] = Free]
    /\ desk' = Dropped(desk, w)
    /\ painted' = [v \in Ids |-> IF v = w THEN {} ELSE painted[v] \ {w}]

\* wm_set_window_attributes with the position, of a dragged window; refused if
\* the window has lost the focus.
MoveWindow(p, w, x) ==
    /\ Message(p)
    /\ w \in Own(p) \cap Windows
    /\ IF desk.focus = w
       THEN /\ res' = [res EXCEPT ![w].x = x]
            /\ desk' = [desk EXCEPT !.draw = TRUE, !.moved = TRUE]
       ELSE UNCHANGED <<res, desk>>
    /\ UNCHANGED painted

\* wm_set_window_attributes with the image; refused if it is for drawing only.
SetImage(p, w, i) ==
    /\ Message(p)
    /\ w \in Own(p) \cap Windows /\ i \in Own(p) \cap Images
    /\ IF res[i].cls = "window"
       THEN /\ res' = Reimaged(res, w, i)
            /\ desk' = [desk EXCEPT !.draw = @ \/ desk.focus = w]
       ELSE UNCHANGED <<res, desk>>
    /\ UNCHANGED painted

\* wm_set_window_attributes with everything, of a window that is presented;
\* the parts are done in order up to the first that is refused.
Present(p, w, x, i, layer) ==
    /\ Message(p)
    /\ w \in Own(p) \cap Windows /\ i \in Own(p) \cap Images
    /\ StackBound(desk, w, layer)
    /\ IF desk.focus # w THEN UNCHANGED <<res, desk>>
       ELSE LET r1 == [res EXCEPT ![w].x = x, ![w].width = Size]
                d1 == [desk EXCEPT !.draw = TRUE, !.moved = TRUE]
            IN IF res[i].cls # "window" THEN res' = r1 /\ desk' = d1
               ELSE IF res[w].layer # "center"
                    THEN res' = Reimaged(r1, w, i) /\ desk' = d1
               ELSE /\ res' = Reimaged([r1 EXCEPT ![w].layer = layer], w, i)
                    /\ desk' = Layered(d1, w, layer)
    /\ UNCHANGED painted

\* wm_post_window, which has the focused window drawn.
PostWindow(p, w) ==
    /\ Message(p)
    /\ w \in Own(p) \cap Windows
    /\ desk' = [desk EXCEPT !.draw = TRUE]
    /\ UNCHANGED <<res, painted>>

\* wm_get_queued_window_events returns all that are queued.
GetEvents(p, w) ==
    /\ Message(p)
    /\ w \in Own(p) \cap Windows
    /\ res' = [res EXCEPT ![w].events = <<>>]
    /\ UNCHANGED <<desk, painted>>

\* A client ends, with or without wm_close: what it owned stays, owned by nobody.
Forget(p) ==
    /\ Message(p)
    /\ Own(p) # {}
    /\ res' = [id \in Ids |-> IF id \in Own(p) THEN [res[id] EXCEPT !.owner = None] ELSE res[id]]
    /\ UNCHANGED <<desk, painted>>

-----------------------------------------------------------------------------
(* Input.  An event is [type, action, move]; state is [res, desk].          *)

Inside(s, w, x) == x - s.res[w].x \in 0..s.res[w].width - 1

\* Where the topmost window under x is in the stack, 0 if there is none.
Hit(s, x) ==
    LET under == {i \in DOMAIN s.desk.stack : Inside(s, s.desk.stack[i], x)}
    IN IF under = {} THEN 0 ELSE Max(under)

\* window_resource_get_last_event: a ring that is full is empty.  (Of the events,
\* only how many there are.)
Queued(s, w, e) ==
    IF w = 0 THEN s
    ELSE [s EXCEPT !.res[w].events = IF Len(@) = RING - 1 THEN <<>> ELSE Append(@, None)]

Clamped(x) == IF x < 0 THEN 0 ELSE IF x > Width THEN Width ELSE x

\* screen_process_event, after which a motion is where the pointer would be
\* without the edges of the screen, then window_process_event: a press raises
\* the window it hits, and what hits no window is for the focused one.
Processed(e, s) ==
    LET d == s.desk
        at == d.cursor + (IF e.type = "motion" THEN e.move ELSE 0)
        i == IF e.type = "motion" \/ <<e.type, e.action>> = <<"button", "pressed">>
             THEN Hit(s, at) ELSE 0
        raise == e.type = "button" /\ i \in d.center + 1 .. d.above
                 /\ d.stack[i] # d.focus
        d1 == IF e.type = "motion" THEN [d EXCEPT !.cursor = Clamped(at)] ELSE d
        d2 == IF raise THEN Raised(Focused(d1, d.stack[i]), i) ELSE d1
    IN Queued([s EXCEPT !.desk = d2], IF i = 0 THEN d.focus ELSE d.stack[i], e)

Event(type, action, move) == [type |-> type, action |-> action, move |-> move]

\* The events of a key: with the left control key down, arrows move the pointer
\* and return clicks.
KeyEvents(key, action) ==
    LET emulated == input.ctrl /\ action = "pressed"
    IN <<Event("key", action, 0)>> \o
       (CASE emulated /\ key = "left" -> <<Event("motion", None, -1)>>
          [] emulated /\ key = "right" -> <<Event("motion", None, 1)>>
          [] emulated /\ key = "return" ->
               <<Event("button", "pressed", 0), Event("button", "released", 0)>>
          [] OTHER -> <<>>)

\* The events of a packet of the mouse: it has moved, or the button has changed.
MouseEvents(move, button) ==
    (IF move = 0 THEN <<>> ELSE <<Event("motion", None, move)>>) \o
    (IF button = input.button THEN <<>>
     ELSE <<Event("button", IF button THEN "pressed" ELSE "released", 0)>>)

\* process_event for each of them; a key or a packet makes no more than three.
Process(events) ==
    LET after(s, n) == IF n <= Len(events) THEN Processed(events[n], s) ELSE s
        s3 == after(after(after([res |-> res, desk |-> desk], 1), 2), 3)
    IN res' = s3.res /\ desk' = s3.desk

Key(key, action) ==
    /\ phase = "events"
    /\ input' = [input EXCEPT !.ctrl = IF key = "ctrl" THEN action = "pressed" ELSE @]
    /\ Process(KeyEvents(key, action))
    /\ UNCHANGED <<painted, phase>>

Mouse(move, button) ==
    /\ phase = "events"
    /\ input' = [input EXCEPT !.button = button]
    /\ Process(MouseEvents(move, button))
    /\ UNCHANGED <<painted, phase>>

-----------------------------------------------------------------------------
(* Drawing.                                                                *)

OnScreen == {w \in Ids : painted[w] # {}}

\* painted after the windows of s have been painted, one after another.
PaintedOver(s) ==
    [w \in Ids |->
       IF w \in Range(s)
       THEN (OnScreen \ Range(s))
            \cup {v \in Range(s) : \E i, j \in DOMAIN s : i <= j /\ s[i] = v /\ s[j] = w}
       ELSE painted[w] \ Range(s)]

\* Seeded fault: only what has been moved has everything drawn again.
AllFault == desk.moved

All == desk.focus # desk.oldfocus \/ desk.moved

\* window_update: everything, up to a window without an image, which is tried
\* again the next time, or the focused window.
Redraw ==
    LET bare == {i \in DOMAIN desk.stack : res[desk.stack[i]].image = 0}
        first == IF bare = {} THEN Len(desk.stack) + 1 ELSE Min(bare)
        done == [desk EXCEPT !.oldfocus = desk.focus, !.draw = FALSE, !.moved = FALSE]
    IN CASE ~desk.draw -> UNCHANGED <<painted, desk>>
         [] desk.draw /\ All ->
              /\ painted' = PaintedOver(SubSeq(desk.stack, 1, first - 1))
              /\ desk' = IF bare = {} THEN done ELSE desk
         [] desk.draw /\ ~All ->
              /\ painted' = IF desk.focus # 0 /\ res[desk.focus].image # 0
                            THEN PaintedOver(<<desk.focus>>) ELSE painted
              /\ desk' = done

\* The end of server_update.
Update ==
    /\ phase = "events"
    /\ phase' = "message"
    /\ Redraw
    /\ UNCHANGED <<res, input>>

Layers == {"below", "center", "above"}

Next ==
    \/ Timeout \/ Update
    \/ \E p \in Clients :
         \/ \E cls \in {"image", "window"} : CreateImage(p, cls)
         \/ CreateWindow(p)
         \/ Forget(p)
         \/ \E i \in Own(p) : DestroyImage(p, i)
         \/ \E w \in Own(p) :
              \/ DestroyWindow(p, w) \/ PostWindow(p, w) \/ GetEvents(p, w)
              \/ \E x \in Places : MoveWindow(p, w, x)
              \/ \E i \in Own(p) : SetImage(p, w, i)
              \/ \E x \in Places, i \in Own(p), layer \in Layers : Present(p, w, x, i, layer)
    \/ \E key \in {"ctrl", "left", "right", "return"}, action \in {"pressed", "released"} :
         Key(key, action)
    \/ \E move \in {-1, 0, 1}, button \in BOOLEAN : Mouse(move, button)

Spec == Init /\ [][Next]_vars

-----------------------------------------------------------------------------
(* Properties.                                                             *)

\* The stack holds every window once, in the section its attribute says, and the
\* top of the middle section has the focus, if there is any: window.c keeps it
\* in four variables that eight functions move by one.
StackSorted ==
    LET n == Len(desk.stack)
        layer(i) == IF i <= desk.center THEN "below" ELSE IF i <= desk.above THEN "center" ELSE "above"
    IN /\ 0 <= desk.center /\ desk.center <= desk.above /\ desk.above <= n
       /\ IsInjective(desk.stack) /\ Range(desk.stack) = Windows
       /\ \A i \in 1..n : res[desk.stack[i]].layer = layer(i)
       /\ desk.focus = TopCenter(desk)

\* What a window shows is an image that exists and was made for windows, and an
\* image counts the windows that show it: ids are used again, and clients destroy
\* images and windows in any order and leave what they like.
ImagesKept ==
    /\ \A w \in Windows : res[w].image # 0 =>
         res[w].image \in Images /\ res[res[w].image].cls = "window"
    /\ \A i \in Images : res[i].refcnt = Cardinality({w \in Windows : res[w].image = i})

\* When nothing has to be drawn, the focused window is on the screen and has been
\* painted after all windows that are below it: the keys go to what the user sees
\* on top.
OnTop ==
    desk.focus # 0 /\ ~desk.draw =>
        /\ desk.focus \in OnScreen
        /\ \A i \in 1..desk.above :
              LET w == desk.stack[i] IN
              w # desk.focus /\ w \in OnScreen =>
                  w \in painted[desk.focus] /\ desk.focus \notin painted[w]
=============================================================================
