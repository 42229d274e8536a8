-------------------------------- MODULE EasyUi --------------------------------
(***************************************************************************)
(* The widgets of easyui (include/easyui.h) and the way events become      *)
(* calls of a program's handlers.                                          *)
(*                                                                         *)
(* One event of the window (a mouse event, a key, ...) is handled by C     *)
(* functions that call handlers in several places and go on afterwards     *)
(* with the widget they were called for.  A handler may call the library:  *)
(* hide, disable, remove or create widgets, move the focus, set values,    *)
(* and so run further handlers.  `todo` is what is left to do, the next    *)
(* thing first: it is the C stack.  Each step of a C function between two  *)
(* calls of handlers is one action.                                        *)
(*                                                                         *)
(* Every widget may have a handler for every event; one that does nothing  *)
(* stands for none.  ONCE follows ONCLICK at once and is part of it, and   *)
(* timers and the events of the window are like ONFRAME.  A widget's place *)
(* in the window is its id: widgets do not overlap.  Where in a widget the *)
(* mouse is, scrolling, texts and what is painted are left out.  The file  *)
(* picker works on folders that other programs change meanwhile.           *)
(***************************************************************************)
EXTENDS EuiPicker

CONSTANTS
    MaxWidgets,  \* EASYUI_MAX_WIDGETS
    Windows,     \* what programs have made before the first event
    MaxValue,    \* bound: the range of sliders, the length of lists
    MaxCalls     \* bound: calls that handlers make during one event

ASSUME WidgetsAssumption == MaxWidgets \in Nat \ {0}
ASSUME BoundsAssumption == MaxValue \in Nat \ {0} /\ MaxCalls \in Nat

VARIABLES
    w,        \* eui_w, without its slot 0, the window
    focus,    \* eui_focus
    hover,    \* eui_hover
    pressed,  \* eui_pressed
    open,     \* eui_open: the dropdown whose list is shown
    message,  \* eui_msg_active
    picker,   \* eui_pick_active
    down,     \* the left button in eui_buttons
    pk,       \* eui_pk
    files,    \* paths of the files and folders there are
    todo,     \* what is left of the event
    calls,    \* calls of handlers so far
    kinds,    \* kinds of widgets that handlers create
    allowed,  \* what handlers call
    picks,    \* modes of the pickers that handlers open
    paths,    \* bound: the files and folders that come and go
    nested,   \* a radio button was selected while another one was (history)
    reused    \* a widget was made in a slot that todo still names (history)

pointers == <<focus, hover, pressed, open>>
dialog == <<pk, files>>
modes == <<message, picker, down, dialog>>
history == <<nested, reused>>
program == <<kinds, allowed, picks, paths>>
vars == <<w, pointers, modes, todo, calls, program, history>>

Ids == 1..MaxWidgets

Lists == {"DROPDOWN", "LISTBOX"}
FocusKinds == {"BUTTON", "SLIDER", "CHECKBOX", "RADIO", "TEXTINPUT"} \cup Lists
Kinds == FocusKinds \cup {"PANEL", "CANVAS"}
Groups == {0, 1}
Events == {"PRESS", "RELEASE", "CLICK", "CHANGE", "SUBMIT", "HOVER", "LEAVE", "FOCUS", "BLUR",
           "KEY", "FRAME", "WHEEL", "PICKED"}
Steps == {"fire", "handler", "press", "pressed", "grab", "release", "released", "activate",
          "radio", "change", "drag", "lost", "letgo"}
CallNames == {"enable", "show", "focus", "value", "items", "remove", "create", "message", "pick"}

\* An unused slot is all zeros.
Unused == [kind |-> "NONE", visible |-> FALSE, enabled |-> FALSE, value |-> 0, group |-> 0, count |-> 0]

Widget(kind, value, group, count) ==
    [kind |-> kind, visible |-> TRUE, enabled |-> TRUE, value |-> value, group |-> group, count |-> count]

Step(do, id, event, n) == [do |-> do, id |-> id, event |-> event, n |-> n]
Fire(id, event) == Step("fire", id, event, 0)
Do(do, id, n) == Step(do, id, "", n)

ASSUME WindowsAssumption ==
    \A window \in Windows :
        /\ \A id \in Ids :
            \/ window.widgets[id] = Unused
            \/ \E kind \in Kinds, value \in (-1)..MaxValue, group \in Groups, count \in 0..MaxValue :
                  /\ window.widgets[id] = Widget(kind, value, group, count)
                  /\ kind \in Lists => value < count
        /\ \A i, k \in Ids :
              LET a == window.widgets[i]  b == window.widgets[k] IN
              /\ a.kind = "RADIO" /\ a.value # 0
              /\ b.kind = "RADIO" /\ b.value # 0
              /\ a.group = b.group
              => i = k
        /\ window.widgets = [id \in Ids |-> window.widgets[id]]
        /\ window.kinds \subseteq Kinds /\ window.calls \subseteq CallNames
        /\ window.picks \subseteq Modes /\ window.paths \subseteq Folders \cup Files

\* Steps that go on with a widget name one; those of the loop over the radio
\* buttons also where it is.
ForWidgets == {"pressed", "grab", "released", "activate", "radio", "change"}
StepRecords ==
    {s \in [do : Steps, id : 0..MaxWidgets, event : Events \cup {""}, n : Int] :
        /\ s.do \in ForWidgets => s.id # 0
        /\ s.do = "radio" => s.n \in 1..(MaxWidgets + 1)}

TypeOK ==
    /\ w \in [Ids -> [kind : Kinds \cup {"NONE"}, visible : BOOLEAN, enabled : BOOLEAN,
                      value : (-1)..MaxValue, group : Groups, count : 0..MaxValue]]
    /\ focus \in 0..MaxWidgets /\ hover \in 0..MaxWidgets
    /\ pressed \in 0..MaxWidgets /\ open \in 0..MaxWidgets
    /\ message \in BOOLEAN /\ picker \in BOOLEAN /\ down \in BOOLEAN
    /\ paths \subseteq Folders \cup Files /\ files \subseteq paths /\ picks \subseteq Modes
    /\ pk.mode \in Modes \cup {"none"} /\ pk.selected \in 0..Len(pk.entries)
    /\ todo \in Seq(StepRecords)
    /\ calls \in 0..MaxCalls
    /\ kinds \subseteq Kinds /\ allowed \subseteq CallNames
    /\ nested \in BOOLEAN /\ reused \in BOOLEAN

Valid(id) == id \in Ids /\ w[id].kind # "NONE"
Kind(id) == w[id].kind

\* eui_focusable with the widgets of `ws`
FocusableIn(ws, id) == id \in Ids /\ ws[id].kind \in FocusKinds /\ ws[id].visible /\ ws[id].enabled

Init ==
    /\ \E window \in Windows :
        /\ w = window.widgets /\ kinds = window.kinds /\ allowed = window.calls
        /\ picks = window.picks /\ paths = window.paths /\ files = paths
    /\ focus = 0 /\ hover = 0 /\ pressed = 0 /\ open = 0
    /\ message = FALSE /\ picker = FALSE /\ down = FALSE
    /\ pk = NoPick
    /\ todo = <<>> /\ calls = 0
    /\ nested = FALSE /\ reused = FALSE

-----------------------------------------------------------------------------
(* Functions that are called from several places.                          *)

\* eui_set_focus once the widgets are `ws` and the open list is `list`;
\* `rest` is what the caller does afterwards.
SetFocus(ws, asked, list, rest) ==
    LET id == IF FocusableIn(ws, asked) THEN asked ELSE 0 IN
    IF id = focus
    THEN focus' = focus /\ open' = list /\ todo' = rest
    ELSE /\ focus' = id
         /\ open' = IF list = id THEN list ELSE 0
         /\ todo' = (IF focus # 0 THEN <<Fire(focus, "BLUR")>> ELSE <<>>)
                    \o (IF id # 0 THEN <<Fire(id, "FOCUS")>> ELSE <<>>) \o rest

\* eui_clampv
Clamp(v) == IF v < 0 THEN 0 ELSE IF v > MaxValue THEN MaxValue ELSE v

\* The first step of eui_select_radio, and whether one is under way.
Select(id) == Do("radio", id, 1)
Selecting(steps) == \E k \in 1..Len(steps) : steps[k].do = "radio" /\ steps[k].n > 1

\* Bug: a popup stays when its widget goes.
RemoveKeepsOpen(id) ==
    /\ w' = [w EXCEPT ![id] = Unused]
    /\ focus' = IF focus = id THEN 0 ELSE focus
    /\ hover' = IF hover = id THEN 0 ELSE hover
    /\ pressed' = IF pressed = id THEN 0 ELSE pressed
    /\ UNCHANGED open

\* eui_remove
RemoveWidget(id) ==
    /\ w' = [w EXCEPT ![id] = Unused]
    /\ focus' = IF focus = id THEN 0 ELSE focus
    /\ hover' = IF hover = id THEN 0 ELSE hover
    /\ pressed' = IF pressed = id THEN 0 ELSE pressed
    /\ open' = IF open = id THEN 0 ELSE open

\* eui_new and the eui_create functions: the first free slot.
FreshValue(kind, group) ==
    CASE kind = "RADIO" -> IF \E i \in Ids : w[i].kind = "RADIO" /\ w[i].group = group THEN 0 ELSE 1
      [] kind \in Lists -> -1
      [] OTHER -> 0

-----------------------------------------------------------------------------
(* What a handler does.                                                    *)

Rest == Tail(todo)
Now(do) == todo # <<>> /\ Head(todo).do = do
Id == Head(todo).id

\* eui_fire: a widget that is gone gets no event.
FireStep ==
    /\ Now("fire")
    /\ todo' = IF Id = 0 \/ Valid(Id) THEN <<[Head(todo) EXCEPT !.do = "handler"]>> \o Rest ELSE Rest
    /\ UNCHANGED <<w, pointers, modes, calls, program, history>>

Return ==
    /\ Now("handler")
    /\ todo' = Rest
    /\ UNCHANGED <<w, pointers, modes, calls, program, history>>

\* A call from inside a handler.
Call(name) ==
    /\ Now("handler")
    /\ name \in allowed
    /\ calls < MaxCalls
    /\ calls' = calls + 1
    /\ UNCHANGED program

\* Bug: disabling leaves the focus where it is.
CallSetEnabledOnly ==
    /\ Call("enable")
    /\ \E id \in Ids, on \in BOOLEAN :
        /\ Valid(id)
        /\ w' = [w EXCEPT ![id].enabled = on]
    /\ UNCHANGED <<pointers, todo, modes, history>>

CallSetEnabled ==
    /\ Call("enable")
    /\ \E id \in Ids, on \in BOOLEAN :
        /\ Valid(id)
        /\ w' = [w EXCEPT ![id].enabled = on]
        /\ IF ~on /\ focus = id THEN SetFocus(w', 0, open, todo) ELSE UNCHANGED <<focus, open, todo>>
    /\ UNCHANGED <<hover, pressed, modes, history>>

CallSetVisible ==
    /\ Call("show")
    /\ \E id \in Ids, on \in BOOLEAN :
        LET list == IF ~on /\ open = id THEN 0 ELSE open IN
        /\ Valid(id)
        /\ w' = [w EXCEPT ![id].visible = on]
        /\ IF ~on /\ focus = id THEN SetFocus(w', 0, list, todo)
                                ELSE open' = list /\ UNCHANGED <<focus, todo>>
    /\ UNCHANGED <<hover, pressed, modes, history>>

CallSetFocus ==
    /\ Call("focus")
    /\ \E id \in 0..MaxWidgets : SetFocus(w, id, open, todo)
    /\ UNCHANGED <<w, hover, pressed, modes, history>>

\* eui_setvalue
CallSetValue ==
    /\ Call("value")
    /\ \E id \in Ids, v \in (-1)..MaxValue :
        /\ Valid(id)
        /\ CASE Kind(id) = "RADIO" /\ v # 0 -> todo' = <<Select(id)>> \o todo
             [] Kind(id) = "CHECKBOX" \/ (Kind(id) = "RADIO" /\ v = 0) ->
                    todo' = <<Do("change", id, IF v # 0 THEN 1 ELSE 0)>> \o todo
             [] Kind(id) \in Lists -> v < w[id].count /\ todo' = <<Do("change", id, v)>> \o todo
             [] OTHER -> todo' = <<Do("change", id, v)>> \o todo
        /\ nested' = (nested \/ (Kind(id) = "RADIO" /\ Selecting(todo)))
    /\ UNCHANGED <<w, pointers, modes, reused>>

\* Bug: the selection stays when the items go.
CallItemsKeepsValue ==
    /\ Call("items")
    /\ \E id \in Ids :
        /\ Valid(id) /\ Kind(id) \in Lists
        /\ \/ w[id].count < MaxValue /\ w' = [w EXCEPT ![id].count = @ + 1]
           \/ w' = [w EXCEPT ![id].count = 0]
    /\ UNCHANGED <<pointers, modes, todo, history>>

\* eui_additem and eui_clearitems
CallItems ==
    /\ Call("items")
    /\ \E id \in Ids :
        /\ Valid(id) /\ Kind(id) \in Lists
        /\ \/ w[id].count < MaxValue /\ w' = [w EXCEPT ![id].count = @ + 1]
           \/ w' = [w EXCEPT ![id].count = 0, ![id].value = -1]
    /\ UNCHANGED <<pointers, modes, todo, history>>

CallRemove ==
    /\ Call("remove")
    /\ \E id \in Ids : Valid(id) /\ RemoveWidget(id)
    /\ UNCHANGED <<modes, todo, history>>

CallCreate ==
    /\ Call("create")
    /\ \E id \in Ids, kind \in kinds, group \in Groups :
        /\ ~Valid(id) /\ \A i \in 1..(id - 1) : Valid(i)
        /\ kind # "RADIO" => group = 0
        /\ w' = [w EXCEPT ![id] = Widget(kind, FreshValue(kind, group), group, 0)]
        /\ reused' = (reused \/ \E k \in 1..Len(todo) :
                                   todo[k].id = id /\ todo[k].do \notin {"fire", "handler"})
    /\ UNCHANGED <<pointers, modes, todo, nested>>

\* eui_messagebox
CallMessage ==
    /\ Call("message")
    /\ message' = TRUE /\ open' = 0 /\ pressed' = 0
    /\ UNCHANGED <<w, focus, hover, picker, down, dialog, todo, history>>

\* eui_pick_start: widgets let go of the pointer after ONLEAVE.
CallPick ==
    /\ Call("pick")
    /\ ~picker /\ picker' = TRUE
    /\ \E mode \in picks, name \in Typed \cup {NoName} :
        /\ mode # "save" => name = NoName
        /\ pk' = Pick(mode, name, NoPath)
    /\ todo' = (IF Valid(hover) THEN <<Fire(hover, "LEAVE")>> ELSE <<>>) \o <<Do("letgo", 0, 0)>> \o todo
    /\ UNCHANGED <<w, pointers, message, down, files, history>>

\* Bug: the picker takes over with a widget still under the pointer.
LetGoNothing ==
    /\ Now("letgo")
    /\ pressed' = 0 /\ open' = 0
    /\ pk' \in Opening(files, pk)
    /\ todo' = Rest
    /\ UNCHANGED <<w, focus, hover, message, picker, down, files, calls, program, history>>

LetGo ==
    /\ Now("letgo")
    /\ hover' = 0 /\ pressed' = 0 /\ open' = 0
    /\ pk' \in Opening(files, pk)
    /\ todo' = Rest
    /\ UNCHANGED <<w, focus, message, picker, down, files, calls, program, history>>

HandlerStep ==
    \/ FireStep \/ Return \/ CallSetEnabled \/ CallSetVisible \/ CallSetFocus \/ CallSetValue
    \/ CallItems \/ CallRemove \/ CallCreate \/ CallMessage \/ CallPick \/ LetGo

-----------------------------------------------------------------------------
(* Values.                                                                 *)

\* eui_change.  It is also reached for a slot that has been emptied.
Change ==
    /\ Now("change")
    /\ LET v == IF Kind(Id) = "SLIDER" THEN Clamp(Head(todo).n) ELSE Head(todo).n IN
       IF v = w[Id].value
       THEN todo' = Rest /\ UNCHANGED w
       ELSE /\ w' = [w EXCEPT ![Id].value = v]
            /\ todo' = <<Fire(Id, "CHANGE")>> \o Rest
    /\ UNCHANGED <<pointers, modes, calls, program, history>>

\* Bug: the loop only looks at what comes after the button.
RivalsAfter(id, n) ==
    {i \in n..MaxWidgets : i > id /\ Kind(i) = "RADIO" /\ w[i].group = w[id].group /\ w[i].value # 0}

\* Radio buttons from n on that the one at id still has to clear.
Rivals(id, n) ==
    {i \in n..MaxWidgets : i # id /\ Kind(i) = "RADIO" /\ w[i].group = w[id].group /\ w[i].value # 0}

\* The loop of eui_select_radio.  The group is read again in each pass,
\* from a slot that a handler may have emptied.
Radio ==
    /\ Now("radio")
    /\ IF Rivals(Id, Head(todo).n) = {}
       THEN todo' = <<Do("change", Id, 1)>> \o Rest /\ UNCHANGED w
       ELSE \E i \in Rivals(Id, Head(todo).n) :
              /\ \A k \in Rivals(Id, Head(todo).n) : i <= k
              /\ w' = [w EXCEPT ![i].value = 0]
              /\ todo' = <<Fire(i, "CHANGE"), Do("radio", Id, i + 1)>> \o Rest
    /\ UNCHANGED <<pointers, modes, calls, program, history>>

\* eui_activate, after the checks of its callers.
ActivateNow(id) ==
    /\ todo' = (CASE Kind(id) = "CHECKBOX" -> <<Do("change", id, 1 - w[id].value)>>
                  [] Kind(id) = "RADIO" -> <<Select(id)>>
                  [] OTHER -> <<>>) \o <<Fire(id, "CLICK")>> \o Rest
    /\ nested' = (nested \/ (Kind(id) = "RADIO" /\ Selecting(Rest)))

\* From a key.
Activate ==
    /\ Now("activate")
    /\ IF Valid(Id) THEN ActivateNow(Id) ELSE todo' = Rest /\ UNCHANGED nested
    /\ UNCHANGED <<w, pointers, modes, calls, program, reused>>

\* From eui_release, once ONRELEASE is over.
Released ==
    /\ Now("released")
    /\ IF Valid(Id) /\ w[Id].enabled THEN ActivateNow(Id) ELSE todo' = Rest /\ UNCHANGED nested
    /\ UNCHANGED <<w, pointers, modes, calls, program, reused>>

-----------------------------------------------------------------------------
(* The mouse.                                                              *)

\* eui_hit
Hit(place) == IF Valid(place) /\ w[place].visible THEN place ELSE 0

\* eui_press, up to ONFOCUS.  A click into the open list chooses a row and
\* goes no further, one on its dropdown only closes the list.
Press ==
    /\ Now("press")
    /\ \/ /\ open # 0
          /\ open' = 0
          /\ \/ todo' = Rest
             \/ \E row \in 0..(w[open].count - 1) : todo' = <<Do("change", open, row)>> \o Rest
          /\ UNCHANGED <<focus, pressed>>
       \/ /\ open # 0 /\ Id = open
          /\ open' = 0 /\ pressed' = 0 /\ todo' = Rest
          /\ UNCHANGED focus
       \/ /\ open = 0 \/ Id # open
          /\ IF Id = 0 \/ ~w[Id].enabled
             THEN SetFocus(w, 0, 0, Rest) /\ UNCHANGED pressed
             ELSE pressed' = Id /\ SetFocus(w, Id, 0, <<Do("pressed", Id, 0)>> \o Rest)
    /\ UNCHANGED <<w, hover, modes, calls, program, history>>

\* ONPRESS if ONFOCUS has left the widget there.
Pressed ==
    /\ Now("pressed")
    /\ todo' = IF Valid(Id) THEN <<Fire(Id, "PRESS"), Do("grab", Id, 0)>> \o Rest ELSE Rest
    /\ UNCHANGED <<w, pointers, modes, calls, program, history>>

\* The rest of eui_press: what is there by now takes the press.
Grab ==
    /\ Now("grab")
    /\ \/ /\ Kind(Id) = "SLIDER"
          /\ \E v \in 0..MaxValue : todo' = <<Do("change", Id, v)>> \o Rest
          /\ UNCHANGED open
       \/ /\ Kind(Id) = "DROPDOWN"
          /\ open' = Id /\ todo' = Rest
       \/ /\ Kind(Id) = "LISTBOX"
          /\ \E row \in 0..(w[Id].count - 1), double \in BOOLEAN :
                todo' = <<Do("change", Id, row)>>
                        \o (IF double THEN <<Fire(Id, "SUBMIT")>> ELSE <<>>) \o Rest
          /\ UNCHANGED open
       \/ /\ Kind(Id) \notin {"SLIDER", "DROPDOWN"}
          /\ todo' = Rest /\ UNCHANGED open
    /\ UNCHANGED <<w, focus, hover, pressed, modes, calls, program, history>>

\* eui_release
Release ==
    /\ Now("release")
    /\ pressed' = 0
    /\ todo' = IF ~Valid(pressed) THEN Rest
               ELSE <<Fire(pressed, "RELEASE")>>
                    \o (IF Hit(Id) = pressed THEN <<Do("released", pressed, 0)>> ELSE <<>>) \o Rest
    /\ UNCHANGED <<w, focus, hover, open, modes, calls, program, history>>

\* A slider follows the mouse, enabled or not.
Drag ==
    /\ Now("drag")
    /\ IF Valid(pressed) /\ Kind(pressed) = "SLIDER"
       THEN \E v \in 0..MaxValue : todo' = <<Do("change", pressed, v)>> \o Rest
       ELSE todo' = Rest
    /\ UNCHANGED <<w, pointers, modes, calls, program, history>>

MouseStep == Press \/ Pressed \/ Grab \/ Release \/ Drag

-----------------------------------------------------------------------------
(* Events of the window.                                                   *)

\* The event before is over.
Event == todo = <<>> /\ calls' = 0 /\ UNCHANGED program

\* eui_mouse with nothing over the widgets.  While a slider is dragged what
\* is hovered stays.
Mouse ==
    /\ Event /\ ~message /\ ~picker
    /\ \E place \in 0..MaxWidgets, button \in BOOLEAN :
        LET hit == IF pressed # 0 /\ Kind(pressed) = "SLIDER" THEN hover ELSE Hit(place) IN
        /\ down' = button
        /\ hover' = hit
        /\ todo' = (IF hit # hover
                    THEN (IF Valid(hover) THEN <<Fire(hover, "LEAVE")>> ELSE <<>>)
                         \o (IF hit # 0 THEN <<Fire(hit, "HOVER")>> ELSE <<>>)
                    ELSE <<>>)
                   \o (CASE button /\ ~down -> <<Do("press", hit, 0)>>
                         [] ~button /\ down -> <<Do("release", place, 0)>>
                         [] button /\ down -> <<Do("drag", 0, 0)>>
                         [] OTHER -> <<>>)
    /\ UNCHANGED <<w, focus, pressed, open, message, picker, dialog, history>>

\* The OK of a message is clicked when the button comes up.
MouseOnMessage ==
    /\ Event /\ message
    /\ \E button \in BOOLEAN :
        /\ down' = button
        /\ message' = TRUE \/ (~button /\ down /\ message' = FALSE)
    /\ UNCHANGED <<w, pointers, picker, dialog, todo, history>>

\* eui_pick_mouse and eui_pick_key: the picker goes on, or closes and calls
\* `done`.
PickerGoes ==
    /\ picker' = (pk'.mode # "none")
    /\ todo' = IF picker' THEN <<>> ELSE <<Fire(0, "PICKED")>>
    /\ UNCHANGED <<w, pointers, message, files, history>>

PickerMouse ==
    /\ Event /\ picker /\ ~message
    /\ \E button \in BOOLEAN :
        /\ down' = button
        /\ pk' \in IF button /\ ~down THEN Pressing(files, pk) ELSE {pk}
    /\ PickerGoes

PickerKey ==
    /\ Event /\ picker /\ ~message
    /\ pk' \in Keys(files, pk)
    /\ PickerGoes
    /\ UNCHANGED down

\* Another program makes or deletes a file, a folder, or one with what is
\* in it, while a picker is up.
OtherProgram ==
    /\ Event /\ picker
    /\ \E path \in paths :
        files' = IF path \in files THEN {p \in files : ~Within(p, path)} ELSE files \cup {path}
    /\ \A p \in files' : Len(p) > 1 => Parent(p) \in files'
    /\ UNCHANGED <<w, pointers, message, picker, down, pk, todo, history>>

\* eui_wheel.  It asks for the picker, and not for a message.
Wheel ==
    /\ Event /\ ~picker
    /\ LET id == IF open # 0 THEN open ELSE hover IN
       /\ Valid(id)
       /\ \/ Kind(id) = "CANVAS" /\ todo' = <<Fire(id, "WHEEL")>>
          \/ /\ Kind(id) = "SLIDER" /\ w[id].enabled
             /\ \E by \in {-1, 1} : todo' = <<Do("change", id, w[id].value + by)>>
    /\ UNCHANGED <<w, pointers, modes, history>>

\* Enter, Space or Escape.
KeyOnMessage ==
    /\ Event /\ message
    /\ message' = FALSE
    /\ UNCHANGED <<w, pointers, picker, down, dialog, todo, history>>

\* A key goes to the widget with the focus; ONKEY of the widget and of the
\* window come last.
Key(id) == Event /\ ~message /\ ~picker /\ focus = id
AfterKey(id) == (IF id = 0 THEN <<>> ELSE <<Fire(id, "KEY")>>) \o <<Fire(0, "KEY")>>

\* Going round from `from` in a direction, `id` is the first one of `good`.
FirstAround(id, from, dir, good) ==
    LET at(d) == ((from - 1 + dir * d) % MaxWidgets) + 1 IN
    /\ id \in good
    /\ \E d \in 1..MaxWidgets : at(d) = id /\ \A k \in 1..(d - 1) : at(k) \notin good

\* Tab: eui_focus_next
KeyTab ==
    /\ Event /\ ~message /\ ~picker
    /\ \E dir \in {-1, 1}, next \in Ids :
        LET from == IF focus = 0 /\ dir = -1 THEN 1 ELSE focus IN
        /\ FirstAround(next, from, dir, {i \in Ids : FocusableIn(w, i)})
        /\ SetFocus(w, next, open, <<>>)
    /\ UNCHANGED <<w, hover, pressed, modes, history>>

\* Keys of text inputs, sliders, lists and buttons, and keys that mean
\* nothing to the widget.
KeyUsed ==
    /\ \E id \in 0..MaxWidgets :
        /\ Key(id)
        /\ \/ todo' = AfterKey(id) /\ UNCHANGED w
           \/ /\ id # 0 /\ Kind(id) = "TEXTINPUT"
              /\ todo' = <<Fire(id, "CHANGE")>> \o AfterKey(id) /\ UNCHANGED w
           \/ /\ id # 0 /\ \/ Kind(id) = "TEXTINPUT"
                           \/ Kind(id) = "LISTBOX" /\ w[id].value \in 0..(w[id].count - 1)
              /\ todo' = <<Fire(id, "SUBMIT")>> \o AfterKey(id) /\ UNCHANGED w
           \/ /\ id # 0 /\ Kind(id) \in {"BUTTON", "CHECKBOX", "RADIO"}
              /\ todo' = <<Fire(id, "PRESS"), Fire(id, "RELEASE"), Do("activate", id, 0)>> \o AfterKey(id)
              /\ UNCHANGED w
           \/ /\ id # 0 /\ Kind(id) = "SLIDER"
              /\ \E v \in {w[id].value - 1, w[id].value + 1, 0, MaxValue} :
                    todo' = <<Do("change", id, v)>> \o AfterKey(id)
              /\ UNCHANGED w
           \/ /\ id # 0 /\ Kind(id) \in Lists
              /\ \E v \in {w[id].value - 1, w[id].value + 1} \cap 0..(w[id].count - 1) :
                    todo' = <<Do("change", id, v)>> \o AfterKey(id)
              /\ UNCHANGED w
    /\ UNCHANGED <<pointers, modes, history>>

\* Space or Enter on a dropdown, Escape with a list open.
KeyOpens ==
    /\ \E id \in Ids :
        /\ Key(id)
        /\ \/ Kind(id) = "DROPDOWN" /\ open' = (IF open = 0 THEN id ELSE 0)
           \/ Kind(id) # "TEXTINPUT" /\ open # 0 /\ open' = 0
        /\ todo' = AfterKey(id)
    /\ UNCHANGED <<w, focus, hover, pressed, modes, history>>

\* Escape leaves the widget.
KeyLeaves ==
    /\ \E id \in Ids :
        /\ Key(id)
        /\ Kind(id) = "TEXTINPUT" \/ open = 0
        /\ SetFocus(w, 0, open, AfterKey(id))
    /\ UNCHANGED <<w, hover, pressed, modes, history>>

\* Arrows on a radio button: to the next one of its group, which is itself
\* if there is no other.
KeyArrow ==
    /\ \E id, next \in Ids, dir \in {-1, 1} :
        LET group == {i \in Ids : FocusableIn(w, i) /\ Kind(i) = "RADIO" /\ w[i].group = w[id].group} IN
        /\ Key(id)
        /\ Kind(id) = "RADIO"
        /\ FirstAround(next, id, dir, group)
        /\ SetFocus(w, next, open, <<Select(next)>> \o AfterKey(id))
    /\ UNCHANGED <<w, hover, pressed, modes, history>>

\* The window is no longer the active one.
FocusLost ==
    /\ Event
    /\ todo' = (IF Valid(hover) THEN <<Fire(hover, "LEAVE")>> ELSE <<>>) \o <<Do("lost", 0, 0)>>
    /\ UNCHANGED <<w, pointers, modes, history>>

Lost ==
    /\ Now("lost")
    /\ hover' = 0 /\ pressed' = 0 /\ open' = 0 /\ down' = FALSE
    /\ todo' = Rest
    /\ UNCHANGED <<w, focus, message, picker, dialog, calls, program, history>>

Frame ==
    /\ Event
    /\ todo' = <<Fire(0, "FRAME")>>
    /\ UNCHANGED <<w, pointers, modes, history>>

WindowEvent ==
    \/ Mouse \/ MouseOnMessage \/ PickerMouse \/ PickerKey \/ OtherProgram \/ Wheel \/ KeyOnMessage \/ KeyTab \/ KeyUsed
    \/ KeyOpens \/ KeyLeaves \/ KeyArrow \/ FocusLost \/ Frame

Next == HandlerStep \/ Change \/ Radio \/ Activate \/ Released \/ MouseStep \/ Lost \/ WindowEvent

Spec == Init /\ [][Next]_vars

-----------------------------------------------------------------------------
(* What must hold.                                                         *)

\* Keys never go to a widget that is gone, hidden or disabled, whatever
\* handlers have done on the way ("A disabled widget ... cannot get focus",
\* docs/easyui.md).
FocusUsable == focus # 0 => FocusableIn(w, focus)

\* The library never holds on to a widget that is gone, and only the list
\* of a dropdown is open.
PointersExist ==
    /\ \A id \in {hover, pressed, open} : id # 0 => Valid(id)
    /\ open # 0 => Kind(open) = "DROPDOWN"

\* The selected row of a list exists, as long as no handler makes a new
\* widget in the slot of one whose event is still being handled.
SelectionExists ==
    ~reused => \A id \in Ids : Kind(id) \in Lists => w[id].value \in (-1)..(w[id].count - 1)

\* "Radio buttons with the same group number exclude each other"
\* (docs/easyui.md), once the event is over, as long as no handler selects
\* one while another is being selected or reuses the slot of one.
OneRadio ==
    todo = <<>> /\ ~nested /\ ~reused =>
        \A i, k \in Ids :
            /\ Kind(i) = "RADIO" /\ w[i].value # 0
            /\ Kind(k) = "RADIO" /\ w[k].value # 0
            /\ w[i].group = w[k].group
            => i = k

\* Nothing that a new event brings goes to a widget.
NothingForWidgets(steps) == \A k \in 1..Len(steps) : steps[k].id = 0

\* "While a picker is up the window's widgets ignore input"
\* (docs/easyui.md): none is left under the pointer or the wheel.
PickerBlocksInput == [][picker /\ todo = <<>> => w' = w /\ NothingForWidgets(todo')]_vars

\* A picker gives a program what it has shown, of the kind that was asked
\* for and past its filter, whatever happens to the folders meanwhile: the
\* path on top and the rows below it belong together.
PicksWhatWasShown ==
    [][picker /\ ~picker' /\ pk'.result # NoPath => Fair(files, pk, pk'.result)]_vars

=============================================================================
