---------------------------- MODULE EasyUi_proofs ----------------------------
(***************************************************************************)
(* Proofs about EasyUi, for any number of widgets, programs and calls.     *)
(***************************************************************************)
EXTENDS EasyUi, SequenceTheorems, TLAPS

Widgets == [kind : Kinds \cup {"NONE"}, visible : BOOLEAN, enabled : BOOLEAN,
            value : Int, group : Groups, count : Int]

\* Widgets `ws`, and what the focus f, the hovered widget h, the pressed
\* one p and the open list o may be: an empty slot is neither visible nor
\* enabled.
Good(ws, f, h, p, o) ==
    /\ ws \in [Ids -> Widgets]
    /\ \A id \in Ids : ws[id].kind = "NONE" => ~ws[id].visible /\ ~ws[id].enabled
    /\ f # 0 => FocusableIn(ws, f)
    /\ \A id \in {h, p, o} : id # 0 => id \in Ids /\ ws[id].kind # "NONE"
    /\ o # 0 => ws[o].kind = "DROPDOWN"

StateOK == Good(w, focus, hover, pressed, open)
TodoOK == todo \in Seq(StepRecords)
Inv == StateOK /\ TodoOK /\ kinds \subseteq Kinds

-----------------------------------------------------------------------------
(* Steps and sequences of them.                                            *)

LEMMA IdsFact == Ids \subseteq 0..MaxWidgets /\ 0 \notin Ids /\ 0 \in 0..MaxWidgets
                 /\ \A id \in 0..MaxWidgets : id # 0 => id \in Ids
BY WidgetsAssumption DEF Ids

LEMMA FireIsStep ==
    \A id \in 0..MaxWidgets, event \in Events : Fire(id, event) \in StepRecords
<1> SUFFICES ASSUME NEW id \in 0..MaxWidgets, NEW event \in Events
             PROVE  Fire(id, event) \in StepRecords
    OBVIOUS
<1>1. "fire" \in Steps /\ "fire" \notin ForWidgets /\ "fire" # "radio"
    BY DEF Steps, ForWidgets
<1>2. event \in Events \cup {""}
    OBVIOUS
<1>3. 0 \in Int
    OBVIOUS
<1> QED
    BY <1>1, <1>2, <1>3 DEF Fire, Step, StepRecords

LEMMA DoIsStep ==
    \A do \in Steps, id \in 0..MaxWidgets, n \in Int :
        (do \in ForWidgets => id # 0) /\ (do = "radio" => n \in 1..(MaxWidgets + 1))
        => Do(do, id, n) \in StepRecords
BY DEF Do, Step, StepRecords

LEMMA Joined ==
    /\ <<>> \in Seq(StepRecords)
    /\ \A s \in StepRecords : <<s>> \in Seq(StepRecords)
    /\ \A s, t \in StepRecords : <<s, t>> \in Seq(StepRecords)
    /\ \A s, t, u \in StepRecords : <<s, t, u>> \in Seq(StepRecords)
    /\ \A s, t \in Seq(StepRecords) : s \o t \in Seq(StepRecords)
<1> DEFINE S == StepRecords
<1> HIDE DEF S
<1>1. /\ <<>> \in Seq(S) /\ \A s \in S : <<s>> \in Seq(S)
      /\ \A s, t \in S : <<s, t>> \in Seq(S)
      /\ \A s, t, u \in S : <<s, t, u>> \in Seq(S)
    OBVIOUS
<1>2. \A s, t \in Seq(S) : s \o t \in Seq(S)
    BY ConcatProperties
<1> QED
    BY <1>1, <1>2 DEF S

LEMMA HeadIsStep ==
    ASSUME TodoOK, NEW do, Now(do)
    PROVE  /\ Rest \in Seq(StepRecords) /\ Head(todo) \in StepRecords
           /\ Id \in 0..MaxWidgets /\ Head(todo).n \in Int
           /\ Head(todo).do = do
           /\ do \in ForWidgets => Id \in Ids
           /\ do = "radio" => Head(todo).n \in 1..(MaxWidgets + 1)
<1> DEFINE S == StepRecords
<1>1. Rest \in Seq(S) /\ Head(todo) \in S
  <2> HIDE DEF S
  <2>1. todo \in Seq(S) /\ todo # <<>>
      BY DEF S, TodoOK, Now
  <2> QED
      BY <2>1, HeadTailProperties DEF Rest
<1> QED
    BY <1>1, IdsFact DEF StepRecords, Id, Now

\* eui_set_focus leaves the focus on a widget that can have it, or on none.
LEMMA FocusSet ==
    ASSUME NEW ws, NEW asked \in 0..MaxWidgets, NEW list, NEW rest \in Seq(StepRecords),
           focus \in 0..MaxWidgets, SetFocus(ws, asked, list, rest)
    PROVE  /\ focus' # 0 => FocusableIn(ws, focus')
           /\ open' = list \/ open' = 0
           /\ todo' \in Seq(StepRecords)
<1> DEFINE id == IF FocusableIn(ws, asked) THEN asked ELSE 0
<1>1. id \in 0..MaxWidgets
    BY IdsFact
<1>2. /\ id = 0 \/ FocusableIn(ws, id)
    BY DEF FocusableIn
<1>3. CASE id = focus
    BY <1>2, <1>3 DEF SetFocus
<1>4. CASE id # focus
  <2> DEFINE blur == IF focus # 0 THEN <<Fire(focus, "BLUR")>> ELSE <<>>
             gain == IF id # 0 THEN <<Fire(id, "FOCUS")>> ELSE <<>>
  <2>1. focus' = id /\ open' = (IF list = id THEN list ELSE 0) /\ todo' = blur \o gain \o rest
      BY <1>4 DEF SetFocus
  <2>2. blur \in Seq(StepRecords) /\ gain \in Seq(StepRecords)
    <3>1. Fire(focus, "BLUR") \in StepRecords /\ Fire(id, "FOCUS") \in StepRecords
        BY <1>1, FireIsStep DEF Events
    <3> QED
        BY <3>1, Joined
  <2>3. todo' \in Seq(StepRecords)
    <3> HIDE DEF blur, gain
    <3> QED
        BY <2>1, <2>2, Joined
  <2> QED
      BY <1>2, <2>1, <2>3
<1> QED
    BY <1>3, <1>4

\* Changing the value or the number of items of a widget disturbs nothing
\* else.
LEMMA Revalued ==
    ASSUME StateOK, NEW id \in Ids, NEW v \in Int, NEW c \in Int,
           w' \in {[w EXCEPT ![id].value = v], [w EXCEPT ![id].count = c],
                   [w EXCEPT ![id].count = c, ![id].value = v]}
    PROVE  /\ w' \in [Ids -> Widgets]
           /\ \A i \in Ids : /\ w'[i].kind = w[i].kind
                             /\ w'[i].visible = w[i].visible
                             /\ w'[i].enabled = w[i].enabled
BY DEF StateOK, Good, Widgets

LEMMA Undisturbed ==
    ASSUME StateOK, w' \in [Ids -> Widgets],
           \A i \in Ids : /\ w'[i].kind = w[i].kind
                          /\ w'[i].visible = w[i].visible
                          /\ w'[i].enabled = w[i].enabled,
           UNCHANGED pointers
    PROVE  StateOK'
BY DEF StateOK, Good, FocusableIn, pointers

LEMMA PointerRange ==
    ASSUME StateOK
    PROVE  /\ focus \in 0..MaxWidgets /\ hover \in 0..MaxWidgets
           /\ pressed \in 0..MaxWidgets /\ open \in 0..MaxWidgets
           /\ focus # 0 => FocusableIn(w, focus) /\ focus \in Ids
           /\ \A id \in {hover, pressed, open} : id # 0 => Valid(id) /\ id \in Ids
           /\ open # 0 => Kind(open) = "DROPDOWN"
           /\ \A id \in Ids : w[id].value \in Int /\ w[id].count \in Int
BY IdsFact DEF StateOK, Good, FocusableIn, Valid, Kind, Widgets

\* With the widgets as they are, it is enough to look at where the pointers
\* point.
LEMMA Pointed ==
    ASSUME StateOK, UNCHANGED w,
           focus' # 0 => FocusableIn(w, focus'),
           \A id \in {hover', pressed', open'} : id # 0 => Valid(id),
           open' # 0 => Kind(open') = "DROPDOWN"
    PROVE  StateOK'
BY DEF StateOK, Good, FocusableIn, Valid, Kind

LEMMA Kept ==
    ASSUME StateOK, UNCHANGED <<w, pointers>>
    PROVE  StateOK'
BY Pointed, PointerRange DEF pointers

LEMMA Names ==
    /\ {"change", "activate", "released", "pressed", "grab", "radio"} \subseteq Steps
    /\ {"press", "release", "drag", "lost", "letgo"} \subseteq Steps \ ForWidgets
    /\ "radio" \in ForWidgets
BY DEF Steps, ForWidgets

\* The steps that functions leave to be done are steps.
LEMMA DoMade ==
    /\ \A id \in Ids, do \in Steps \ {"radio"}, n \in Int : Do(do, id, n) \in StepRecords
    /\ \A id \in 0..MaxWidgets, do \in Steps \ ForWidgets, n \in Int : Do(do, id, n) \in StepRecords
    /\ \A id \in Ids, n \in 1..(MaxWidgets + 1) : Do("radio", id, n) \in StepRecords
    /\ \A id \in Ids : Select(id) \in StepRecords
<1>1. \A id \in Ids, do \in Steps \ {"radio"}, n \in Int : Do(do, id, n) \in StepRecords
    BY DoIsStep, IdsFact
<1>2. \A id \in 0..MaxWidgets, do \in Steps \ ForWidgets, n \in Int : Do(do, id, n) \in StepRecords
    BY DoIsStep, Names
<1>3. \A id \in Ids, n \in 1..(MaxWidgets + 1) : Do("radio", id, n) \in StepRecords
    BY DoIsStep, IdsFact, Names
<1>4. 1 \in 1..(MaxWidgets + 1)
    BY WidgetsAssumption
<1> QED
    BY <1>1, <1>2, <1>3, <1>4 DEF Select

LEMMA StepsMade ==
    /\ \A id \in 0..MaxWidgets, event \in Events : <<Fire(id, event)>> \in Seq(StepRecords)
    /\ \A id \in Ids, event \in Events : <<Fire(id, event)>> \in Seq(StepRecords)
    /\ \A id \in Ids, do \in Steps \ {"radio"}, n \in Int : <<Do(do, id, n)>> \in Seq(StepRecords)
    /\ \A id \in 0..MaxWidgets, do \in Steps \ ForWidgets, n \in Int :
          <<Do(do, id, n)>> \in Seq(StepRecords)
    /\ \A id \in Ids : <<Select(id)>> \in Seq(StepRecords)
<1>1. \A id \in Ids : id \in 0..MaxWidgets
    BY IdsFact
<1> QED
    BY <1>1, DoMade, FireIsStep, Joined

-----------------------------------------------------------------------------
(* What a handler does.                                                    *)

Fine == StateOK /\ TodoOK

LEMMA FireStepKeeps ==
    ASSUME Fine, FireStep
    PROVE  Fine'
<1>1. StateOK'
    BY Kept DEF FireStep, Fine
<1>2. Rest \in Seq(StepRecords) /\ Head(todo) \in StepRecords
    BY HeadIsStep DEF FireStep, Fine
<1>3. [Head(todo) EXCEPT !.do = "handler"] \in StepRecords
  <2>1. "handler" \in Steps /\ "handler" \notin ForWidgets /\ "handler" # "radio"
      BY DEF Steps, ForWidgets
  <2> QED
      BY <1>2, <2>1 DEF StepRecords
<1>4. <<[Head(todo) EXCEPT !.do = "handler"]>> \o Rest \in Seq(StepRecords)
    BY <1>2, <1>3, Joined
<1> QED
    BY <1>1, <1>2, <1>4 DEF FireStep, Fine, TodoOK

LEMMA ReturnKeeps ==
    ASSUME Fine, Return
    PROVE  Fine'
<1>1. StateOK'
    BY Kept DEF Return, Fine
<1>2. Rest \in Seq(StepRecords)
    BY HeadIsStep DEF Return, Fine
<1> QED
    BY <1>1, <1>2 DEF Return, Fine, TodoOK

LEMMA CallSetEnabledKeeps ==
    ASSUME Fine, CallSetEnabled
    PROVE  Fine'
<1>1. PICK id \in Ids, on \in BOOLEAN :
        /\ Valid(id)
        /\ w' = [w EXCEPT ![id].enabled = on]
        /\ IF ~on /\ focus = id THEN SetFocus(w', 0, open, todo) ELSE UNCHANGED <<focus, open, todo>>
    BY DEF CallSetEnabled
<1>2. /\ w' \in [Ids -> Widgets]
      /\ \A i \in Ids : w'[i].kind = w[i].kind /\ w'[i].visible = w[i].visible
      /\ \A i \in Ids : i # id => w'[i].enabled = w[i].enabled
      /\ w'[id].enabled = on
    BY <1>1 DEF Fine, StateOK, Good, Widgets
<1>3. UNCHANGED <<hover, pressed>> /\ Valid(id)
    BY <1>1 DEF CallSetEnabled
<1>4. CASE ~on /\ focus = id
  <2>1. (focus' # 0 => FocusableIn(w', focus')) /\ (open' = open \/ open' = 0) /\ TodoOK'
      BY <1>1, <1>4, FocusSet, PointerRange, IdsFact DEF Fine, TodoOK
  <2> QED
      BY <1>2, <1>3, <2>1, IdsFact DEF Fine, StateOK, Good, Valid
<1>5. CASE ~(~on /\ focus = id)
  <2>1. UNCHANGED <<focus, open, todo>>
      BY <1>1, <1>5
  <2>2. focus # 0 => FocusableIn(w', focus)
      BY <1>2, <1>5 DEF Fine, StateOK, Good, FocusableIn
  <2> QED
      BY <1>2, <1>3, <2>1, <2>2 DEF Fine, StateOK, TodoOK, Good, Valid
<1> QED
    BY <1>4, <1>5

LEMMA CallSetVisibleKeeps ==
    ASSUME Fine, CallSetVisible
    PROVE  Fine'
<1> DEFINE List(id, on) == IF ~on /\ open = id THEN 0 ELSE open
<1>1. PICK id \in Ids, on \in BOOLEAN :
        /\ Valid(id)
        /\ w' = [w EXCEPT ![id].visible = on]
        /\ IF ~on /\ focus = id THEN SetFocus(w', 0, List(id, on), todo)
                                 ELSE open' = List(id, on) /\ UNCHANGED <<focus, todo>>
    BY DEF CallSetVisible
<1>2. /\ w' \in [Ids -> Widgets]
      /\ \A i \in Ids : w'[i].kind = w[i].kind /\ w'[i].enabled = w[i].enabled
      /\ \A i \in Ids : i # id => w'[i].visible = w[i].visible
      /\ w'[id].visible = on
    BY <1>1 DEF Fine, StateOK, Good, Widgets
<1>3. UNCHANGED <<hover, pressed>> /\ Valid(id) /\ List(id, on) \in {0, open}
    BY <1>1 DEF CallSetVisible
<1>4. CASE ~on /\ focus = id
  <2>1. (focus' # 0 => FocusableIn(w', focus')) /\ (open' = open \/ open' = 0) /\ TodoOK'
      BY <1>1, <1>3, <1>4, FocusSet, PointerRange, IdsFact DEF Fine, TodoOK
  <2> QED
      BY <1>2, <1>3, <2>1, IdsFact DEF Fine, StateOK, Good, Valid
<1>5. CASE ~(~on /\ focus = id)
  <2>1. UNCHANGED <<focus, todo>> /\ open' \in {0, open}
      BY <1>1, <1>3, <1>5
  <2>2. focus # 0 => FocusableIn(w', focus)
      BY <1>2, <1>5 DEF Fine, StateOK, Good, FocusableIn
  <2> QED
      BY <1>2, <1>3, <2>1, <2>2 DEF Fine, StateOK, TodoOK, Good, Valid
<1> QED
    BY <1>4, <1>5

\* Whatever moves the focus, and leaves the widgets and the mouse alone.
LEMMA Refocused ==
    ASSUME Fine, NEW asked \in 0..MaxWidgets, NEW list \in {0, open}, NEW rest \in Seq(StepRecords),
           SetFocus(w, asked, list, rest), UNCHANGED <<w, hover>>,
           pressed' # 0 => Valid(pressed')
    PROVE  Fine'
<1>1. (focus' # 0 => FocusableIn(w, focus')) /\ (open' = list \/ open' = 0) /\ TodoOK'
    BY FocusSet, PointerRange DEF Fine, TodoOK
<1>2. StateOK'
    BY <1>1, Pointed, PointerRange DEF Fine
<1> QED
    BY <1>1, <1>2 DEF Fine

LEMMA CallSetFocusKeeps ==
    ASSUME Fine, CallSetFocus
    PROVE  Fine'
<1>1. PICK id \in 0..MaxWidgets : SetFocus(w, id, open, todo)
    BY DEF CallSetFocus
<1>2. todo \in Seq(StepRecords) /\ UNCHANGED <<w, hover, pressed>>
    BY DEF CallSetFocus, Fine, TodoOK
<1> QED
    BY <1>1, <1>2, Refocused, PointerRange DEF Fine

LEMMA CallSetValueKeeps ==
    ASSUME Fine, CallSetValue
    PROVE  Fine'
<1>1. StateOK'
    BY Kept DEF CallSetValue, Fine, modes
<1>2. PICK id \in Ids, v \in (-1)..MaxValue :
        \/ todo' = <<Select(id)>> \o todo
        \/ todo' = <<Do("change", id, IF v # 0 THEN 1 ELSE 0)>> \o todo
        \/ todo' = <<Do("change", id, v)>> \o todo
  <2> HIDE DEF Lists
  <2> QED
      BY DEF CallSetValue
<1>3. v \in Int /\ (IF v # 0 THEN 1 ELSE 0) \in Int
    BY BoundsAssumption
<1>4. todo' \in Seq(StepRecords)
    BY <1>2, <1>3, StepsMade, Names, Joined DEF Fine, TodoOK
<1> QED
    BY <1>1, <1>4 DEF Fine, TodoOK

LEMMA CallItemsKeeps ==
    ASSUME Fine, CallItems
    PROVE  Fine'
<1>1. PICK id \in Ids : \/ w' = [w EXCEPT ![id].count = w[id].count + 1]
                        \/ w' = [w EXCEPT ![id].count = 0, ![id].value = -1]
    BY DEF CallItems
<1>2. w[id].count + 1 \in Int /\ 0 \in Int /\ -1 \in Int
    BY PointerRange DEF Fine
<1>3. UNCHANGED pointers /\ UNCHANGED todo
    BY DEF CallItems
<1>4. StateOK'
    BY <1>1, <1>2, <1>3, Revalued, Undisturbed DEF Fine
<1> QED
    BY <1>3, <1>4 DEF Fine, TodoOK

LEMMA CallRemoveKeeps ==
    ASSUME Fine, CallRemove
    PROVE  Fine'
<1>1. PICK id \in Ids : Valid(id) /\ RemoveWidget(id)
    BY DEF CallRemove
<1>2. Unused \in Widgets /\ Unused.kind = "NONE" /\ ~Unused.visible /\ ~Unused.enabled
    BY DEF Unused, Widgets, Groups
<1>3. /\ w' \in [Ids -> Widgets]
      /\ w'[id] = Unused
      /\ \A i \in Ids : i # id => w'[i] = w[i]
    BY <1>1, <1>2 DEF Fine, StateOK, Good, RemoveWidget
<1>4. /\ focus' = IF focus = id THEN 0 ELSE focus
      /\ hover' = IF hover = id THEN 0 ELSE hover
      /\ pressed' = IF pressed = id THEN 0 ELSE pressed
      /\ open' = IF open = id THEN 0 ELSE open
    BY <1>1 DEF RemoveWidget
<1>5. StateOK'
  <2>1. focus' # 0 => FocusableIn(w', focus')
      BY <1>3, <1>4 DEF Fine, StateOK, Good, FocusableIn
  <2>2. \A i \in {hover', pressed', open'} : i # 0 => i \in Ids /\ w'[i].kind # "NONE"
      BY <1>3, <1>4 DEF Fine, StateOK, Good
  <2>3. open' # 0 => w'[open'].kind = "DROPDOWN"
      BY <1>3, <1>4 DEF Fine, StateOK, Good
  <2>4. \A i \in Ids : w'[i].kind = "NONE" => ~w'[i].visible /\ ~w'[i].enabled
      BY <1>2, <1>3 DEF Fine, StateOK, Good
  <2> QED
      BY <1>3, <2>1, <2>2, <2>3, <2>4 DEF StateOK, Good
<1> QED
    BY <1>5 DEF CallRemove, Fine, TodoOK

LEMMA CallCreateKeeps ==
    ASSUME Fine, CallCreate, kinds \subseteq Kinds
    PROVE  Fine'
<1>1. PICK id \in Ids, kind \in kinds, group \in Groups :
        ~Valid(id) /\ w' = [w EXCEPT ![id] = Widget(kind, FreshValue(kind, group), group, 0)]
    BY DEF CallCreate
<1> DEFINE new == Widget(kind, FreshValue(kind, group), group, 0)
<1>2. FreshValue(kind, group) \in Int
    BY DEF FreshValue
<1>3. new \in Widgets /\ new.kind # "NONE"
  <2>1. kind \in Kinds /\ "NONE" \notin Kinds
      BY DEF Kinds, FocusKinds, Lists
  <2> HIDE DEF Kinds
  <2> QED
      BY <1>2, <2>1 DEF Widget, Widgets
<1> HIDE DEF new
<1>4. /\ w' \in [Ids -> Widgets]
      /\ w'[id] = new
      /\ \A i \in Ids : i # id => w'[i] = w[i]
    BY <1>1, <1>3 DEF Fine, StateOK, Good, new
<1>5. UNCHANGED <<focus, hover, pressed, open>> /\ UNCHANGED todo
    BY DEF CallCreate, pointers
<1>6. w[id].kind = "NONE" /\ id \notin {focus, hover, pressed, open}
  <2>1. w[id].kind = "NONE" /\ ~w[id].visible
      BY <1>1 DEF Valid, Fine, StateOK, Good
  <2> QED
      BY <2>1, IdsFact DEF Fine, StateOK, Good, FocusableIn
<1>7. StateOK'
  <2>1. focus # 0 => FocusableIn(w', focus)
      BY <1>4, <1>6 DEF Fine, StateOK, Good, FocusableIn
  <2>2. \A i \in {hover, pressed, open} : i # 0 => i \in Ids /\ w'[i].kind # "NONE"
      BY <1>4, <1>6 DEF Fine, StateOK, Good
  <2>3. open # 0 => w'[open].kind = "DROPDOWN"
      BY <1>4, <1>6 DEF Fine, StateOK, Good
  <2>4. \A i \in Ids : w'[i].kind = "NONE" => ~w'[i].visible /\ ~w'[i].enabled
      BY <1>3, <1>4 DEF Fine, StateOK, Good
  <2> QED
      BY <1>4, <1>5, <2>1, <2>2, <2>3, <2>4 DEF StateOK, Good
<1> QED
    BY <1>5, <1>7 DEF Fine, TodoOK

LEMMA CallMessageKeeps ==
    ASSUME Fine, CallMessage
    PROVE  Fine'
<1>1. UNCHANGED <<w, focus, hover, todo>> /\ open' = 0 /\ pressed' = 0
    BY DEF CallMessage
<1>2. StateOK'
    BY <1>1, Pointed, PointerRange DEF Fine
<1> QED
    BY <1>1, <1>2 DEF Fine, TodoOK

\* What eui_leave does first.
LEMMA LeaveSteps ==
    ASSUME Fine
    PROVE  (IF Valid(hover) THEN <<Fire(hover, "LEAVE")>> ELSE <<>>) \in Seq(StepRecords)
<1>1. "LEAVE" \in Events
    BY DEF Events
<1> QED
    BY <1>1, StepsMade, Joined, PointerRange DEF Fine

LEMMA CallPickKeeps ==
    ASSUME Fine, CallPick
    PROVE  Fine'
<1> DEFINE leave == IF Valid(hover) THEN <<Fire(hover, "LEAVE")>> ELSE <<>>
<1>1. UNCHANGED <<w, pointers>> /\ todo' = leave \o <<Do("letgo", 0, 0)>> \o todo
    BY DEF CallPick
<1>2. leave \in Seq(StepRecords) /\ <<Do("letgo", 0, 0)>> \in Seq(StepRecords)
    BY LeaveSteps, StepsMade, Names, IdsFact
<1>3. todo' \in Seq(StepRecords)
  <2> HIDE DEF leave
  <2> QED
      BY <1>1, <1>2, Joined DEF Fine, TodoOK
<1> QED
    BY <1>1, <1>3, Kept DEF Fine, TodoOK

LEMMA LetGoKeeps ==
    ASSUME Fine, LetGo \/ Lost
    PROVE  Fine'
<1>1. UNCHANGED <<w, focus>> /\ hover' = 0 /\ pressed' = 0 /\ open' = 0 /\ todo' = Rest
    BY DEF LetGo, Lost
<1>2. Rest \in Seq(StepRecords)
    BY HeadIsStep DEF LetGo, Lost, Fine
<1>3. StateOK'
    BY <1>1, Pointed, PointerRange DEF Fine
<1> QED
    BY <1>1, <1>2, <1>3 DEF Fine, TodoOK

-----------------------------------------------------------------------------
(* Values and the mouse.                                                   *)

LEMMA ChangeKeeps ==
    ASSUME Fine, Change
    PROVE  Fine'
<1>1. Rest \in Seq(StepRecords) /\ Id \in Ids /\ Head(todo).n \in Int
    BY HeadIsStep DEF Change, Fine, ForWidgets
<1> DEFINE v == IF Kind(Id) = "SLIDER" THEN Clamp(Head(todo).n) ELSE Head(todo).n
<1>2. v \in Int
    BY <1>1, BoundsAssumption DEF Clamp
<1>3. \/ UNCHANGED w /\ todo' = Rest
      \/ w' = [w EXCEPT ![Id].value = v] /\ todo' = <<Fire(Id, "CHANGE")>> \o Rest
    BY DEF Change
<1> HIDE DEF v
<1>4. StateOK'
  <2>1. UNCHANGED pointers
      BY DEF Change
  <2>2. CASE w' = [w EXCEPT ![Id].value = v]
      BY <1>1, <1>2, <2>1, <2>2, Revalued, Undisturbed DEF Fine
  <2> QED
      BY <1>3, <2>1, <2>2, Kept DEF Fine
<1>5. todo' \in Seq(StepRecords)
  <2>1. "CHANGE" \in Events
      BY DEF Events
  <2> QED
      BY <1>1, <1>3, <2>1, StepsMade, Joined
<1> QED
    BY <1>4, <1>5 DEF Fine, TodoOK

LEMMA RadioKeeps ==
    ASSUME Fine, Radio
    PROVE  Fine'
<1>1. Rest \in Seq(StepRecords) /\ Id \in Ids /\ Head(todo).n \in 1..(MaxWidgets + 1)
    BY HeadIsStep DEF Radio, Fine, ForWidgets
<1>2. UNCHANGED pointers
    BY DEF Radio
<1>3. CASE Rivals(Id, Head(todo).n) = {}
  <2>1. UNCHANGED w /\ todo' = <<Do("change", Id, 1)>> \o Rest
      BY <1>3 DEF Radio
  <2>2. todo' \in Seq(StepRecords)
      BY <1>1, <2>1, StepsMade, Names, Joined
  <2> QED
      BY <1>2, <2>1, <2>2, Kept DEF Fine, TodoOK
<1>4. CASE Rivals(Id, Head(todo).n) # {}
  <2>1. PICK i \in Rivals(Id, Head(todo).n) :
          /\ w' = [w EXCEPT ![i].value = 0]
          /\ todo' = <<Fire(i, "CHANGE"), Do("radio", Id, i + 1)>> \o Rest
      BY <1>4 DEF Radio
  <2>2. i \in Head(todo).n..MaxWidgets
      BY DEF Rivals
  <2>3. i \in Ids /\ i + 1 \in 1..(MaxWidgets + 1)
      BY <1>1, <2>2, WidgetsAssumption DEF Ids
  <2>4. "CHANGE" \in Events
      BY DEF Events
  <2>5. Fire(i, "CHANGE") \in StepRecords /\ Do("radio", Id, i + 1) \in StepRecords
      BY <1>1, <2>3, <2>4, FireIsStep, DoMade, IdsFact
  <2>6. todo' \in Seq(StepRecords)
      BY <1>1, <2>1, <2>5, Joined
  <2>7. StateOK'
    <3>1. 0 \in Int
        OBVIOUS
    <3> QED
        BY <1>2, <2>1, <2>3, <3>1, Revalued, Undisturbed DEF Fine
  <2> QED
      BY <2>6, <2>7 DEF Fine, TodoOK
<1> QED
    BY <1>3, <1>4

\* Where only the steps change.
LEMMA OnlySteps ==
    ASSUME Fine, UNCHANGED <<w, pointers>>, todo' \in Seq(StepRecords)
    PROVE  Fine'
BY Kept DEF Fine, TodoOK

LEMMA ActivateNowSteps ==
    ASSUME Fine, NEW id \in Ids, ActivateNow(id), Rest \in Seq(StepRecords)
    PROVE  todo' \in Seq(StepRecords)
<1> DEFINE first == CASE Kind(id) = "CHECKBOX" -> <<Do("change", id, 1 - w[id].value)>>
                      [] Kind(id) = "RADIO" -> <<Select(id)>>
                      [] OTHER -> <<>>
<1>1. first \in Seq(StepRecords)
  <2>1. 1 - w[id].value \in Int
      BY PointerRange DEF Fine
  <2>2. <<Do("change", id, 1 - w[id].value)>> \in Seq(StepRecords)
      BY <2>1, StepsMade, Names
  <2>3. <<Select(id)>> \in Seq(StepRecords) /\ <<>> \in Seq(StepRecords)
      BY StepsMade, Joined
  <2>4. first \in {<<Do("change", id, 1 - w[id].value)>>, <<Select(id)>>, <<>>}
      OBVIOUS
  <2> QED
      BY <2>2, <2>3, <2>4
<1>2. <<Fire(id, "CLICK")>> \in Seq(StepRecords)
  <2>1. "CLICK" \in Events
      BY DEF Events
  <2> QED
      BY <2>1, StepsMade
<1>3. todo' = first \o <<Fire(id, "CLICK")>> \o Rest
    BY DEF ActivateNow
<1> HIDE DEF first
<1> QED
    BY <1>1, <1>2, <1>3, Joined

LEMMA ActivateKeeps ==
    ASSUME Fine, Activate \/ Released
    PROVE  Fine'
<1>1. Rest \in Seq(StepRecords) /\ Id \in Ids
    BY HeadIsStep DEF Activate, Released, Fine, ForWidgets
<1>2. ActivateNow(Id) \/ todo' = Rest
    BY DEF Activate, Released
<1>3. UNCHANGED <<w, pointers>>
    BY DEF Activate, Released
<1> QED
    BY <1>1, <1>2, <1>3, ActivateNowSteps, OnlySteps

LEMMA PressKeeps ==
    ASSUME Fine, Press
    PROVE  Fine'
<1>1. Rest \in Seq(StepRecords) /\ Id \in 0..MaxWidgets
    BY HeadIsStep DEF Press, Fine
<1>2. UNCHANGED <<w, hover>>
    BY DEF Press
<1>3. CASE /\ open # 0
           /\ open' = 0
           /\ \/ todo' = Rest
              \/ \E row \in 0..(w[open].count - 1) : todo' = <<Do("change", open, row)>> \o Rest
           /\ UNCHANGED <<focus, pressed>>
  <2>1. open \in Ids /\ w[open].count \in Int
      BY <1>3, PointerRange DEF Fine
  <2>2. todo' \in Seq(StepRecords)
    <3>1. \A row \in 0..(w[open].count - 1) : row \in Int
        BY <2>1
    <3> QED
        BY <1>1, <1>3, <2>1, <3>1, StepsMade, Names, Joined
  <2>3. StateOK'
      BY <1>2, <1>3, Pointed, PointerRange DEF Fine
  <2> QED
      BY <2>2, <2>3 DEF Fine, TodoOK
<1>4. CASE open # 0 /\ Id = open /\ open' = 0 /\ pressed' = 0 /\ todo' = Rest /\ UNCHANGED focus
  <2>1. StateOK'
      BY <1>2, <1>4, Pointed, PointerRange DEF Fine
  <2> QED
      BY <1>1, <1>4, <2>1 DEF Fine, TodoOK
<1>5. CASE SetFocus(w, 0, 0, Rest) /\ UNCHANGED pressed
    BY <1>1, <1>2, <1>5, Refocused, PointerRange, IdsFact DEF Fine
<1>6. CASE /\ ~(Id = 0 \/ ~w[Id].enabled)
           /\ pressed' = Id /\ SetFocus(w, Id, 0, <<Do("pressed", Id, 0)>> \o Rest)
  <2>1. Id \in Ids /\ w[Id].kind # "NONE"
      BY <1>1, <1>6, IdsFact DEF Fine, StateOK, Good
  <2>2. <<Do("pressed", Id, 0)>> \o Rest \in Seq(StepRecords)
      BY <1>1, <2>1, StepsMade, Names, Joined
  <2>3. Valid(pressed')
      BY <1>2, <1>6, <2>1 DEF Valid
  <2> QED
      BY <1>1, <1>2, <1>6, <2>2, <2>3, Refocused DEF Fine
<1> QED
    BY <1>3, <1>4, <1>5, <1>6 DEF Press

LEMMA PressedKeeps ==
    ASSUME Fine, Pressed
    PROVE  Fine'
<1>1. Rest \in Seq(StepRecords) /\ Id \in Ids
    BY HeadIsStep DEF Pressed, Fine, ForWidgets
<1>2. todo' \in {Rest, <<Fire(Id, "PRESS"), Do("grab", Id, 0)>> \o Rest} /\ UNCHANGED <<w, pointers>>
    BY DEF Pressed
<1>3. Fire(Id, "PRESS") \in StepRecords /\ Do("grab", Id, 0) \in StepRecords
  <2>1. "PRESS" \in Events
      BY DEF Events
  <2> QED
      BY <1>1, <2>1, FireIsStep, DoMade, Names, IdsFact
<1>4. todo' \in Seq(StepRecords)
    BY <1>1, <1>2, <1>3, Joined
<1> QED
    BY <1>2, <1>4, OnlySteps

LEMMA GrabKeeps ==
    ASSUME Fine, Grab
    PROVE  Fine'
<1>1. Rest \in Seq(StepRecords) /\ Id \in Ids
    BY HeadIsStep DEF Grab, Fine, ForWidgets
<1>2. UNCHANGED <<w, focus, hover, pressed>>
    BY DEF Grab
<1>3. StateOK'
  <2>1. open' = open \/ (open' = Id /\ Kind(Id) = "DROPDOWN")
      BY DEF Grab
  <2>2. Kind(Id) = "DROPDOWN" => Valid(Id)
      BY <1>1 DEF Valid, Kind
  <2> QED
      BY <1>2, <2>1, <2>2, Pointed, PointerRange DEF Fine
<1>4. todo' \in Seq(StepRecords)
  <2>1. \/ todo' = Rest
        \/ \E v \in Int : todo' = <<Do("change", Id, v)>> \o Rest
        \/ \E v \in Int, double \in BOOLEAN :
              todo' = <<Do("change", Id, v)>> \o (IF double THEN <<Fire(Id, "SUBMIT")>> ELSE <<>>) \o Rest
    <3>1. w[Id].count \in Int
        BY <1>1, PointerRange DEF Fine
    <3>2. \A v : v \in 0..MaxValue \/ v \in 0..(w[Id].count - 1) => v \in Int
        BY <3>1, BoundsAssumption
    <3> QED
        BY <3>2 DEF Grab
  <2>2. "SUBMIT" \in Events
      BY DEF Events
  <2>3. \A double \in BOOLEAN : (IF double THEN <<Fire(Id, "SUBMIT")>> ELSE <<>>) \in Seq(StepRecords)
      BY <1>1, <2>2, StepsMade, Joined
  <2>4. \A v \in Int : <<Do("change", Id, v)>> \in Seq(StepRecords)
      BY <1>1, StepsMade, Names
  <2>5. CASE todo' = Rest
      BY <1>1, <2>5
  <2>6. CASE \E v \in Int : todo' = <<Do("change", Id, v)>> \o Rest
      BY <1>1, <2>4, <2>6, Joined
  <2>7. ASSUME NEW v \in Int, NEW double \in BOOLEAN,
               todo' = <<Do("change", Id, v)>> \o (IF double THEN <<Fire(Id, "SUBMIT")>> ELSE <<>>) \o Rest
        PROVE  todo' \in Seq(StepRecords)
    <3> DEFINE submit == IF double THEN <<Fire(Id, "SUBMIT")>> ELSE <<>>
    <3>1. submit \in Seq(StepRecords) /\ todo' = <<Do("change", Id, v)>> \o submit \o Rest
        BY <2>3, <2>7
    <3> HIDE DEF submit
    <3> QED
        BY <1>1, <2>4, <3>1, Joined
  <2> QED
      BY <2>1, <2>5, <2>6, <2>7
<1> QED
    BY <1>3, <1>4 DEF Fine, TodoOK

LEMMA ReleaseKeeps ==
    ASSUME Fine, Release
    PROVE  Fine'
<1>1. Rest \in Seq(StepRecords)
    BY HeadIsStep DEF Release, Fine
<1>2. UNCHANGED <<w, focus, hover, open>> /\ pressed' = 0
    BY DEF Release
<1>3. StateOK'
    BY <1>2, Pointed, PointerRange DEF Fine
<1>4. todo' \in Seq(StepRecords)
  <2>1. CASE ~Valid(pressed)
      BY <1>1, <2>1 DEF Release
  <2>2. CASE Valid(pressed)
    <3> DEFINE click == IF Hit(Id) = pressed THEN <<Do("released", pressed, 0)>> ELSE <<>>
    <3>1. todo' = <<Fire(pressed, "RELEASE")>> \o click \o Rest
        BY <2>2 DEF Release
    <3>2. pressed \in Ids /\ "RELEASE" \in Events
        BY <2>2 DEF Valid, Events
    <3>3. click \in Seq(StepRecords) /\ <<Fire(pressed, "RELEASE")>> \in Seq(StepRecords)
        BY <3>2, StepsMade, Names, Joined
    <3> HIDE DEF click
    <3> QED
        BY <1>1, <3>1, <3>3, Joined
  <2> QED
      BY <2>1, <2>2
<1> QED
    BY <1>3, <1>4 DEF Fine, TodoOK

LEMMA DragKeeps ==
    ASSUME Fine, Drag
    PROVE  Fine'
<1>1. Rest \in Seq(StepRecords)
    BY HeadIsStep DEF Drag, Fine
<1>2. UNCHANGED <<w, pointers>>
    BY DEF Drag
<1>3. \/ todo' = Rest
      \/ Valid(pressed) /\ \E v \in 0..MaxValue : todo' = <<Do("change", pressed, v)>> \o Rest
    BY DEF Drag
<1>4. \A v \in 0..MaxValue : v \in Int
    BY BoundsAssumption
<1>5. todo' \in Seq(StepRecords)
    BY <1>1, <1>3, <1>4, StepsMade, Names, Joined DEF Valid
<1> QED
    BY <1>2, <1>5, OnlySteps

-----------------------------------------------------------------------------
(* Events of the window.                                                   *)

LEMMA MouseKeeps ==
    ASSUME Fine, Mouse
    PROVE  Fine'
<1> DEFINE Under(place) == IF pressed # 0 /\ Kind(pressed) = "SLIDER" THEN hover ELSE Hit(place)
           Leave == IF Valid(hover) THEN <<Fire(hover, "LEAVE")>> ELSE <<>>
           Enter(hit) == IF hit # 0 THEN <<Fire(hit, "HOVER")>> ELSE <<>>
           Moved(hit) == IF hit # hover THEN Leave \o Enter(hit) ELSE <<>>
           Button(place, hit, button) ==
               CASE button /\ ~down -> <<Do("press", hit, 0)>>
                 [] ~button /\ down -> <<Do("release", place, 0)>>
                 [] button /\ down -> <<Do("drag", 0, 0)>>
                 [] OTHER -> <<>>
<1>1. PICK place \in 0..MaxWidgets, button \in BOOLEAN :
        /\ hover' = Under(place)
        /\ todo' = Moved(Under(place)) \o Button(place, Under(place), button)
    BY DEF Mouse
<1> DEFINE hit == Under(place)
<1>2. hit \in 0..MaxWidgets /\ (hit # 0 => Valid(hit))
  <2>1. Hit(place) \in {0, place} /\ (Hit(place) # 0 => Valid(Hit(place)))
      BY DEF Hit
  <2>2. hover \in 0..MaxWidgets /\ (hover # 0 => Valid(hover))
      BY PointerRange DEF Fine
  <2> QED
      BY <2>1, <2>2, IdsFact
<1>3. UNCHANGED <<w, focus, pressed, open>>
    BY DEF Mouse
<1>4. StateOK'
    BY <1>1, <1>2, <1>3, Pointed, PointerRange DEF Fine
<1> HIDE DEF hit
<1>5. Leave \in Seq(StepRecords)
    BY LeaveSteps
<1>6. Enter(hit) \in Seq(StepRecords)
  <2>1. "HOVER" \in Events
      BY DEF Events
  <2> QED
      BY <1>2, <2>1, StepsMade, Joined
<1>7. Button(place, hit, button) \in Seq(StepRecords)
  <2>1. /\ <<Do("press", hit, 0)>> \in Seq(StepRecords)
        /\ <<Do("release", place, 0)>> \in Seq(StepRecords)
        /\ <<Do("drag", 0, 0)>> \in Seq(StepRecords)
        /\ <<>> \in Seq(StepRecords)
      BY <1>2, StepsMade, Names, Joined, IdsFact
  <2>2. Button(place, hit, button) \in
          {<<Do("press", hit, 0)>>, <<Do("release", place, 0)>>, <<Do("drag", 0, 0)>>, <<>>}
      OBVIOUS
  <2> QED
      BY <2>1, <2>2
<1>8. Moved(hit) \in Seq(StepRecords)
  <2> HIDE DEF Leave, Enter
  <2> QED
      BY <1>5, <1>6, Joined
<1>9. todo' \in Seq(StepRecords)
  <2>1. todo' = Moved(hit) \o Button(place, hit, button)
      BY <1>1 DEF hit
  <2> HIDE DEF Moved, Button
  <2> QED
      BY <1>7, <1>8, <2>1, Joined
<1> QED
    BY <1>4, <1>9 DEF Fine, TodoOK

\* A message, a picker or the window: no widget hears of it.
LEMMA ElsewhereKeeps ==
    ASSUME Fine, MouseOnMessage \/ KeyOnMessage \/ PickerMouse \/ PickerKey \/ OtherProgram \/ Frame
    PROVE  Fine'
<1>1. UNCHANGED <<w, pointers>>
    BY DEF MouseOnMessage, KeyOnMessage, PickerMouse, PickerKey, PickerGoes, OtherProgram, Frame
<1>2. todo' \in {todo, <<>>, <<Fire(0, "PICKED")>>, <<Fire(0, "FRAME")>>}
    BY DEF MouseOnMessage, KeyOnMessage, PickerMouse, PickerKey, PickerGoes, OtherProgram, Frame
<1>3. "PICKED" \in Events /\ "FRAME" \in Events
    BY DEF Events
<1>4. todo' \in Seq(StepRecords)
    BY <1>2, <1>3, StepsMade, Joined, IdsFact DEF Fine, TodoOK
<1> QED
    BY <1>1, <1>4, OnlySteps

LEMMA WheelKeeps ==
    ASSUME Fine, Wheel
    PROVE  Fine'
<1>1. UNCHANGED <<w, pointers>>
    BY DEF Wheel
<1>2. PICK id \in Ids : \/ todo' = <<Fire(id, "WHEEL")>>
                        \/ \E by \in {-1, 1} : todo' = <<Do("change", id, w[id].value + by)>>
    BY DEF Wheel, Valid
<1>3. \A by \in {-1, 1} : w[id].value + by \in Int
    BY PointerRange DEF Fine
<1>4. "WHEEL" \in Events
    BY DEF Events
<1>5. todo' \in Seq(StepRecords)
    BY <1>2, <1>3, <1>4, StepsMade, Names
<1> QED
    BY <1>1, <1>5, OnlySteps

LEMMA AfterKeySteps ==
    ASSUME NEW id \in 0..MaxWidgets
    PROVE  AfterKey(id) \in Seq(StepRecords)
<1>1. "KEY" \in Events
    BY DEF Events
<1>2. (IF id = 0 THEN <<>> ELSE <<Fire(id, "KEY")>>) \in Seq(StepRecords)
    BY <1>1, StepsMade, Joined
<1>3. <<Fire(0, "KEY")>> \in Seq(StepRecords)
    BY <1>1, StepsMade, IdsFact
<1> QED
    BY <1>2, <1>3, Joined DEF AfterKey

LEMMA KeyTabKeeps ==
    ASSUME Fine, KeyTab
    PROVE  Fine'
<1>1. PICK next \in Ids : SetFocus(w, next, open, <<>>)
    BY DEF KeyTab
<1>2. UNCHANGED <<w, hover, pressed>> /\ <<>> \in Seq(StepRecords)
    BY Joined DEF KeyTab
<1> QED
    BY <1>1, <1>2, Refocused, PointerRange, IdsFact DEF Fine

LEMMA KeyUsedKeeps ==
    ASSUME Fine, KeyUsed
    PROVE  Fine'
<1>1. UNCHANGED <<w, pointers>>
    BY DEF KeyUsed
<1>2. PICK id \in 0..MaxWidgets :
        \/ todo' = AfterKey(id)
        \/ todo' = <<Fire(id, "CHANGE")>> \o AfterKey(id)
        \/ todo' = <<Fire(id, "SUBMIT")>> \o AfterKey(id)
        \/ /\ id # 0
           /\ todo' = <<Fire(id, "PRESS"), Fire(id, "RELEASE"), Do("activate", id, 0)>> \o AfterKey(id)
        \/ id # 0 /\ \E v \in Int : todo' = <<Do("change", id, v)>> \o AfterKey(id)
  <2>1. ASSUME NEW id \in Ids
        PROVE  /\ \A v \in {w[id].value - 1, w[id].value + 1, 0, MaxValue} : v \in Int
               /\ \A v \in {w[id].value - 1, w[id].value + 1} : v \in Int
      BY <2>1, PointerRange, BoundsAssumption DEF Fine
  <2> HIDE DEF Lists, AfterKey
  <2> QED
      BY <2>1, IdsFact DEF KeyUsed
<1>3. AfterKey(id) \in Seq(StepRecords)
    BY AfterKeySteps
<1>4. {"CHANGE", "SUBMIT", "PRESS", "RELEASE"} \subseteq Events
    BY DEF Events
<1>5. CASE todo' \in {AfterKey(id), <<Fire(id, "CHANGE")>> \o AfterKey(id),
                      <<Fire(id, "SUBMIT")>> \o AfterKey(id)}
    BY <1>1, <1>3, <1>4, <1>5, StepsMade, Joined, OnlySteps
<1>6. CASE /\ id # 0
           /\ todo' = <<Fire(id, "PRESS"), Fire(id, "RELEASE"), Do("activate", id, 0)>> \o AfterKey(id)
  <2>1. /\ Fire(id, "PRESS") \in StepRecords /\ Fire(id, "RELEASE") \in StepRecords
        /\ Do("activate", id, 0) \in StepRecords
      BY <1>4, <1>6, FireIsStep, DoMade, Names, IdsFact
  <2>2. todo' \in Seq(StepRecords)
      BY <1>3, <1>6, <2>1, Joined
  <2> QED
      BY <1>1, <2>2, OnlySteps
<1>7. CASE id # 0 /\ \E v \in Int : todo' = <<Do("change", id, v)>> \o AfterKey(id)
  <2>1. todo' \in Seq(StepRecords)
      BY <1>3, <1>7, StepsMade, Names, Joined, IdsFact
  <2> QED
      BY <1>1, <2>1, OnlySteps
<1> QED
    BY <1>2, <1>5, <1>6, <1>7

LEMMA KeyOpensKeeps ==
    ASSUME Fine, KeyOpens
    PROVE  Fine'
<1>1. PICK id \in Ids : /\ Key(id)
                        /\ \/ Kind(id) = "DROPDOWN" /\ open' = (IF open = 0 THEN id ELSE 0)
                           \/ open' = 0
                        /\ todo' = AfterKey(id)
    BY DEF KeyOpens
<1>2. UNCHANGED <<w, focus, hover, pressed>>
    BY DEF KeyOpens
<1>3. Kind(id) = "DROPDOWN" => Valid(id)
    BY DEF Kind, Valid
<1>4. StateOK'
    BY <1>1, <1>2, <1>3, Pointed, PointerRange DEF Fine
<1>5. todo' \in Seq(StepRecords)
    BY <1>1, AfterKeySteps, IdsFact
<1> QED
    BY <1>4, <1>5 DEF Fine, TodoOK

LEMMA KeyLeavesKeeps ==
    ASSUME Fine, KeyLeaves
    PROVE  Fine'
<1>1. PICK id \in Ids : SetFocus(w, 0, open, AfterKey(id))
    BY DEF KeyLeaves
<1>2. UNCHANGED <<w, hover, pressed>> /\ AfterKey(id) \in Seq(StepRecords)
    BY AfterKeySteps, IdsFact DEF KeyLeaves
<1> QED
    BY <1>1, <1>2, Refocused, PointerRange, IdsFact DEF Fine

LEMMA KeyArrowKeeps ==
    ASSUME Fine, KeyArrow
    PROVE  Fine'
<1>1. PICK id \in Ids, next \in Ids : SetFocus(w, next, open, <<Select(next)>> \o AfterKey(id))
    BY DEF KeyArrow
<1>2. UNCHANGED <<w, hover, pressed>>
    BY DEF KeyArrow
<1>3. AfterKey(id) \in Seq(StepRecords)
    BY AfterKeySteps, IdsFact
<1>4. <<Select(next)>> \o AfterKey(id) \in Seq(StepRecords)
    BY <1>3, StepsMade, Joined
<1> QED
    BY <1>1, <1>2, <1>4, Refocused, PointerRange, IdsFact DEF Fine

LEMMA FocusLostKeeps ==
    ASSUME Fine, FocusLost
    PROVE  Fine'
<1> DEFINE leave == IF Valid(hover) THEN <<Fire(hover, "LEAVE")>> ELSE <<>>
<1>1. UNCHANGED <<w, pointers>> /\ todo' = leave \o <<Do("lost", 0, 0)>>
    BY DEF FocusLost
<1>2. leave \in Seq(StepRecords) /\ <<Do("lost", 0, 0)>> \in Seq(StepRecords)
    BY LeaveSteps, StepsMade, Names, IdsFact
<1>3. todo' \in Seq(StepRecords)
  <2> HIDE DEF leave
  <2> QED
      BY <1>1, <1>2, Joined
<1> QED
    BY <1>1, <1>3, OnlySteps

-----------------------------------------------------------------------------
(* The theorems.                                                           *)

LEMMA Starts == Init => Inv
<1> SUFFICES ASSUME Init
             PROVE  Inv
    OBVIOUS
<1>1. PICK window \in Windows :
        w = window.widgets /\ kinds = window.kinds /\ focus = 0 /\ hover = 0 /\ pressed = 0 /\ open = 0
    BY DEF Init
<1>2. kinds \subseteq Kinds
    BY <1>1, WindowsAssumption
<1>3. /\ w = [id \in Ids |-> w[id]]
      /\ \A id \in Ids :
            \/ w[id] = Unused
            \/ \E kind \in Kinds, value \in (-1)..MaxValue, group \in Groups, count \in 0..MaxValue :
                  w[id] = Widget(kind, value, group, count)
    BY <1>1, WindowsAssumption
<1>4. ASSUME NEW id \in Ids
      PROVE  w[id] \in Widgets /\ (w[id].kind = "NONE" => ~w[id].visible /\ ~w[id].enabled)
  <2>1. CASE w[id] = Unused
      BY <2>1 DEF Unused, Widgets, Groups
  <2>2. ASSUME NEW kind \in Kinds, NEW value \in (-1)..MaxValue, NEW group \in Groups,
               NEW count \in 0..MaxValue, w[id] = Widget(kind, value, group, count)
        PROVE  w[id] \in Widgets /\ w[id].kind # "NONE"
    <3>1. kind # "NONE"
        BY DEF Kinds, FocusKinds, Lists
    <3>2. value \in Int /\ count \in Int
        BY BoundsAssumption
    <3> QED
        BY <2>2, <3>1, <3>2 DEF Widget, Widgets
  <2> QED
      BY <1>3, <2>1, <2>2
<1>5. StateOK
    BY <1>1, <1>3, <1>4 DEF StateOK, Good
<1>6. TodoOK
    BY Joined DEF Init, TodoOK
<1> QED
    BY <1>2, <1>5, <1>6 DEF Inv

LEMMA Keeps == Inv /\ [Next]_vars => Inv'
<1> SUFFICES ASSUME Inv, [Next]_vars
             PROVE  Inv'
    OBVIOUS
<1> Fine /\ kinds \subseteq Kinds
    BY DEF Inv, Fine
<1>1. CASE UNCHANGED vars
    BY <1>1, Kept DEF vars, pointers, program, Inv, TodoOK
<1>2. ASSUME HandlerStep
      PROVE  Fine' /\ kinds' = kinds
  <2>1. kinds' = kinds
      BY <1>2 DEF HandlerStep, FireStep, Return, CallSetEnabled, CallSetVisible, CallSetFocus, CallSetValue,
                  CallItems, CallRemove, CallCreate, CallMessage, CallPick, LetGo, Call, program
  <2>2. Fine'
      BY <1>2, FireStepKeeps, ReturnKeeps, CallSetEnabledKeeps, CallSetVisibleKeeps, CallSetFocusKeeps,
         CallSetValueKeeps, CallItemsKeeps, CallRemoveKeeps, CallCreateKeeps, CallMessageKeeps,
         CallPickKeeps, LetGoKeeps
         DEF HandlerStep
  <2> QED
      BY <2>1, <2>2
<1>3. ASSUME Change \/ Radio \/ Activate \/ Released \/ MouseStep \/ Lost
      PROVE  Fine' /\ kinds' = kinds
  <2>1. kinds' = kinds
      BY <1>3 DEF Change, Radio, Activate, Released, MouseStep, Press, Pressed, Grab, Release, Drag, Lost, program
  <2>2. Fine'
      BY <1>3, ChangeKeeps, RadioKeeps, ActivateKeeps, PressKeeps, PressedKeeps, GrabKeeps, ReleaseKeeps,
         DragKeeps, LetGoKeeps
         DEF MouseStep
  <2> QED
      BY <2>1, <2>2
<1>4. ASSUME WindowEvent
      PROVE  Fine' /\ kinds' = kinds
  <2>1. kinds' = kinds
      BY <1>4 DEF WindowEvent, Mouse, MouseOnMessage, PickerMouse, PickerKey, OtherProgram, Wheel, KeyOnMessage, KeyTab, KeyUsed, KeyOpens,
                  KeyLeaves, KeyArrow, FocusLost, Frame, Key, Event, program
  <2>2. Fine'
      BY <1>4, MouseKeeps, ElsewhereKeeps, WheelKeeps, KeyTabKeeps, KeyUsedKeeps, KeyOpensKeeps,
         KeyLeavesKeeps, KeyArrowKeeps, FocusLostKeeps
         DEF WindowEvent
  <2> QED
      BY <2>1, <2>2
<1> QED
    BY <1>1, <1>2, <1>3, <1>4 DEF Next, Inv, Fine

LEMMA Invariant == Spec => []Inv
BY Starts, Keeps, PTL DEF Spec

\* Whatever handlers do in the middle of an event, keys never go to a widget
\* that is gone, hidden or disabled (eui_set_focus and its callers).
THEOREM FocusAlwaysUsable == Spec => []FocusUsable
<1>1. Inv => FocusUsable
    BY DEF Inv, StateOK, Good, FocusUsable
<1> QED
    BY <1>1, Invariant, PTL

\* eui_hover, eui_pressed and eui_open never name a slot that eui_remove has
\* emptied, even if the widget goes in the middle of its own event.
THEOREM PointersAlwaysExist == Spec => []PointersExist
<1>1. Inv => PointersExist
    BY DEF Inv, StateOK, Good, PointersExist, Valid, Kind
<1> QED
    BY <1>1, Invariant, PTL

-----------------------------------------------------------------------------
(* Values: the selection of a list, and one radio button of a group.       *)

\* Steps that set no value, and sequences of them.
Harmless(s) == s.do \notin {"change", "radio"}
Clean(q) == q \in Seq(StepRecords) /\ \A k \in 1..Len(q) : Harmless(q[k])

\* No radio button before n, of the group of the one at id, is selected.
Lone(ws, id, n) ==
    ws[id].kind = "RADIO" =>
        \A i \in Ids : i # id /\ i < n /\ ws[i].kind = "RADIO" /\ ws[i].group = ws[id].group => ws[i].value = 0

\* Steps `q` that are not about to set a value.  What a loop over the radio
\* buttons has passed is clear, and, as long as they do not nest (clear),
\* nothing that comes before it selects one.
Settled(q, ws, clear) ==
    \A k \in 1..Len(q) :
        /\ q[k].do # "change"
        /\ q[k].do = "radio" =>
              /\ ws[q[k].id].kind \in {"RADIO", "NONE"}
              /\ clear /\ q[k].n > 1 =>
                    /\ Lone(ws, q[k].id, q[k].n)
                    /\ \A i \in 1..(k - 1) : q[i].do # "radio"

\* A value that may be set now, before the steps `q`.
Due(s, q, ws, clear) ==
    /\ ws[s.id].kind \in Lists => s.n \in (-1)..(ws[s.id].count - 1)
    /\ clear /\ ws[s.id].kind = "RADIO" /\ s.n # 0 => Lone(ws, s.id, MaxWidgets + 1) /\ ~Selecting(q)

\* Only the first step may set a value.
Orderly(q, ws, clear) ==
    IF q # <<>> /\ Head(q).do = "change"
    THEN Due(Head(q), Tail(q), ws, clear) /\ Settled(Tail(q), ws, clear)
    ELSE Settled(q, ws, clear)

Chosen(ws) ==
    \A id \in Ids : ws[id].kind \in Lists => ws[id].value \in (-1)..(ws[id].count - 1)

Single(ws) ==
    \A i, k \in Ids :
        /\ ws[i].kind = "RADIO" /\ ws[i].value # 0
        /\ ws[k].kind = "RADIO" /\ ws[k].value # 0
        /\ ws[i].group = ws[k].group
        => i = k

ValueInv == ~reused => Orderly(todo, w, ~nested) /\ Chosen(w) /\ (~nested => Single(w))

LEMMA Indices ==
    ASSUME NEW s \in Seq(StepRecords), NEW q \in Seq(StepRecords)
    PROVE  /\ Len(s) \in Nat /\ Len(q) \in Nat /\ Len(s \o q) = Len(s) + Len(q)
           /\ \A k \in 1..Len(s) : k \in 1..Len(s \o q) /\ (s \o q)[k] = s[k]
           /\ \A k \in 1..Len(q) : k + Len(s) \in 1..Len(s \o q) /\ (s \o q)[k + Len(s)] = q[k]
           /\ \A k \in 1..Len(s \o q) : k \in 1..Len(s) \/ (k - Len(s) \in 1..Len(q) /\ (s \o q)[k] = q[k - Len(s)])
<1> DEFINE S == StepRecords
<1> HIDE DEF S
<1> SUFFICES ASSUME s \in Seq(S), q \in Seq(S)
             PROVE  /\ Len(s) \in Nat /\ Len(q) \in Nat /\ Len(s \o q) = Len(s) + Len(q)
                    /\ \A k \in 1..Len(s) : k \in 1..Len(s \o q) /\ (s \o q)[k] = s[k]
                    /\ \A k \in 1..Len(q) : k + Len(s) \in 1..Len(s \o q) /\ (s \o q)[k + Len(s)] = q[k]
                    /\ \A k \in 1..Len(s \o q) :
                          k \in 1..Len(s) \/ (k - Len(s) \in 1..Len(q) /\ (s \o q)[k] = q[k - Len(s)])
    BY DEF S
<1> QED
    OBVIOUS

LEMMA TailIndices ==
    ASSUME NEW q \in Seq(StepRecords), q # <<>>
    PROVE  /\ Tail(q) \in Seq(StepRecords) /\ Len(q) \in Nat /\ Len(Tail(q)) = Len(q) - 1
           /\ 1 \in 1..Len(q) /\ q[1] = Head(q)
           /\ \A k \in 1..Len(Tail(q)) : k + 1 \in 1..Len(q) /\ Tail(q)[k] = q[k + 1]
<1> DEFINE S == StepRecords
<1> HIDE DEF S
<1> SUFFICES ASSUME q \in Seq(S)
             PROVE  /\ Tail(q) \in Seq(S) /\ Len(q) \in Nat /\ Len(Tail(q)) = Len(q) - 1
                    /\ 1 \in 1..Len(q) /\ q[1] = Head(q)
                    /\ \A k \in 1..Len(Tail(q)) : k + 1 \in 1..Len(q) /\ Tail(q)[k] = q[k + 1]
    BY DEF S
<1>1. Len(q) \in Nat /\ Len(q) # 0
    OBVIOUS
<1> QED
    BY <1>1

LEMMA SettledEmpty == \A ws, clear : Settled(<<>>, ws, clear)
BY DEF Settled

LEMMA SettledJoin ==
    ASSUME NEW s, Clean(s), NEW q \in Seq(StepRecords), NEW ws, NEW clear, Settled(q, ws, clear)
    PROVE  s \o q \in Seq(StepRecords) /\ Settled(s \o q, ws, clear)
<1> DEFINE t == s \o q
<1>1. s \in Seq(StepRecords)
    BY DEF Clean
<1>2. /\ Len(s) \in Nat /\ Len(q) \in Nat /\ Len(t) = Len(s) + Len(q)
      /\ \A k \in 1..Len(s) : k \in 1..Len(t) /\ t[k] = s[k]
      /\ \A k \in 1..Len(t) : k \in 1..Len(s) \/ (k - Len(s) \in 1..Len(q) /\ t[k] = q[k - Len(s)])
    BY <1>1, Indices
<1> HIDE DEF t
<1>3. ASSUME NEW k \in 1..Len(t)
      PROVE  /\ t[k].do # "change"
             /\ t[k].do = "radio" =>
                  /\ ws[t[k].id].kind \in {"RADIO", "NONE"}
                  /\ clear /\ t[k].n > 1 =>
                        /\ Lone(ws, t[k].id, t[k].n)
                        /\ \A i \in 1..(k - 1) : t[i].do # "radio"
  <2>1. CASE k \in 1..Len(s)
      BY <1>2, <2>1 DEF Clean, Harmless
  <2>2. CASE k - Len(s) \in 1..Len(q) /\ t[k] = q[k - Len(s)]
    <3>1. ASSUME NEW i \in 1..(k - 1), \A j \in 1..(k - Len(s) - 1) : q[j].do # "radio"
          PROVE  t[i].do # "radio"
      <4>1. i \in 1..Len(t)
          BY <1>2
      <4>2. CASE i \in 1..Len(s)
          BY <1>2, <4>2 DEF Clean, Harmless
      <4>3. CASE i - Len(s) \in 1..Len(q) /\ t[i] = q[i - Len(s)]
        <5>1. i - Len(s) \in 1..(k - Len(s) - 1)
            BY <1>2, <4>3
        <5> QED
            BY <3>1, <4>3, <5>1
      <4> QED
          BY <1>2, <4>1, <4>2, <4>3
    <3> QED
        BY <2>2, <3>1 DEF Settled
  <2> QED
      BY <1>2, <2>1, <2>2
<1>4. Settled(t, ws, clear)
    BY <1>3 DEF Settled
<1> QED
    BY <1>1, <1>4, Joined DEF t

LEMMA SettledTail ==
    ASSUME NEW q \in Seq(StepRecords), q # <<>>, NEW ws, NEW clear, Settled(q, ws, clear)
    PROVE  Tail(q) \in Seq(StepRecords) /\ Settled(Tail(q), ws, clear)
<1> DEFINE t == Tail(q)
<1>1. /\ t \in Seq(StepRecords) /\ Len(q) \in Nat /\ Len(t) = Len(q) - 1
      /\ \A k \in 1..Len(t) : k + 1 \in 1..Len(q) /\ t[k] = q[k + 1]
    BY TailIndices
<1> HIDE DEF t
<1>2. ASSUME NEW k \in 1..Len(t)
      PROVE  /\ t[k].do # "change"
             /\ t[k].do = "radio" =>
                  /\ ws[t[k].id].kind \in {"RADIO", "NONE"}
                  /\ clear /\ t[k].n > 1 =>
                        /\ Lone(ws, t[k].id, t[k].n)
                        /\ \A i \in 1..(k - 1) : t[i].do # "radio"
  <2>1. k + 1 \in 1..Len(q) /\ t[k] = q[k + 1]
      BY <1>1
  <2>2. ASSUME NEW i \in 1..(k - 1), \A j \in 1..((k + 1) - 1) : q[j].do # "radio"
        PROVE  t[i].do # "radio"
    <3>1. i + 1 \in 1..((k + 1) - 1) /\ i \in 1..Len(t)
        BY <1>1
    <3> QED
        BY <1>1, <2>2, <3>1
  <2> QED
      BY <2>1, <2>2 DEF Settled
<1> QED
    BY <1>1, <1>2 DEF Settled, t

LEMMA OneStep ==
    ASSUME NEW s \in StepRecords, NEW q \in Seq(StepRecords)
    PROVE  /\ <<s>> \o q \in Seq(StepRecords) /\ <<s>> \o q # <<>>
           /\ Head(<<s>> \o q) = s /\ Tail(<<s>> \o q) = q
           /\ Len(<<s>> \o q) = Len(q) + 1 /\ (<<s>> \o q)[1] = s
           /\ \A k \in 2..Len(<<s>> \o q) : k - 1 \in 1..Len(q) /\ (<<s>> \o q)[k] = q[k - 1]
<1> DEFINE S == StepRecords
<1> HIDE DEF S
<1> SUFFICES ASSUME s \in S, q \in Seq(S)
             PROVE  /\ <<s>> \o q \in Seq(S) /\ <<s>> \o q # <<>>
                    /\ Head(<<s>> \o q) = s /\ Tail(<<s>> \o q) = q
                    /\ Len(<<s>> \o q) = Len(q) + 1 /\ (<<s>> \o q)[1] = s
                    /\ \A k \in 2..Len(<<s>> \o q) : k - 1 \in 1..Len(q) /\ (<<s>> \o q)[k] = q[k - 1]
    BY DEF S
<1>1. <<s>> \o q \in Seq(S) /\ Len(<<s>> \o q) = Len(q) + 1 /\ (<<s>> \o q)[1] = s /\ Len(q) \in Nat
    OBVIOUS
<1>2. \A k \in 2..Len(<<s>> \o q) : k - 1 \in 1..Len(q) /\ (<<s>> \o q)[k] = q[k - 1]
    BY <1>1
<1>3. <<s>> \o q # <<>> /\ Head(<<s>> \o q) = s
    BY <1>1
<1>4. Tail(<<s>> \o q) = q
    OBVIOUS
<1> QED
    BY <1>1, <1>2, <1>3, <1>4

\* One more pass of the loop over the radio buttons, before other steps.
LEMMA SettledRadio ==
    ASSUME NEW r \in StepRecords, r.do = "radio", NEW q \in Seq(StepRecords), NEW ws, NEW clear,
           Settled(q, ws, clear), ws[r.id].kind \in {"RADIO", "NONE"},
           clear => ~Selecting(q) /\ (r.n > 1 => Lone(ws, r.id, r.n))
    PROVE  <<r>> \o q \in Seq(StepRecords) /\ Settled(<<r>> \o q, ws, clear)
<1> DEFINE t == <<r>> \o q
<1>1. /\ t \in Seq(StepRecords) /\ Len(t) = Len(q) + 1 /\ t[1] = r
      /\ \A k \in 2..Len(t) : k - 1 \in 1..Len(q) /\ t[k] = q[k - 1]
    BY OneStep
<1> HIDE DEF t
<1>2. ASSUME NEW k \in 1..Len(t)
      PROVE  /\ t[k].do # "change"
             /\ t[k].do = "radio" =>
                  /\ ws[t[k].id].kind \in {"RADIO", "NONE"}
                  /\ clear /\ t[k].n > 1 =>
                        /\ Lone(ws, t[k].id, t[k].n)
                        /\ \A i \in 1..(k - 1) : t[i].do # "radio"
  <2>1. CASE k = 1
      BY <1>1, <2>1
  <2>2. CASE k \in 2..Len(t)
    <3>1. k - 1 \in 1..Len(q) /\ t[k] = q[k - 1]
        BY <1>1, <2>2
    <3>2. clear => ~(q[k - 1].do = "radio" /\ q[k - 1].n > 1)
        BY <3>1 DEF Selecting
    <3> QED
        BY <3>1, <3>2 DEF Settled
  <2> QED
      BY <2>1, <2>2
<1> QED
    BY <1>1, <1>2 DEF Settled, t

\* What is left once the first step is done.
LEMMA RestSettled ==
    ASSUME TodoOK, NEW do, Now(do), Orderly(todo, w, ~nested)
    PROVE  /\ Rest \in Seq(StepRecords) /\ Settled(Rest, w, ~nested)
           /\ do = "change" => Due(Head(todo), Rest, w, ~nested)
           /\ do # "change" => Settled(todo, w, ~nested)
BY SettledTail DEF TodoOK, Now, Rest, Orderly

\* The loop over the radio buttons is under way at most once.
LEMMA AtTheLoop ==
    ASSUME TodoOK, Now("radio"), Settled(todo, w, ~nested)
    PROVE  /\ w[Id].kind \in {"RADIO", "NONE"}
           /\ ~nested => ~Selecting(Rest)
           /\ ~nested /\ Head(todo).n > 1 => Lone(w, Id, Head(todo).n)
<1>1. /\ Rest \in Seq(StepRecords) /\ Len(todo) \in Nat /\ Len(Rest) = Len(todo) - 1
      /\ 1 \in 1..Len(todo) /\ todo[1] = Head(todo)
      /\ \A k \in 1..Len(Rest) : k + 1 \in 1..Len(todo) /\ Rest[k] = todo[k + 1]
    BY TailIndices DEF TodoOK, Now, Rest
<1>2. todo[1].do = "radio"
    BY <1>1 DEF Now
<1>3. ASSUME ~nested, NEW k \in 1..Len(Rest), Rest[k].do = "radio", Rest[k].n > 1
      PROVE  FALSE
  <2>1. \A i \in 1..((k + 1) - 1) : todo[i].do # "radio"
      BY <1>1, <1>3 DEF Settled
  <2>2. 1 \in 1..((k + 1) - 1)
      BY <1>1
  <2> QED
      BY <1>2, <2>1, <2>2
<1> QED
    BY <1>1, <1>2, <1>3 DEF Settled, Selecting, Id

LEMMA SettledOrderly ==
    ASSUME NEW q \in Seq(StepRecords), NEW ws, NEW clear, Settled(q, ws, clear)
    PROVE  Orderly(q, ws, clear)
<1>1. ASSUME q # <<>>
      PROVE  Head(q).do # "change"
    BY <1>1, TailIndices DEF Settled
<1> QED
    BY <1>1 DEF Orderly

LEMMA ChangeOrderly ==
    ASSUME NEW s \in StepRecords, s.do = "change", NEW q \in Seq(StepRecords), NEW ws, NEW clear,
           Settled(q, ws, clear), Due(s, q, ws, clear)
    PROVE  Orderly(<<s>> \o q, ws, clear)
BY OneStep DEF Orderly

\* Where no widget changes, it is enough to look at the steps.
LEMMA SameValues ==
    ASSUME ValueInv, UNCHANGED <<w, nested, reused>>,
           ~reused => todo' \in Seq(StepRecords) /\ Settled(todo', w, ~nested)
    PROVE  ValueInv'
<1>1. ~reused => Orderly(todo', w, ~nested)
    BY SettledOrderly
<1> QED
    BY <1>1 DEF ValueInv

\* The same where the first step now sets a value.
LEMMA ValueNext ==
    ASSUME ValueInv, UNCHANGED <<w, nested, reused>>,
           NEW s \in StepRecords, s.do = "change", NEW q \in Seq(StepRecords), todo' = <<s>> \o q,
           ~reused => Settled(q, w, ~nested) /\ Due(s, q, w, ~nested)
    PROVE  ValueInv'
<1>1. ~reused => Orderly(todo', w, ~nested)
    BY ChangeOrderly
<1> QED
    BY <1>1 DEF ValueInv

LEMMA CleanMade ==
    /\ Clean(<<>>)
    /\ \A s \in StepRecords : Harmless(s) => Clean(<<s>>)
    /\ \A id \in 0..MaxWidgets, event \in Events : Clean(<<Fire(id, event)>>)
    /\ \A do \in Steps \ {"change", "radio"}, id \in 0..MaxWidgets, n \in Int :
          (do \in ForWidgets => id # 0) => Clean(<<Do(do, id, n)>>)
<1>1. \A s \in StepRecords : Harmless(s) => Clean(<<s>>)
  <2> SUFFICES ASSUME NEW s \in StepRecords, Harmless(s)
               PROVE  Clean(<<s>>)
      OBVIOUS
  <2>1. <<s>> \in Seq(StepRecords)
      BY Joined
  <2>2. \A k \in 1..Len(<<s>>) : <<s>>[k] = s
      OBVIOUS
  <2> QED
      BY <2>1, <2>2 DEF Clean
<1>2. \A id \in 0..MaxWidgets, event \in Events : Harmless(Fire(id, event))
    BY DEF Fire, Step, Harmless
<1>3. \A do \in Steps \ {"change", "radio"}, id \in 0..MaxWidgets, n \in Int : Harmless(Do(do, id, n))
    BY DEF Do, Step, Harmless
<1>4. Clean(<<>>)
    BY Joined DEF Clean
<1> QED
    BY <1>1, <1>2, <1>3, <1>4, FireIsStep, DoIsStep

LEMMA CleanJoin ==
    ASSUME NEW s, NEW t, Clean(s), Clean(t)
    PROVE  Clean(s \o t)
<1> DEFINE u == s \o t
<1>1. s \in Seq(StepRecords) /\ t \in Seq(StepRecords)
    BY DEF Clean
<1>2. /\ \A k \in 1..Len(s) : u[k] = s[k]
      /\ \A k \in 1..Len(u) : k \in 1..Len(s) \/ (k - Len(s) \in 1..Len(t) /\ u[k] = t[k - Len(s)])
    BY <1>1, Indices
<1>3. u \in Seq(StepRecords)
    BY <1>1, Joined
<1> HIDE DEF u
<1>4. \A k \in 1..Len(u) : Harmless(u[k])
    BY <1>2 DEF Clean
<1> QED
    BY <1>3, <1>4 DEF Clean, u

\* What eui_set_focus does before its caller goes on.
LEMMA FocusClean ==
    ASSUME NEW ws, NEW asked \in 0..MaxWidgets, NEW list, NEW rest \in Seq(StepRecords),
           focus \in 0..MaxWidgets, SetFocus(ws, asked, list, rest)
    PROVE  \E s : Clean(s) /\ todo' \in {rest, s \o rest}
<1> DEFINE id == IF FocusableIn(ws, asked) THEN asked ELSE 0
           blur == IF focus # 0 THEN <<Fire(focus, "BLUR")>> ELSE <<>>
           gain == IF id # 0 THEN <<Fire(id, "FOCUS")>> ELSE <<>>
<1>1. id \in 0..MaxWidgets
    BY IdsFact
<1>2. CASE id = focus
    BY <1>2, CleanMade DEF SetFocus
<1>3. CASE id # focus
  <2>1. todo' = (blur \o gain) \o rest
      BY <1>3 DEF SetFocus
  <2>2. "BLUR" \in Events /\ "FOCUS" \in Events
      BY DEF Events
  <2>3. Clean(blur)
      BY <2>2, CleanMade
  <2>4. Clean(gain)
      BY <1>1, <2>2, CleanMade
  <2> HIDE DEF blur, gain
  <2> QED
      BY <2>1, <2>3, <2>4, CleanJoin
<1> QED
    BY <1>2, <1>3

LEMMA FocusSettled ==
    ASSUME NEW ws, NEW asked \in 0..MaxWidgets, NEW list, NEW rest \in Seq(StepRecords),
           focus \in 0..MaxWidgets, SetFocus(ws, asked, list, rest),
           NEW vs, NEW clear, Settled(rest, vs, clear)
    PROVE  todo' \in Seq(StepRecords) /\ Settled(todo', vs, clear)
<1>1. PICK s : Clean(s) /\ todo' \in {rest, s \o rest}
    BY FocusClean
<1> QED
    BY <1>1, SettledJoin

\* Widgets that change into `vs` without one being selected, or one being
\* made.
Milder(ws, vs) ==
    \A id \in Ids :
        /\ vs[id].kind \in {ws[id].kind, "NONE"}
        /\ vs[id].kind = "RADIO" => vs[id].group = ws[id].group /\ vs[id].value \in {ws[id].value, 0}

LEMMA MilderKeeps ==
    ASSUME NEW ws, NEW vs, Milder(ws, vs)
    PROVE  /\ \A q \in Seq(StepRecords) : \A clear : Settled(q, ws, clear) => Settled(q, vs, clear)
           /\ Single(ws) => Single(vs)
<1>1. ASSUME NEW id \in Ids, NEW n, Lone(ws, id, n)
      PROVE  Lone(vs, id, n)
  <2> SUFFICES ASSUME vs[id].kind = "RADIO", NEW i \in Ids, i # id, i < n,
                      vs[i].kind = "RADIO", vs[i].group = vs[id].group
               PROVE  vs[i].value = 0
      BY DEF Lone
  <2>1. ws[id].kind = "RADIO" /\ ws[i].kind = "RADIO" /\ ws[i].group = ws[id].group
      BY DEF Milder
  <2>2. ws[i].value = 0
      BY <1>1, <2>1 DEF Lone
  <2> QED
      BY <2>2 DEF Milder
<1>2. ASSUME NEW q \in Seq(StepRecords), NEW clear, Settled(q, ws, clear)
      PROVE  Settled(q, vs, clear)
  <2> SUFFICES ASSUME NEW k \in 1..Len(q), q[k].do = "radio"
               PROVE  /\ vs[q[k].id].kind \in {"RADIO", "NONE"}
                      /\ clear /\ q[k].n > 1 => Lone(vs, q[k].id, q[k].n)
      BY <1>2 DEF Settled
  <2>1. q[k] \in StepRecords
      BY ElementOfSeq
  <2>2. q[k].id \in Ids
      BY <2>1, IdsFact, Names DEF StepRecords
  <2>3. ws[q[k].id].kind \in {"RADIO", "NONE"} /\ (clear /\ q[k].n > 1 => Lone(ws, q[k].id, q[k].n))
      BY <1>2 DEF Settled
  <2>4. vs[q[k].id].kind \in {"RADIO", "NONE"}
      BY <2>2, <2>3 DEF Milder
  <2> QED
      BY <1>1, <2>2, <2>3, <2>4
<1>3. Single(ws) => Single(vs)
  <2> SUFFICES ASSUME Single(ws), NEW i \in Ids, NEW k \in Ids,
                      vs[i].kind = "RADIO", vs[i].value # 0, vs[k].kind = "RADIO", vs[k].value # 0,
                      vs[i].group = vs[k].group
               PROVE  i = k
      BY DEF Single
  <2>1. /\ ws[i].kind = "RADIO" /\ ws[i].value # 0 /\ ws[k].kind = "RADIO" /\ ws[k].value # 0
        /\ ws[i].group = ws[k].group
      BY DEF Milder
  <2> QED
      BY <2>1 DEF Single
<1> QED
    BY <1>2, <1>3

\* A step of a function that sets no value and makes no widget.
LEMMA MilderValues ==
    ASSUME ValueInv, Milder(w, w'), UNCHANGED <<nested, reused>>, Chosen(w) => Chosen(w'),
           ~reused => todo' \in Seq(StepRecords) /\ Settled(todo', w, ~nested)
    PROVE  ValueInv'
<1>1. ~reused => Orderly(todo', w', ~nested)
    BY MilderKeeps, SettledOrderly
<1> QED
    BY <1>1, MilderKeeps DEF ValueInv

\* The first step is done; what it leaves before the others sets no value.
LEMMA RestValues ==
    ASSUME Fine, ValueInv, NEW do, Now(do), do # "change", UNCHANGED <<w, nested, reused>>,
           NEW s, Clean(s), todo' \in {Rest, s \o Rest}
    PROVE  ValueInv'
<1>1. ASSUME ~reused
      PROVE  todo' \in Seq(StepRecords) /\ Settled(todo', w, ~nested)
  <2>1. Rest \in Seq(StepRecords) /\ Settled(Rest, w, ~nested)
      BY <1>1, RestSettled DEF Fine, ValueInv
  <2> QED
      BY <2>1, SettledJoin
<1> QED
    BY <1>1, SameValues

\* A handler goes on after what it has called for.
LEMMA HandlerSettled ==
    ASSUME Fine, ValueInv, Now("handler"), ~reused
    PROVE  todo \in Seq(StepRecords) /\ Settled(todo, w, ~nested)
BY RestSettled DEF Fine, ValueInv, TodoOK

LEMMA CallValues ==
    ASSUME Fine, ValueInv, Now("handler"), UNCHANGED <<w, nested, reused>>,
           NEW s, Clean(s), todo' \in {todo, s \o todo}
    PROVE  ValueInv'
BY HandlerSettled, SettledJoin, SameValues

LEMMA FireStepValues ==
    ASSUME Fine, ValueInv, FireStep
    PROVE  ValueInv'
<1> DEFINE s == [Head(todo) EXCEPT !.do = "handler"]
<1>1. Now("fire") /\ todo' \in {Rest, <<s>> \o Rest} /\ UNCHANGED <<w, nested, reused>>
    BY DEF FireStep, history
<1>2. s \in StepRecords /\ Harmless(s)
  <2>1. Head(todo) \in StepRecords
      BY <1>1, HeadIsStep DEF Fine
  <2>2. "handler" \in Steps /\ "handler" \notin ForWidgets /\ "handler" \notin {"radio", "change"}
      BY DEF Steps, ForWidgets
  <2> QED
      BY <2>1, <2>2 DEF StepRecords, Harmless
<1> HIDE DEF s
<1> QED
    BY <1>1, <1>2, CleanMade, RestValues

LEMMA CallSetEnabledValues ==
    ASSUME Fine, ValueInv, CallSetEnabled
    PROVE  ValueInv'
<1>1. PICK id \in Ids, on \in BOOLEAN :
        /\ w' = [w EXCEPT ![id].enabled = on]
        /\ IF ~on /\ focus = id THEN SetFocus(w', 0, open, todo) ELSE UNCHANGED <<focus, open, todo>>
    BY DEF CallSetEnabled
<1>2. Now("handler") /\ UNCHANGED <<nested, reused>>
    BY DEF CallSetEnabled, Call, history
<1>3. \A i \in Ids : /\ w'[i].kind = w[i].kind /\ w'[i].group = w[i].group
                     /\ w'[i].value = w[i].value /\ w'[i].count = w[i].count
    BY <1>1 DEF Fine, StateOK, Good, Widgets
<1>4. Milder(w, w') /\ (Chosen(w) => Chosen(w'))
    BY <1>3 DEF Milder, Chosen
<1>5. ASSUME ~reused
      PROVE  todo' \in Seq(StepRecords) /\ Settled(todo', w, ~nested)
    BY <1>1, <1>2, <1>5, HandlerSettled, FocusSettled, PointerRange, IdsFact DEF Fine
<1> QED
    BY <1>2, <1>4, <1>5, MilderValues

LEMMA CallSetVisibleValues ==
    ASSUME Fine, ValueInv, CallSetVisible
    PROVE  ValueInv'
<1> DEFINE List(id, on) == IF ~on /\ open = id THEN 0 ELSE open
<1>1. PICK id \in Ids, on \in BOOLEAN :
        /\ w' = [w EXCEPT ![id].visible = on]
        /\ IF ~on /\ focus = id THEN SetFocus(w', 0, List(id, on), todo)
                                 ELSE open' = List(id, on) /\ UNCHANGED <<focus, todo>>
    BY DEF CallSetVisible
<1> HIDE DEF List
<1>2. Now("handler") /\ UNCHANGED <<nested, reused>>
    BY DEF CallSetVisible, Call, history
<1>3. \A i \in Ids : /\ w'[i].kind = w[i].kind /\ w'[i].group = w[i].group
                     /\ w'[i].value = w[i].value /\ w'[i].count = w[i].count
    BY <1>1 DEF Fine, StateOK, Good, Widgets
<1>4. Milder(w, w') /\ (Chosen(w) => Chosen(w'))
    BY <1>3 DEF Milder, Chosen
<1>5. ASSUME ~reused
      PROVE  todo' \in Seq(StepRecords) /\ Settled(todo', w, ~nested)
    BY <1>1, <1>2, <1>5, HandlerSettled, FocusSettled, PointerRange, IdsFact DEF Fine
<1> QED
    BY <1>2, <1>4, <1>5, MilderValues

LEMMA CallSetFocusValues ==
    ASSUME Fine, ValueInv, CallSetFocus
    PROVE  ValueInv'
<1>1. PICK id \in 0..MaxWidgets : SetFocus(w, id, open, todo)
    BY DEF CallSetFocus
<1>2. Now("handler") /\ UNCHANGED <<w, nested, reused>>
    BY DEF CallSetFocus, Call, history
<1>3. PICK s : Clean(s) /\ todo' \in {todo, s \o todo}
    BY <1>1, FocusClean, PointerRange DEF Fine, TodoOK
<1> QED
    BY <1>2, <1>3, CallValues

LEMMA CallItemsValues ==
    ASSUME Fine, ValueInv, CallItems
    PROVE  ValueInv'
<1>1. PICK id \in Ids : /\ Kind(id) \in Lists
                        /\ \/ w' = [w EXCEPT ![id].count = w[id].count + 1]
                           \/ w' = [w EXCEPT ![id].count = 0, ![id].value = -1]
  <2> HIDE DEF Lists
  <2> QED
      BY DEF CallItems
<1>2. Now("handler") /\ UNCHANGED <<todo, nested, reused>>
    BY DEF CallItems, Call, history
<1>3. w \in [Ids -> Widgets] /\ w[id].count \in Int /\ w[id].kind \notin {"RADIO", "NONE"}
    BY <1>1 DEF Fine, StateOK, Good, Widgets, Kind, Lists
<1>4. \A i \in Ids : /\ w'[i].kind = w[i].kind /\ w'[i].group = w[i].group
                     /\ i # id => w'[i].value = w[i].value /\ w'[i].count = w[i].count
    BY <1>1, <1>3 DEF Widgets
<1>5. \/ w'[id].count = w[id].count + 1 /\ w'[id].value = w[id].value
      \/ w'[id].count = 0 /\ w'[id].value = -1
    BY <1>1, <1>3 DEF Widgets
<1>6. Milder(w, w')
    BY <1>3, <1>4 DEF Milder
<1>7. Chosen(w) => Chosen(w')
    BY <1>3, <1>4, <1>5 DEF Chosen
<1> QED
    BY <1>2, <1>6, <1>7, MilderValues, HandlerSettled

LEMMA CallRemoveValues ==
    ASSUME Fine, ValueInv, CallRemove
    PROVE  ValueInv'
<1>1. PICK id \in Ids : w' = [w EXCEPT ![id] = Unused]
    BY DEF CallRemove, RemoveWidget
<1>2. Now("handler") /\ UNCHANGED <<todo, nested, reused>>
    BY DEF CallRemove, Call, history
<1>3. w'[id].kind = "NONE" /\ \A i \in Ids : i # id => w'[i] = w[i]
    BY <1>1 DEF Fine, StateOK, Good, Unused
<1>4. Milder(w, w')
    BY <1>3 DEF Milder
<1>5. Chosen(w) => Chosen(w')
    BY <1>3 DEF Chosen, Lists
<1> QED
    BY <1>2, <1>4, <1>5, MilderValues, HandlerSettled

LEMMA CallCreateValues ==
    ASSUME Fine, ValueInv, CallCreate, kinds \subseteq Kinds
    PROVE  ValueInv'
<1>1. PICK id \in Ids, kind \in kinds, group \in Groups :
        /\ ~Valid(id)
        /\ w' = [w EXCEPT ![id] = Widget(kind, FreshValue(kind, group), group, 0)]
        /\ reused' = (reused \/ \E k \in 1..Len(todo) :
                                   todo[k].id = id /\ todo[k].do \notin {"fire", "handler"})
    BY DEF CallCreate
<1>2. Now("handler") /\ UNCHANGED <<todo, nested>>
    BY DEF CallCreate, Call
<1> DEFINE new == Widget(kind, FreshValue(kind, group), group, 0)
<1>3. w'[id] = new /\ w[id].kind = "NONE" /\ \A i \in Ids : i # id => w'[i] = w[i]
    BY <1>1 DEF Fine, StateOK, Good, Valid
<1>4. new.kind = kind /\ new.group = group /\ new.value = FreshValue(kind, group) /\ new.count = 0
    BY DEF Widget
<1> HIDE DEF new
<1>5. ASSUME kind = "RADIO", NEW i \in Ids, w[i].kind = "RADIO", w[i].group = group
      PROVE  w'[id].value = 0
  <2>1. FreshValue("RADIO", group) = 0
      BY <1>5 DEF FreshValue, Lists
  <2> QED
      BY <1>3, <1>4, <1>5, <2>1
<1>6. kind \in Lists => w'[id].value = -1 /\ w'[id].count = 0
  <2>1. "RADIO" \notin Lists
      BY DEF Lists
  <2> QED
      BY <1>3, <1>4, <2>1 DEF FreshValue
<1> SUFFICES ASSUME ~reused'
             PROVE  Orderly(todo', w', ~nested') /\ Chosen(w') /\ (~nested' => Single(w'))
    BY DEF ValueInv
<1>7. ~reused /\ \A k \in 1..Len(todo) : todo[k].do = "radio" => todo[k].id # id
    BY <1>1
<1>8. todo \in Seq(StepRecords) /\ Settled(todo, w, ~nested) /\ Chosen(w) /\ (~nested => Single(w))
    BY <1>2, <1>7, HandlerSettled DEF ValueInv
<1>9. ASSUME NEW a \in Ids, a # id, NEW n, Lone(w, a, n)
      PROVE  Lone(w', a, n)
  <2> SUFFICES ASSUME w'[a].kind = "RADIO", NEW i \in Ids, i # a, i < n,
                      w'[i].kind = "RADIO", w'[i].group = w'[a].group
               PROVE  w'[i].value = 0
      BY DEF Lone
  <2>1. w'[a] = w[a]
      BY <1>3, <1>9
  <2>2. CASE i = id
      BY <1>3, <1>4, <1>5, <2>1, <2>2
  <2>3. CASE i # id
      BY <1>3, <1>9, <2>1, <2>3 DEF Lone
  <2> QED
      BY <2>2, <2>3
<1>10. Settled(todo, w', ~nested)
  <2> SUFFICES ASSUME NEW k \in 1..Len(todo), todo[k].do = "radio"
               PROVE  /\ w'[todo[k].id].kind \in {"RADIO", "NONE"}
                      /\ ~nested /\ todo[k].n > 1 => Lone(w', todo[k].id, todo[k].n)
      BY <1>8 DEF Settled
  <2>1. todo[k] \in StepRecords
      BY <1>8, ElementOfSeq
  <2>2. todo[k].id \in Ids /\ todo[k].id # id
      BY <1>7, <2>1, IdsFact, Names DEF StepRecords
  <2>3. /\ w[todo[k].id].kind \in {"RADIO", "NONE"}
        /\ ~nested /\ todo[k].n > 1 => Lone(w, todo[k].id, todo[k].n)
      BY <1>8 DEF Settled
  <2> QED
      BY <1>3, <1>9, <2>2, <2>3
<1>11. Chosen(w')
    BY <1>3, <1>4, <1>6, <1>8 DEF Chosen
<1>12. Single(w) => Single(w')
  <2> SUFFICES ASSUME Single(w), NEW i \in Ids, NEW k \in Ids,
                      w'[i].kind = "RADIO", w'[i].value # 0, w'[k].kind = "RADIO", w'[k].value # 0,
                      w'[i].group = w'[k].group
               PROVE  i = k
      BY DEF Single
  <2>1. CASE i # id /\ k # id
      BY <1>3, <2>1 DEF Single
  <2>2. ASSUME i = id, k # id
        PROVE  FALSE
      BY <1>3, <1>4, <1>5, <2>2
  <2>3. ASSUME i # id, k = id
        PROVE  FALSE
      BY <1>3, <1>4, <1>5, <2>3
  <2> QED
      BY <2>1, <2>2, <2>3
<1> QED
    BY <1>2, <1>8, <1>10, <1>11, <1>12, SettledOrderly

LEMMA CallPickValues ==
    ASSUME Fine, ValueInv, CallPick
    PROVE  ValueInv'
<1> DEFINE leave == IF Valid(hover) THEN <<Fire(hover, "LEAVE")>> ELSE <<>>
<1>1. todo' = (leave \o <<Do("letgo", 0, 0)>>) \o todo
    BY DEF CallPick
<1>2. Now("handler") /\ UNCHANGED <<w, nested, reused>>
    BY DEF CallPick, Call, history
<1>3. Clean(leave)
  <2>1. "LEAVE" \in Events
      BY DEF Events
  <2> QED
      BY <2>1, CleanMade, PointerRange DEF Fine
<1>4. Clean(<<Do("letgo", 0, 0)>>)
  <2>1. "letgo" \in Steps \ {"change", "radio"} /\ "letgo" \notin ForWidgets
      BY DEF Steps, ForWidgets
  <2> QED
      BY <2>1, CleanMade, IdsFact
<1> HIDE DEF leave
<1> QED
    BY <1>1, <1>2, <1>3, <1>4, CleanJoin, CallValues

\* Steps that are just done, and a call that changes no widget and no step.
LEMMA NothingSet ==
    ASSUME Fine, ValueInv, Return \/ LetGo \/ Lost \/ CallMessage
    PROVE  ValueInv'
<1>1. UNCHANGED <<w, nested, reused>>
    BY DEF Return, LetGo, Lost, CallMessage, history
<1>2. CASE CallMessage
    BY <1>1, <1>2, CallValues, CleanMade DEF CallMessage, Call
<1>3. CASE Return \/ LetGo \/ Lost
    BY <1>1, <1>3, RestValues, CleanMade DEF Return, LetGo, Lost
<1> QED
    BY <1>2, <1>3

LEMMA StillSettled ==
    ASSUME NEW q, NEW ws, NEW clear, NEW clearer, Settled(q, ws, clear), clearer => clear
    PROVE  Settled(q, ws, clearer)
BY DEF Settled

LEMMA SameWidgets ==
    ASSUME ValueInv, UNCHANGED <<w, reused>>, nested => nested', ~reused => Orderly(todo', w, ~nested')
    PROVE  ValueInv'
BY DEF ValueInv

LEMMA CallSetValueValues ==
    ASSUME Fine, ValueInv, CallSetValue
    PROVE  ValueInv'
<1>1. PICK id \in Ids, v \in (-1)..MaxValue :
        /\ Valid(id)
        /\ nested' = (nested \/ (Kind(id) = "RADIO" /\ Selecting(todo)))
        /\ CASE Kind(id) = "RADIO" /\ v # 0 -> todo' = <<Select(id)>> \o todo
             [] Kind(id) = "CHECKBOX" \/ (Kind(id) = "RADIO" /\ v = 0) ->
                    todo' = <<Do("change", id, IF v # 0 THEN 1 ELSE 0)>> \o todo
             [] Kind(id) \in Lists -> v < w[id].count /\ todo' = <<Do("change", id, v)>> \o todo
             [] OTHER -> todo' = <<Do("change", id, v)>> \o todo
    BY DEF CallSetValue
<1>2. Now("handler") /\ UNCHANGED <<w, reused>>
    BY DEF CallSetValue, Call
<1> SUFFICES ASSUME ~reused
             PROVE  Orderly(todo', w, ~nested')
    BY <1>1, <1>2, SameWidgets
<1>3. todo \in Seq(StepRecords) /\ Settled(todo, w, ~nested')
    BY <1>1, <1>2, HandlerSettled, StillSettled
<1>6. w[id].count \in Int /\ v \in Int /\ "RADIO" \notin Lists /\ "CHECKBOX" \notin Lists
    BY PointerRange, BoundsAssumption DEF Fine, Lists
<1>4. CASE Kind(id) = "RADIO" /\ v # 0
  <2>1. todo' = <<Select(id)>> \o todo
      BY <1>1, <1>4, <1>6
  <2>5. w[id].kind = "RADIO"
      BY <1>4 DEF Kind
  <2>2. Select(id) \in StepRecords /\ Select(id).do = "radio" /\ Select(id).id = id /\ Select(id).n = 1
      BY DoMade DEF Select, Do, Step
  <2>3. ~nested' => ~Selecting(todo)
      BY <1>1, <1>4
  <2>4. todo' \in Seq(StepRecords) /\ Settled(todo', w, ~nested')
    <3> DEFINE r == Select(id)
    <3>1. r \in StepRecords /\ r.do = "radio" /\ w[r.id].kind \in {"RADIO", "NONE"} /\ ~(r.n > 1)
        BY <2>2, <2>5
    <3> HIDE DEF r
    <3>2. <<r>> \o todo \in Seq(StepRecords) /\ Settled(<<r>> \o todo, w, ~nested')
        BY <1>3, <2>3, <3>1, SettledRadio
    <3> QED
        BY <2>1, <3>2 DEF r
  <2> QED
      BY <2>4, SettledOrderly
<1>5. ASSUME NEW n \in Int, todo' = <<Do("change", id, n)>> \o todo,
             Kind(id) \in Lists => n \in (-1)..(w[id].count - 1), Kind(id) = "RADIO" => n = 0
      PROVE  Orderly(todo', w, ~nested')
  <2> DEFINE s == Do("change", id, n)
  <2>1. s \in StepRecords
      BY DoMade, Names
  <2>2. s.do = "change" /\ s.id = id /\ s.n = n
      BY DEF Do, Step
  <2>3. Due(s, todo, w, ~nested')
      BY <1>5, <2>2 DEF Due, Kind
  <2> QED
      BY <1>3, <1>5, <2>1, <2>2, <2>3, ChangeOrderly
<1>7. CASE Kind(id) = "CHECKBOX" \/ (Kind(id) = "RADIO" /\ v = 0)
  <2> DEFINE n == IF v # 0 THEN 1 ELSE 0
  <2>1. todo' = <<Do("change", id, n)>> \o todo
      BY <1>1, <1>6, <1>7
  <2>2. n \in Int /\ (Kind(id) = "RADIO" => n = 0) /\ Kind(id) \notin Lists
      BY <1>6, <1>7
  <2> HIDE DEF n
  <2> QED
      BY <1>5, <2>1, <2>2
<1>8. CASE Kind(id) \notin {"CHECKBOX", "RADIO"} /\ Kind(id) \in Lists
  <2>1. v < w[id].count /\ todo' = <<Do("change", id, v)>> \o todo
      BY <1>1, <1>8
  <2> QED
      BY <1>5, <1>6, <1>8, <2>1
<1>9. CASE Kind(id) \notin {"CHECKBOX", "RADIO"} /\ Kind(id) \notin Lists
  <2>1. todo' = <<Do("change", id, v)>> \o todo
      BY <1>1, <1>9
  <2> QED
      BY <1>5, <1>6, <1>9, <2>1
<1> QED
    BY <1>4, <1>7, <1>8, <1>9

LEMMA ChangeValues ==
    ASSUME Fine, ValueInv, Change
    PROVE  ValueInv'
<1> DEFINE v == IF Kind(Id) = "SLIDER" THEN Clamp(Head(todo).n) ELSE Head(todo).n
<1>1. /\ Now("change") /\ UNCHANGED <<nested, reused>>
      /\ \/ UNCHANGED w /\ todo' = Rest
         \/ w' = [w EXCEPT ![Id].value = v] /\ todo' = <<Fire(Id, "CHANGE")>> \o Rest
    BY DEF Change, history
<1>2. Id \in Ids /\ w \in [Ids -> Widgets]
    BY <1>1, HeadIsStep DEF Fine, ForWidgets, StateOK, Good
<1>3. Kind(Id) \in Lists \cup {"RADIO"} => v = Head(todo).n
    BY DEF Lists
<1> HIDE DEF v
<1> SUFFICES ASSUME ~reused
             PROVE  Orderly(todo', w', ~nested) /\ Chosen(w') /\ (~nested => Single(w'))
    BY <1>1 DEF ValueInv
<1>4. /\ Rest \in Seq(StepRecords) /\ Settled(Rest, w, ~nested)
      /\ Due(Head(todo), Rest, w, ~nested) /\ Chosen(w) /\ (~nested => Single(w))
    BY <1>1, RestSettled DEF Fine, ValueInv
<1>5. CASE UNCHANGED w /\ todo' = Rest
    BY <1>4, <1>5, SettledOrderly
<1>6. CASE w' = [w EXCEPT ![Id].value = v] /\ todo' = <<Fire(Id, "CHANGE")>> \o Rest
  <2>1. /\ \A i \in Ids : w'[i].kind = w[i].kind /\ w'[i].group = w[i].group /\ w'[i].count = w[i].count
        /\ \A i \in Ids : i # Id => w'[i].value = w[i].value
        /\ w'[Id].value = v
      BY <1>2, <1>6 DEF Widgets
  <2>2. Chosen(w')
      BY <1>2, <1>3, <1>4, <2>1 DEF Chosen, Due, Id, Kind
  <2>3. Settled(Rest, w', ~nested) /\ (~nested => Single(w'))
    <3>1. CASE w[Id].kind = "RADIO" => v = 0
      <4>1. Milder(w, w')
          BY <1>2, <2>1, <3>1 DEF Milder
      <4> QED
          BY <1>4, <4>1, MilderKeeps
    <3>2. CASE w[Id].kind = "RADIO" /\ v # 0
      <4>1. ~nested => Lone(w, Id, MaxWidgets + 1) /\ ~Selecting(Rest)
          BY <1>3, <1>4, <3>2 DEF Due, Id, Kind
      <4>2. Settled(Rest, w', ~nested)
        <5> SUFFICES ASSUME NEW k \in 1..Len(Rest), Rest[k].do = "radio"
                     PROVE  w'[Rest[k].id].kind \in {"RADIO", "NONE"} /\ (~nested => ~(Rest[k].n > 1))
            BY <1>4 DEF Settled
        <5>1. Rest[k] \in StepRecords
            BY <1>4, ElementOfSeq
        <5>2. Rest[k].id \in Ids
            BY <5>1, IdsFact, Names DEF StepRecords
        <5> QED
            BY <1>4, <2>1, <4>1, <5>2 DEF Settled, Selecting
      <4>3. ASSUME ~nested
            PROVE  Single(w')
        <5>1. \A i \in Ids : i # Id /\ w[i].kind = "RADIO" /\ w[i].group = w[Id].group => w[i].value = 0
          <6>1. \A i \in Ids : i < MaxWidgets + 1
              BY WidgetsAssumption DEF Ids
          <6> QED
              BY <3>2, <4>1, <4>3, <6>1 DEF Lone
        <5> QED
            BY <1>4, <2>1, <4>3, <5>1 DEF Single
      <4> QED
          BY <4>2, <4>3
    <3> QED
        BY <3>1, <3>2
  <2>4. Clean(<<Fire(Id, "CHANGE")>>)
    <3>1. "CHANGE" \in Events
        BY DEF Events
    <3> QED
        BY <1>2, <3>1, CleanMade, IdsFact
  <2> QED
      BY <1>4, <1>6, <2>2, <2>3, <2>4, SettledJoin, SettledOrderly
<1> QED
    BY <1>1, <1>5, <1>6

LEMMA Assoc ==
    ASSUME NEW s \in Seq(StepRecords), NEW t \in Seq(StepRecords), NEW q \in Seq(StepRecords)
    PROVE  (s \o t) \o q = s \o (t \o q)
BY ConcatAssociative, SMTT(30)

LEMMA TwoSteps ==
    ASSUME NEW a \in StepRecords, NEW b \in StepRecords, NEW q \in Seq(StepRecords)
    PROVE  <<a, b>> \o q = <<a>> \o (<<b>> \o q)
<1>1. <<a, b>> = <<a>> \o <<b>>
  <2> DEFINE s == <<a, b>>  t == <<a>> \o <<b>>
  <2>1. s \in Seq(StepRecords) /\ t \in Seq(StepRecords)
      BY Joined
  <2>2. Len(s) = 2 /\ Len(t) = 2 /\ s[1] = t[1] /\ s[2] = t[2]
      OBVIOUS
  <2> HIDE DEF s, t
  <2>3. \A i \in 1..Len(s) : s[i] = t[i]
      BY <2>2
  <2> QED
      BY <2>1, <2>2, <2>3, SeqEqual DEF s, t
<1>2. <<a>> \in Seq(StepRecords) /\ <<b>> \in Seq(StepRecords)
    BY Joined
<1> QED
    BY <1>1, <1>2, Assoc

LEMMA RadioValues ==
    ASSUME Fine, ValueInv, Radio
    PROVE  ValueInv'
<1> DEFINE n == Head(todo).n
<1>1. /\ Now("radio") /\ UNCHANGED <<nested, reused>>
      /\ \/ Rivals(Id, n) = {} /\ UNCHANGED w /\ todo' = <<Do("change", Id, 1)>> \o Rest
         \/ \E i \in Rivals(Id, n) :
              /\ \A k \in Rivals(Id, n) : i <= k
              /\ w' = [w EXCEPT ![i].value = 0]
              /\ todo' = <<Fire(i, "CHANGE"), Do("radio", Id, i + 1)>> \o Rest
    BY DEF Radio, history
<1>2. Id \in Ids /\ n \in 1..(MaxWidgets + 1) /\ w \in [Ids -> Widgets]
    BY <1>1, HeadIsStep DEF Fine, ForWidgets, StateOK, Good
<1> SUFFICES ASSUME ~reused
             PROVE  Orderly(todo', w', ~nested) /\ Chosen(w') /\ (~nested => Single(w'))
    BY <1>1 DEF ValueInv
<1>3. /\ Rest \in Seq(StepRecords) /\ Settled(Rest, w, ~nested)
      /\ Settled(todo, w, ~nested) /\ Chosen(w) /\ (~nested => Single(w))
    BY <1>1, RestSettled DEF Fine, ValueInv
<1>4. /\ w[Id].kind \in {"RADIO", "NONE"}
      /\ ~nested => ~Selecting(Rest)
      /\ ~nested /\ n > 1 => Lone(w, Id, n)
    BY <1>1, <1>3, AtTheLoop DEF Fine
<1>5. \A i \in Ids : i \in 1..MaxWidgets /\ i < MaxWidgets + 1
    BY WidgetsAssumption DEF Ids
<1>6. MaxWidgets \in Nat
    BY WidgetsAssumption
<1> HIDE DEF n
<1>7. ASSUME ~nested, NEW i \in Ids, i # Id, w[Id].kind = "RADIO", w[i].kind = "RADIO",
             w[i].group = w[Id].group, i \notin Rivals(Id, n)
      PROVE  w[i].value = 0
  <2>1. CASE i < n
      BY <1>2, <1>4, <1>5, <1>7, <2>1 DEF Lone
  <2>2. CASE ~(i < n)
      BY <1>2, <1>5, <1>6, <1>7, <2>2 DEF Rivals, Kind
  <2> QED
      BY <2>1, <2>2
<1>8. CASE Rivals(Id, n) = {} /\ UNCHANGED w /\ todo' = <<Do("change", Id, 1)>> \o Rest
  <2> DEFINE s == Do("change", Id, 1)
  <2>1. s \in StepRecords
      BY <1>2, DoMade, Names
  <2>2. s.do = "change" /\ s.id = Id /\ s.n = 1
      BY DEF Do, Step
  <2>3. ~nested => Lone(w, Id, MaxWidgets + 1)
      BY <1>7, <1>8 DEF Lone
  <2>4. Due(s, Rest, w, ~nested)
      BY <1>4, <2>2, <2>3 DEF Due, Lists
  <2> QED
      BY <1>3, <1>8, <2>1, <2>2, <2>4, ChangeOrderly
<1>9. ASSUME NEW i \in Rivals(Id, n),
             \A k \in Rivals(Id, n) : i <= k,
             w' = [w EXCEPT ![i].value = 0],
             todo' = <<Fire(i, "CHANGE"), Do("radio", Id, i + 1)>> \o Rest
      PROVE  Orderly(todo', w', ~nested) /\ Chosen(w') /\ (~nested => Single(w'))
  <2>1. i \in Ids /\ i + 1 \in 1..(MaxWidgets + 1) /\ w[i].kind = "RADIO"
      BY <1>2, <1>6 DEF Rivals, Kind, Ids
  <2>2. /\ \A k \in Ids : w'[k].kind = w[k].kind /\ w'[k].group = w[k].group /\ w'[k].count = w[k].count
        /\ \A k \in Ids : k # i => w'[k].value = w[k].value
        /\ w'[i].value = 0
      BY <1>2, <1>9, <2>1 DEF Widgets
  <2>3. Milder(w, w')
      BY <2>2 DEF Milder
  <2>4. Chosen(w')
      BY <1>3, <2>1, <2>2 DEF Chosen, Lists
  <2>5. ASSUME ~nested
        PROVE  Lone(w', Id, i + 1)
    <3> SUFFICES ASSUME w'[Id].kind = "RADIO", NEW k \in Ids, k # Id, k < i + 1,
                        w'[k].kind = "RADIO", w'[k].group = w'[Id].group
                 PROVE  w'[k].value = 0
        BY DEF Lone
    <3>1. k \in Int /\ i \in Int
        BY <1>5, <2>1
    <3>2. CASE k = i
        BY <2>2, <3>2
    <3>3. CASE k # i
      <4>1. ~(i <= k)
          BY <3>1, <3>3
      <4>2. k \notin Rivals(Id, n)
          BY <1>9, <4>1
      <4> QED
          BY <1>2, <1>7, <2>2, <2>5, <3>3, <4>2
    <3> QED
        BY <3>2, <3>3
  <2> DEFINE a == Fire(i, "CHANGE")  r == Do("radio", Id, i + 1)
  <2>6. a \in StepRecords /\ r \in StepRecords
    <3>1. "CHANGE" \in Events
        BY DEF Events
    <3> QED
        BY <1>2, <2>1, <3>1, FireIsStep, DoMade, IdsFact
  <2>7. r.do = "radio" /\ r.id = Id /\ r.n = i + 1 /\ Harmless(a)
      BY DEF Do, Step, Fire, Harmless
  <2> HIDE DEF a, r
  <2>8. <<r>> \o Rest \in Seq(StepRecords) /\ Settled(<<r>> \o Rest, w', ~nested)
    <3>1. Settled(Rest, w', ~nested)
        BY <1>3, <2>3, MilderKeeps
    <3>2. w'[r.id].kind \in {"RADIO", "NONE"}
        BY <1>2, <1>4, <2>2, <2>7
    <3> QED
        BY <1>3, <1>4, <2>5, <2>6, <2>7, <3>1, <3>2, SettledRadio
  <2>9. todo' = <<a>> \o (<<r>> \o Rest)
      BY <1>3, <1>9, <2>6, TwoSteps DEF a, r
  <2>10. Clean(<<a>>)
      BY <2>6, <2>7, CleanMade
  <2> QED
      BY <1>3, <2>3, <2>4, <2>8, <2>9, <2>10, MilderKeeps, SettledJoin, SettledOrderly
<1> QED
    BY <1>1, <1>8, <1>9

LEMMA ActivateValues ==
    ASSUME Fine, ValueInv, Activate \/ Released
    PROVE  ValueInv'
<1>1. PICK do \in {"activate", "released"} :
        Now(do) /\ (\/ Valid(Id) /\ ActivateNow(Id)
                    \/ todo' = Rest /\ UNCHANGED nested)
    BY DEF Activate, Released
<1>2. UNCHANGED <<w, reused>> /\ do # "change"
    BY <1>1 DEF Activate, Released
<1>3. CASE todo' = Rest /\ UNCHANGED nested
    BY <1>1, <1>2, <1>3, RestValues, CleanMade
<1>4. CASE Valid(Id) /\ ActivateNow(Id)
  <2> DEFINE first == CASE Kind(Id) = "CHECKBOX" -> <<Do("change", Id, 1 - w[Id].value)>>
                        [] Kind(Id) = "RADIO" -> <<Select(Id)>>
                        [] OTHER -> <<>>
             click == Fire(Id, "CLICK")
             q == <<click>> \o Rest
  <2>1. nested' = (nested \/ (Kind(Id) = "RADIO" /\ Selecting(Rest)))
      BY <1>4 DEF ActivateNow
  <2> SUFFICES ASSUME ~reused
               PROVE  Orderly(todo', w, ~nested')
      BY <1>2, <2>1, SameWidgets
  <2>2. Id \in Ids
      BY <1>4 DEF Valid
  <2>3. click \in StepRecords /\ Harmless(click)
    <3>1. "CLICK" \in Events
        BY DEF Events
    <3> QED
        BY <2>2, <3>1, FireIsStep, IdsFact DEF Fire, Step, Harmless
  <2> HIDE DEF click
  <2>4. Rest \in Seq(StepRecords) /\ Settled(Rest, w, ~nested')
      BY <1>1, <1>2, <2>1, RestSettled, StillSettled DEF Fine, ValueInv
  <2>5. q \in Seq(StepRecords) /\ Settled(q, w, ~nested')
      BY <2>3, <2>4, CleanMade, SettledJoin
  <2>6. Selecting(q) => Selecting(Rest)
    <3>1. /\ Len(q) \in Nat /\ q[1] = click
          /\ \A k \in 2..Len(q) : k - 1 \in 1..Len(Rest) /\ q[k] = Rest[k - 1]
        BY <2>3, <2>4, <2>5, OneStep
    <3> HIDE DEF q
    <3>2. \A k \in 1..Len(q) : k = 1 \/ k \in 2..Len(q)
        BY <3>1
    <3> QED
        BY <2>3, <3>1, <3>2 DEF Selecting, Harmless
  <2>7. todo' = first \o <<click>> \o Rest
      BY <1>4 DEF ActivateNow, click
  <2>8. CASE Kind(Id) = "CHECKBOX"
    <3> DEFINE s == Do("change", Id, 1 - w[Id].value)
    <3>1. 1 - w[Id].value \in Int
        BY <2>2, PointerRange DEF Fine
    <3>2. s \in StepRecords
        BY <2>2, <3>1, DoMade, Names
    <3>3. s.do = "change" /\ s.id = Id
        BY DEF Do, Step
    <3>4. todo' = <<s>> \o <<click>> \o Rest
        BY <2>7, <2>8
    <3>5. Due(s, q, w, ~nested')
        BY <2>8, <3>3 DEF Due, Lists, Kind
    <3> HIDE DEF s
    <3>6. <<s>> \in Seq(StepRecords) /\ <<click>> \in Seq(StepRecords)
        BY <2>3, <3>2, Joined
    <3>7. todo' = <<s>> \o q
        BY <2>4, <3>4, <3>6, Assoc
    <3> HIDE DEF q
    <3> QED
        BY <2>5, <3>2, <3>3, <3>5, <3>7, ChangeOrderly
  <2>9. CASE Kind(Id) = "RADIO"
    <3> DEFINE r == Select(Id)
    <3>1. r \in StepRecords
        BY <2>2, DoMade
    <3>2. r.do = "radio" /\ r.id = Id /\ ~(r.n > 1)
        BY DEF Select, Do, Step
    <3>3. todo' = <<r>> \o <<click>> \o Rest
        BY <2>7, <2>9
    <3> HIDE DEF r
    <3>4. <<r>> \in Seq(StepRecords) /\ <<click>> \in Seq(StepRecords)
        BY <2>3, <3>1, Joined
    <3>5. todo' = <<r>> \o q
        BY <2>4, <3>3, <3>4, Assoc
    <3>6. w[r.id].kind \in {"RADIO", "NONE"} /\ (~nested' => ~Selecting(q))
        BY <2>1, <2>6, <2>9, <3>2 DEF Kind
    <3> HIDE DEF q
    <3>7. todo' \in Seq(StepRecords) /\ Settled(todo', w, ~nested')
        BY <2>5, <3>1, <3>2, <3>5, <3>6, SettledRadio
    <3> QED
        BY <3>7, SettledOrderly
  <2>10. CASE Kind(Id) # "CHECKBOX" /\ Kind(Id) # "RADIO"
    <3>1. todo' = <<>> \o <<click>> \o Rest
        BY <2>7, <2>10
    <3>2. Clean(<<>> \o <<click>>)
        BY <2>3, CleanMade, CleanJoin
    <3>3. todo' \in Seq(StepRecords) /\ Settled(todo', w, ~nested')
        BY <2>4, <3>1, <3>2, SettledJoin
    <3> QED
        BY <3>3, SettledOrderly
  <2> QED
      BY <2>8, <2>9, <2>10
<1> QED
    BY <1>1, <1>3, <1>4

\* The first step is done, and the next one sets the value of a widget.
LEMMA RestChange ==
    ASSUME Fine, ValueInv, NEW do, Now(do), do # "change", UNCHANGED <<w, nested, reused>>,
           NEW id \in Ids, NEW n \in Int, w[id].kind # "RADIO",
           w[id].kind \in Lists => n \in (-1)..(w[id].count - 1),
           NEW s, Clean(s), todo' \in {<<Do("change", id, n)>> \o Rest, <<Do("change", id, n)>> \o (s \o Rest)}
    PROVE  ValueInv'
<1> DEFINE c == Do("change", id, n)
<1>1. c \in StepRecords
    BY DoMade, Names
<1>2. c.do = "change" /\ c.id = id /\ c.n = n
    BY DEF Do, Step
<1>3. PICK q \in {Rest, s \o Rest} : todo' = <<c>> \o q
    OBVIOUS
<1> HIDE DEF c
<1>4. ASSUME ~reused
      PROVE  q \in Seq(StepRecords) /\ Settled(q, w, ~nested)
  <2>1. Rest \in Seq(StepRecords) /\ Settled(Rest, w, ~nested)
      BY <1>4, RestSettled DEF Fine, ValueInv
  <2> QED
      BY <1>3, <2>1, SettledJoin
<1>5. Due(c, q, w, ~nested)
    BY <1>2 DEF Due
<1>6. ~reused => Orderly(todo', w, ~nested)
    BY <1>1, <1>2, <1>3, <1>4, <1>5, ChangeOrderly
<1> QED
    BY <1>6 DEF ValueInv

LEMMA PressValues ==
    ASSUME Fine, ValueInv, Press
    PROVE  ValueInv'
<1>1. Now("press") /\ UNCHANGED <<w, nested, reused>>
    BY DEF Press, history
<1>2. Rest \in Seq(StepRecords) /\ Id \in 0..MaxWidgets
    BY <1>1, HeadIsStep DEF Fine
<1>3. focus \in 0..MaxWidgets
    BY PointerRange DEF Fine
<1>4. CASE todo' = Rest
    BY <1>1, <1>4, RestValues, CleanMade
<1>5. ASSUME open # 0, NEW row \in 0..(w[open].count - 1), todo' = <<Do("change", open, row)>> \o Rest
      PROVE  ValueInv'
  <2>1. open \in Ids /\ w[open].kind = "DROPDOWN" /\ w[open].count \in Int
      BY <1>5, PointerRange DEF Fine, Kind
  <2>2. row \in Int /\ row \in (-1)..(w[open].count - 1)
      BY <2>1
  <2> QED
      BY <1>1, <1>5, <2>1, <2>2, CleanMade, RestChange
<1>6. CASE SetFocus(w, 0, 0, Rest)
  <2>1. PICK s : Clean(s) /\ todo' \in {Rest, s \o Rest}
      BY <1>2, <1>3, <1>6, FocusClean, IdsFact
  <2> QED
      BY <1>1, <2>1, RestValues
<1>7. CASE Id # 0 /\ SetFocus(w, Id, 0, <<Do("pressed", Id, 0)>> \o Rest)
  <2> DEFINE p == <<Do("pressed", Id, 0)>>
  <2>1. Clean(p)
    <3>1. "pressed" \in Steps \ {"change", "radio"}
        BY DEF Steps
    <3> QED
        BY <1>2, <1>7, <3>1, CleanMade
  <2> HIDE DEF p
  <2>2. p \in Seq(StepRecords) /\ p \o Rest \in Seq(StepRecords)
      BY <1>2, <2>1, Joined DEF Clean
  <2>3. PICK s : Clean(s) /\ todo' \in {p \o Rest, s \o (p \o Rest)}
      BY <1>2, <1>3, <1>7, <2>2, FocusClean DEF p
  <2>4. s \o (p \o Rest) = (s \o p) \o Rest
      BY <1>2, <2>2, <2>3, Assoc DEF Clean
  <2>5. Clean(s \o p)
      BY <2>1, <2>3, CleanJoin
  <2> QED
      BY <1>1, <2>1, <2>3, <2>4, <2>5, RestValues
<1> QED
    BY <1>4, <1>5, <1>6, <1>7 DEF Press

LEMMA PressedValues ==
    ASSUME Fine, ValueInv, Pressed
    PROVE  ValueInv'
<1> DEFINE a == Fire(Id, "PRESS")  b == Do("grab", Id, 0)
<1>1. Now("pressed") /\ UNCHANGED <<w, nested, reused>> /\ todo' \in {Rest, <<a, b>> \o Rest}
    BY DEF Pressed, history
<1>2. Rest \in Seq(StepRecords) /\ Id \in Ids
    BY <1>1, HeadIsStep DEF Fine, ForWidgets
<1>3. Clean(<<a>>) /\ Clean(<<b>>) /\ a \in StepRecords /\ b \in StepRecords
  <2>1. "PRESS" \in Events /\ "grab" \in Steps \ {"change", "radio"}
      BY DEF Events, Steps
  <2> QED
      BY <1>2, <2>1, CleanMade, FireIsStep, DoMade, IdsFact
<1> HIDE DEF a, b
<1>4. <<a, b>> \o Rest = (<<a>> \o <<b>>) \o Rest
    BY <1>2, <1>3, TwoSteps, Assoc, Joined
<1> QED
    BY <1>1, <1>3, <1>4, CleanJoin, RestValues

LEMMA GrabValues ==
    ASSUME Fine, ValueInv, Grab
    PROVE  ValueInv'
<1>1. Now("grab") /\ UNCHANGED <<w, nested, reused>>
    BY DEF Grab, history
<1>2. Rest \in Seq(StepRecords) /\ Id \in Ids /\ w[Id].count \in Int
    BY <1>1, HeadIsStep, PointerRange DEF Fine, ForWidgets
<1> DEFINE Twice(double) == IF double THEN <<Fire(Id, "SUBMIT")>> ELSE <<>>
<1>3. \/ todo' = Rest
      \/ Kind(Id) = "SLIDER" /\ \E v \in 0..MaxValue : todo' = <<Do("change", Id, v)>> \o Rest
      \/ /\ Kind(Id) = "LISTBOX"
         /\ \E row \in 0..(w[Id].count - 1), double \in BOOLEAN :
               todo' = <<Do("change", Id, row)>> \o Twice(double) \o Rest
    BY DEF Grab
<1>4. CASE todo' = Rest
    BY <1>1, <1>4, RestValues, CleanMade
<1>5. ASSUME Kind(Id) = "SLIDER", NEW v \in 0..MaxValue, todo' = <<Do("change", Id, v)>> \o Rest
      PROVE  ValueInv'
  <2>1. v \in Int
      BY BoundsAssumption
  <2>2. w[Id].kind # "RADIO" /\ w[Id].kind \notin Lists
      BY <1>5 DEF Kind, Lists
  <2> QED
      BY <1>1, <1>2, <1>5, <2>1, <2>2, CleanMade, RestChange
<1>6. ASSUME Kind(Id) = "LISTBOX", NEW row \in 0..(w[Id].count - 1), NEW double \in BOOLEAN,
             todo' = <<Do("change", Id, row)>> \o Twice(double) \o Rest
      PROVE  ValueInv'
  <2>1. row \in Int /\ row \in (-1)..(w[Id].count - 1)
      BY <1>2
  <2>2. w[Id].kind # "RADIO"
      BY <1>6 DEF Kind
  <2>3. Clean(Twice(double))
    <3>1. "SUBMIT" \in Events
        BY DEF Events
    <3> QED
        BY <1>2, <3>1, CleanMade, IdsFact
  <2>4. <<Do("change", Id, row)>> \in Seq(StepRecords)
      BY <1>2, <2>1, StepsMade, Names
  <2> DEFINE s == Twice(double)
  <2>5. s \in Seq(StepRecords) /\ todo' = <<Do("change", Id, row)>> \o s \o Rest
      BY <1>6, <2>3 DEF Clean
  <2> HIDE DEF s, Twice
  <2>6. todo' = <<Do("change", Id, row)>> \o (s \o Rest)
      BY <1>2, <2>4, <2>5, Assoc
  <2>7. Clean(s)
      BY <2>3 DEF s
  <2> QED
      BY <1>1, <1>2, <2>1, <2>2, <2>6, <2>7, RestChange
<1> QED
    BY <1>3, <1>4, <1>5, <1>6

LEMMA ReleaseValues ==
    ASSUME Fine, ValueInv, Release
    PROVE  ValueInv'
<1>1. Now("release") /\ UNCHANGED <<w, nested, reused>>
    BY DEF Release, history
<1>2. Rest \in Seq(StepRecords)
    BY <1>1, HeadIsStep DEF Fine
<1>3. CASE ~Valid(pressed)
  <2>1. todo' = Rest
      BY <1>3 DEF Release
  <2> QED
      BY <1>1, <2>1, RestValues, CleanMade
<1>4. CASE Valid(pressed)
  <2> DEFINE click == IF Hit(Id) = pressed THEN <<Do("released", pressed, 0)>> ELSE <<>>
             fire == <<Fire(pressed, "RELEASE")>>
  <2>1. todo' = (fire \o click) \o Rest
      BY <1>4 DEF Release
  <2>2. pressed \in Ids /\ "RELEASE" \in Events /\ "released" \in Steps \ {"change", "radio"}
      BY <1>4 DEF Valid, Events, Steps
  <2>3. Clean(fire)
      BY <2>2, CleanMade, IdsFact
  <2>4. Clean(click)
      BY <2>2, CleanMade, IdsFact
  <2> HIDE DEF fire, click
  <2> QED
      BY <1>1, <2>1, <2>3, <2>4, CleanJoin, RestValues
<1> QED
    BY <1>3, <1>4

LEMMA DragValues ==
    ASSUME Fine, ValueInv, Drag
    PROVE  ValueInv'
<1>1. Now("drag") /\ UNCHANGED <<w, nested, reused>>
    BY DEF Drag, history
<1>2. \/ todo' = Rest
      \/ /\ Valid(pressed) /\ Kind(pressed) = "SLIDER"
         /\ \E v \in 0..MaxValue : todo' = <<Do("change", pressed, v)>> \o Rest
    BY DEF Drag
<1>3. CASE todo' = Rest
    BY <1>1, <1>3, RestValues, CleanMade
<1>4. ASSUME Valid(pressed), Kind(pressed) = "SLIDER", NEW v \in 0..MaxValue,
             todo' = <<Do("change", pressed, v)>> \o Rest
      PROVE  ValueInv'
  <2>1. v \in Int /\ pressed \in Ids
      BY <1>4, BoundsAssumption DEF Valid
  <2>2. w[pressed].kind # "RADIO" /\ w[pressed].kind \notin Lists
      BY <1>4 DEF Kind, Lists
  <2> QED
      BY <1>1, <1>4, <2>1, <2>2, CleanMade, RestChange
<1> QED
    BY <1>2, <1>3, <1>4

\* An event that sets no value at once, one that does, and one that is still
\* about to select a radio button.
LEMMA EventValues ==
    ASSUME ValueInv, UNCHANGED <<w, nested, reused>>, Clean(todo')
    PROVE  ValueInv'
<1>1. todo' \in Seq(StepRecords) /\ Settled(todo', w, ~nested)
    BY DEF Clean, Settled, Harmless
<1> QED
    BY <1>1, SameValues

LEMMA EventChange ==
    ASSUME ValueInv, UNCHANGED <<w, nested, reused>>,
           NEW id \in Ids, NEW n \in Int, w[id].kind # "RADIO",
           w[id].kind \in Lists => n \in (-1)..(w[id].count - 1),
           NEW q, Clean(q), todo' = <<Do("change", id, n)>> \o q
    PROVE  ValueInv'
<1> DEFINE c == Do("change", id, n)
<1>1. c \in StepRecords
    BY DoMade, Names
<1>2. c.do = "change" /\ c.id = id /\ c.n = n
    BY DEF Do, Step
<1> HIDE DEF c
<1>3. q \in Seq(StepRecords) /\ Settled(q, w, ~nested)
    BY DEF Clean, Settled, Harmless
<1>4. Due(c, q, w, ~nested)
    BY <1>2 DEF Due
<1>5. todo' = <<c>> \o q
    BY DEF c
<1>6. Orderly(todo', w, ~nested)
    BY <1>1, <1>2, <1>3, <1>4, <1>5, ChangeOrderly
<1> QED
    BY <1>6 DEF ValueInv

LEMMA AfterKeyClean ==
    ASSUME NEW id \in 0..MaxWidgets
    PROVE  Clean(AfterKey(id))
<1>1. "KEY" \in Events
    BY DEF Events
<1> DEFINE own == IF id = 0 THEN <<>> ELSE <<Fire(id, "KEY")>>
<1>2. Clean(own)
    BY <1>1, CleanMade
<1>3. Clean(<<Fire(0, "KEY")>>)
    BY <1>1, CleanMade, IdsFact
<1>4. AfterKey(id) = own \o <<Fire(0, "KEY")>>
    BY DEF AfterKey
<1> HIDE DEF own
<1> QED
    BY <1>2, <1>3, <1>4, CleanJoin

LEMMA MouseValues ==
    ASSUME Fine, ValueInv, Mouse
    PROVE  ValueInv'
<1> DEFINE Under(place) == IF pressed # 0 /\ Kind(pressed) = "SLIDER" THEN hover ELSE Hit(place)
           Leave == IF Valid(hover) THEN <<Fire(hover, "LEAVE")>> ELSE <<>>
           Enter(hit) == IF hit # 0 THEN <<Fire(hit, "HOVER")>> ELSE <<>>
           Moved(hit) == IF hit # hover THEN Leave \o Enter(hit) ELSE <<>>
           Button(place, hit, button) ==
               CASE button /\ ~down -> <<Do("press", hit, 0)>>
                 [] ~button /\ down -> <<Do("release", place, 0)>>
                 [] button /\ down -> <<Do("drag", 0, 0)>>
                 [] OTHER -> <<>>
<1>1. PICK place \in 0..MaxWidgets, button \in BOOLEAN :
        todo' = Moved(Under(place)) \o Button(place, Under(place), button)
    BY DEF Mouse
<1> DEFINE hit == Under(place)
<1>2. hit \in 0..MaxWidgets /\ hover \in 0..MaxWidgets
    BY PointerRange, IdsFact DEF Fine, Hit
<1>3. UNCHANGED <<w, nested, reused>>
    BY DEF Mouse, history
<1> HIDE DEF hit
<1>4. Clean(Leave) /\ Clean(Enter(hit))
  <2>1. "HOVER" \in Events /\ "LEAVE" \in Events
      BY DEF Events
  <2> QED
      BY <1>2, <2>1, CleanMade
<1>5. Clean(Moved(hit))
  <2> HIDE DEF Leave, Enter
  <2> QED
      BY <1>4, CleanJoin, CleanMade
<1>6. Clean(Button(place, hit, button))
  <2>1. \A do \in {"press", "release", "drag"} : do \in Steps \ {"change", "radio"} /\ do \notin ForWidgets
      BY DEF Steps, ForWidgets
  <2>2. /\ Clean(<<Do("press", hit, 0)>>) /\ Clean(<<Do("release", place, 0)>>)
        /\ Clean(<<Do("drag", 0, 0)>>) /\ Clean(<<>>)
      BY <1>2, <2>1, CleanMade, IdsFact
  <2>3. Button(place, hit, button) \in
          {<<Do("press", hit, 0)>>, <<Do("release", place, 0)>>, <<Do("drag", 0, 0)>>, <<>>}
      OBVIOUS
  <2> QED
      BY <2>2, <2>3
<1>7. todo' = Moved(hit) \o Button(place, hit, button)
    BY <1>1 DEF hit
<1> HIDE DEF Moved, Button
<1> QED
    BY <1>3, <1>5, <1>6, <1>7, CleanJoin, EventValues

LEMMA ElsewhereValues ==
    ASSUME Fine, ValueInv,
           MouseOnMessage \/ KeyOnMessage \/ PickerMouse \/ PickerKey \/ OtherProgram \/ Frame
    PROVE  ValueInv'
<1>1. UNCHANGED <<w, nested, reused>>
    BY DEF MouseOnMessage, KeyOnMessage, PickerMouse, PickerKey, PickerGoes, OtherProgram, Frame, history
<1>2. todo' \in {<<>>, <<Fire(0, "PICKED")>>, <<Fire(0, "FRAME")>>}
    BY DEF MouseOnMessage, KeyOnMessage, PickerMouse, PickerKey, PickerGoes, OtherProgram, Frame, Event
<1>3. "PICKED" \in Events /\ "FRAME" \in Events
    BY DEF Events
<1> QED
    BY <1>1, <1>2, <1>3, CleanMade, IdsFact, EventValues

LEMMA FocusLostValues ==
    ASSUME Fine, ValueInv, FocusLost
    PROVE  ValueInv'
<1> DEFINE leave == IF Valid(hover) THEN <<Fire(hover, "LEAVE")>> ELSE <<>>
<1>1. UNCHANGED <<w, nested, reused>> /\ todo' = leave \o <<Do("lost", 0, 0)>>
    BY DEF FocusLost, history
<1>2. "LEAVE" \in Events /\ "lost" \in Steps \ {"change", "radio"} /\ "lost" \notin ForWidgets
    BY DEF Events, Steps, ForWidgets
<1>3. Clean(leave)
    BY <1>2, CleanMade, PointerRange DEF Fine
<1>4. Clean(<<Do("lost", 0, 0)>>)
    BY <1>2, CleanMade, IdsFact
<1> HIDE DEF leave
<1> QED
    BY <1>1, <1>3, <1>4, CleanJoin, EventValues

LEMMA WheelValues ==
    ASSUME Fine, ValueInv, Wheel
    PROVE  ValueInv'
<1>1. UNCHANGED <<w, nested, reused>>
    BY DEF Wheel, history
<1>2. PICK id \in Ids : \/ todo' = <<Fire(id, "WHEEL")>>
                        \/ /\ Kind(id) = "SLIDER"
                           /\ \E by \in {-1, 1} : todo' = <<Do("change", id, w[id].value + by)>>
    BY DEF Wheel, Valid
<1>3. CASE todo' = <<Fire(id, "WHEEL")>>
  <2>1. "WHEEL" \in Events
      BY DEF Events
  <2> QED
      BY <1>1, <1>3, <2>1, CleanMade, IdsFact, EventValues
<1>4. ASSUME Kind(id) = "SLIDER", NEW by \in {-1, 1}, todo' = <<Do("change", id, w[id].value + by)>>
      PROVE  ValueInv'
  <2> DEFINE c == Do("change", id, w[id].value + by)
  <2>1. w[id].value + by \in Int
      BY <1>4, PointerRange DEF Fine
  <2>2. w[id].kind # "RADIO" /\ w[id].kind \notin Lists
      BY <1>4 DEF Kind, Lists
  <2>3. c \in StepRecords
      BY <2>1, DoMade, Names
  <2>4. todo' = <<c>> \o <<>>
    <3>1. <<c>> \in Seq(StepRecords)
        BY <2>3, Joined
    <3> QED
        BY <1>4, <3>1, ConcatEmptySeq
  <2> QED
      BY <1>1, <2>1, <2>2, <2>4, CleanMade, EventChange
<1> QED
    BY <1>2, <1>3, <1>4

\* An event that moves the focus, and sets no value at once.
LEMMA EventFocus ==
    ASSUME Fine, ValueInv, UNCHANGED <<w, nested, reused>>, NEW asked \in 0..MaxWidgets, NEW rest,
           rest \in Seq(StepRecords), Settled(rest, w, ~nested), SetFocus(w, asked, open, rest)
    PROVE  ValueInv'
<1>1. todo' \in Seq(StepRecords) /\ Settled(todo', w, ~nested)
    BY FocusSettled, PointerRange DEF Fine
<1> QED
    BY <1>1, SameValues

LEMMA CleanSettled ==
    ASSUME NEW q, Clean(q)
    PROVE  q \in Seq(StepRecords) /\ ~Selecting(q) /\ \A ws, clear : Settled(q, ws, clear)
BY DEF Clean, Settled, Harmless, Selecting

LEMMA KeyFocusValues ==
    ASSUME Fine, ValueInv, KeyTab \/ KeyLeaves
    PROVE  ValueInv'
<1>1. UNCHANGED <<w, nested, reused>>
    BY DEF KeyTab, KeyLeaves, history
<1>2. CASE KeyTab
  <2>1. PICK next \in Ids : SetFocus(w, next, open, <<>>)
      BY <1>2 DEF KeyTab
  <2> QED
      BY <1>1, <2>1, CleanMade, CleanSettled, IdsFact, EventFocus
<1>3. CASE KeyLeaves
  <2>1. PICK id \in Ids : SetFocus(w, 0, open, AfterKey(id))
      BY <1>3 DEF KeyLeaves
  <2> QED
      BY <1>1, <2>1, AfterKeyClean, CleanSettled, IdsFact, EventFocus
<1> QED
    BY <1>2, <1>3

LEMMA KeyArrowValues ==
    ASSUME Fine, ValueInv, KeyArrow
    PROVE  ValueInv'
<1>1. PICK id \in Ids, next \in Ids :
        Kind(next) = "RADIO" /\ SetFocus(w, next, open, <<Select(next)>> \o AfterKey(id))
    BY DEF KeyArrow, FirstAround
<1>2. UNCHANGED <<w, nested, reused>>
    BY DEF KeyArrow, history
<1> DEFINE r == Select(next)  q == AfterKey(id)
<1>3. r \in StepRecords
    BY DoMade
<1>4. r.do = "radio" /\ r.id = next /\ ~(r.n > 1)
    BY DEF Select, Do, Step
<1>5. q \in Seq(StepRecords) /\ ~Selecting(q) /\ Settled(q, w, ~nested)
    BY AfterKeyClean, CleanSettled, IdsFact
<1>6. w[next].kind = "RADIO" /\ next \in 0..MaxWidgets
    BY <1>1, IdsFact DEF Kind
<1>7. SetFocus(w, next, open, <<r>> \o q)
    BY <1>1
<1> HIDE DEF r, q
<1>8. <<r>> \o q \in Seq(StepRecords) /\ Settled(<<r>> \o q, w, ~nested)
    BY <1>3, <1>4, <1>5, <1>6, SettledRadio
<1> QED
    BY <1>2, <1>6, <1>7, <1>8, EventFocus

LEMMA KeyOpensValues ==
    ASSUME Fine, ValueInv, KeyOpens
    PROVE  ValueInv'
<1>1. UNCHANGED <<w, nested, reused>> /\ \E id \in Ids : todo' = AfterKey(id)
    BY DEF KeyOpens, history
<1> QED
    BY <1>1, AfterKeyClean, IdsFact, EventValues

LEMMA KeyUsedValues ==
    ASSUME Fine, ValueInv, KeyUsed
    PROVE  ValueInv'
<1>1. UNCHANGED <<w, nested, reused>>
    BY DEF KeyUsed, history
<1>2. PICK id \in 0..MaxWidgets :
        \/ todo' = AfterKey(id)
        \/ todo' = <<Fire(id, "CHANGE")>> \o AfterKey(id)
        \/ todo' = <<Fire(id, "SUBMIT")>> \o AfterKey(id)
        \/ /\ id # 0
           /\ todo' = <<Fire(id, "PRESS"), Fire(id, "RELEASE"), Do("activate", id, 0)>> \o AfterKey(id)
        \/ /\ id # 0 /\ Kind(id) = "SLIDER"
           /\ \E v \in {w[id].value - 1, w[id].value + 1, 0, MaxValue} :
                 todo' = <<Do("change", id, v)>> \o AfterKey(id)
        \/ /\ id # 0 /\ Kind(id) \in Lists
           /\ \E v \in {w[id].value - 1, w[id].value + 1} \cap 0..(w[id].count - 1) :
                 todo' = <<Do("change", id, v)>> \o AfterKey(id)
  <2> HIDE DEF Lists, AfterKey
  <2> QED
      BY DEF KeyUsed
<1> DEFINE q == AfterKey(id)
<1>3. Clean(q)
    BY AfterKeyClean
<1>4. {"CHANGE", "SUBMIT", "PRESS", "RELEASE"} \subseteq Events
    BY DEF Events
<1>5. CASE todo' \in {q, <<Fire(id, "CHANGE")>> \o q, <<Fire(id, "SUBMIT")>> \o q}
  <2> HIDE DEF q
  <2>1. Clean(<<Fire(id, "CHANGE")>>) /\ Clean(<<Fire(id, "SUBMIT")>>)
      BY <1>4, CleanMade
  <2> QED
      BY <1>1, <1>3, <1>5, <2>1, CleanJoin, EventValues
<1>6. CASE id # 0 /\ todo' = <<Fire(id, "PRESS"), Fire(id, "RELEASE"), Do("activate", id, 0)>> \o q
  <2> DEFINE a == Fire(id, "PRESS")  b == Fire(id, "RELEASE")  c == Do("activate", id, 0)
  <2>1. "activate" \in Steps \ {"change", "radio"}
      BY DEF Steps
  <2>2. a \in StepRecords /\ b \in StepRecords /\ c \in StepRecords
      BY <1>4, <1>6, <2>1, FireIsStep, DoMade, IdsFact
  <2>3. Harmless(a) /\ Harmless(b) /\ Harmless(c)
      BY DEF Fire, Do, Step, Harmless
  <2>4. todo' = <<a, b, c>> \o q
      BY <1>6
  <2> HIDE DEF a, b, c, q
  <2>5. Clean(<<a, b, c>>)
    <3>1. <<a, b, c>> \in Seq(StepRecords)
        BY <2>2, Joined
    <3>2. \A k \in 1..Len(<<a, b, c>>) : <<a, b, c>>[k] \in {a, b, c}
        OBVIOUS
    <3> QED
        BY <2>3, <3>1, <3>2 DEF Clean
  <2> QED
      BY <1>1, <1>3, <2>4, <2>5, CleanJoin, EventValues
<1>7. ASSUME id # 0, Kind(id) = "SLIDER",
             NEW v \in {w[id].value - 1, w[id].value + 1, 0, MaxValue}, todo' = <<Do("change", id, v)>> \o q
      PROVE  ValueInv'
  <2>1. id \in Ids /\ v \in Int
      BY <1>7, IdsFact, PointerRange, BoundsAssumption DEF Fine
  <2>2. w[id].kind # "RADIO" /\ w[id].kind \notin Lists
      BY <1>7 DEF Kind, Lists
  <2> HIDE DEF q
  <2> QED
      BY <1>1, <1>3, <1>7, <2>1, <2>2, EventChange
<1>8. ASSUME id # 0, Kind(id) \in Lists,
             NEW v \in {w[id].value - 1, w[id].value + 1} \cap 0..(w[id].count - 1),
             todo' = <<Do("change", id, v)>> \o q
      PROVE  ValueInv'
  <2>1. id \in Ids /\ w[id].count \in Int
      BY <1>8, IdsFact, PointerRange DEF Fine
  <2>2. v \in Int /\ v \in (-1)..(w[id].count - 1)
      BY <1>8, <2>1
  <2>3. w[id].kind # "RADIO"
      BY <1>8 DEF Kind, Lists
  <2> HIDE DEF q
  <2> QED
      BY <1>1, <1>3, <1>8, <2>1, <2>2, <2>3, EventChange
<1> QED
    BY <1>2, <1>5, <1>6, <1>7, <1>8

LEMMA ValueStarts == Init => ValueInv
<1> SUFFICES ASSUME Init
             PROVE  ValueInv
    OBVIOUS
<1>1. PICK window \in Windows : w = window.widgets
    BY DEF Init
<1>2. /\ \A id \in Ids :
            \/ w[id] = Unused
            \/ \E kind \in Kinds, value \in (-1)..MaxValue, group \in Groups, count \in 0..MaxValue :
                  /\ w[id] = Widget(kind, value, group, count)
                  /\ kind \in Lists => value < count
      /\ Single(w)
  <2>1. \A i, k \in Ids :
          /\ w[i].kind = "RADIO" /\ w[i].value # 0
          /\ w[k].kind = "RADIO" /\ w[k].value # 0
          /\ w[i].group = w[k].group
          => i = k
      BY <1>1, WindowsAssumption
  <2> QED
      BY <1>1, <2>1, WindowsAssumption, ZenonT(60) DEF Single
<1>3. ASSUME NEW id \in Ids, w[id].kind \in Lists
      PROVE  w[id].value \in (-1)..(w[id].count - 1)
  <2>1. w[id] # Unused
      BY <1>3 DEF Unused, Lists
  <2>2. PICK kind \in Kinds, value \in (-1)..MaxValue, group \in Groups, count \in 0..MaxValue :
          w[id] = Widget(kind, value, group, count) /\ (kind \in Lists => value < count)
      BY <1>2, <2>1
  <2>3. value < count /\ value \in (-1)..MaxValue /\ count \in 0..MaxValue
      BY <1>3, <2>2 DEF Widget
  <2>4. value \in (-1)..(count - 1)
      BY <2>3, BoundsAssumption
  <2> QED
      BY <2>2, <2>4 DEF Widget
<1>4. Chosen(w)
    BY <1>3 DEF Chosen
<1>5. Orderly(todo, w, ~nested)
    BY Joined, SettledEmpty, SettledOrderly DEF Init
<1> QED
    BY <1>2, <1>4, <1>5 DEF ValueInv

LEMMA ValueKeeps == Inv /\ ValueInv /\ [Next]_vars => ValueInv'
<1> SUFFICES ASSUME Inv, ValueInv, [Next]_vars
             PROVE  ValueInv'
    OBVIOUS
<1> Fine /\ kinds \subseteq Kinds
    BY DEF Inv, Fine
<1>1. CASE UNCHANGED vars
    BY <1>1 DEF vars, history, ValueInv
<1>2. CASE HandlerStep
    BY <1>2, FireStepValues, NothingSet, CallSetEnabledValues, CallSetVisibleValues, CallSetFocusValues,
       CallSetValueValues, CallItemsValues, CallRemoveValues, CallCreateValues, CallPickValues
       DEF HandlerStep
<1>3. CASE Change \/ Radio \/ Activate \/ Released \/ MouseStep \/ Lost
    BY <1>3, ChangeValues, RadioValues, ActivateValues, PressValues, PressedValues, GrabValues,
       ReleaseValues, DragValues, NothingSet
       DEF MouseStep
<1>4. CASE WindowEvent
    BY <1>4, MouseValues, ElsewhereValues, WheelValues, KeyFocusValues, KeyUsedValues, KeyOpensValues,
       KeyArrowValues, FocusLostValues
       DEF WindowEvent
<1> QED
    BY <1>1, <1>2, <1>3, <1>4 DEF Next

LEMMA ValueInvariant == Spec => []ValueInv
BY Starts, Keeps, ValueStarts, ValueKeeps, PTL DEF Spec

\* Whatever handlers do to a list while its row is being chosen
\* (eui_clearitems, eui_remove, eui_setvalue), the row that eui_getvalue
\* gives a program exists, unless the list has been made in the slot of a
\* widget whose event goes on.
THEOREM SelectionsExist == Spec => []SelectionExists
<1>1. ValueInv => SelectionExists
    BY DEF ValueInv, Chosen, SelectionExists, Kind
<1> QED
    BY <1>1, ValueInvariant, PTL

\* When an event is over, eui_select_radio has left one radio button of a
\* group selected, whatever the handlers it called have done, unless one of
\* them selected another meanwhile or made a widget in a slot still named.
THEOREM OneOfAGroup == Spec => []OneRadio
<1>1. ValueInv => OneRadio
    BY DEF ValueInv, Single, OneRadio, Kind
<1> QED
    BY <1>1, ValueInvariant, PTL

-----------------------------------------------------------------------------
(* A picker takes over the input.                                          *)

\* The widgets are still to let go of the pointer.
Pending(q) == \E k \in 1..Len(q) : q[k].do = "letgo"
PickerAhead == picker /\ hover # 0 => Pending(todo)

LEMMA PendingJoin ==
    ASSUME NEW s \in Seq(StepRecords), NEW q \in Seq(StepRecords), Pending(q)
    PROVE  Pending(s \o q)
BY Indices DEF Pending

LEMMA PendingRest ==
    ASSUME TodoOK, NEW do, Now(do), do # "letgo", Pending(todo)
    PROVE  Rest \in Seq(StepRecords) /\ Pending(Rest)
<1>1. /\ Rest \in Seq(StepRecords) /\ Len(todo) \in Nat /\ Len(Rest) = Len(todo) - 1
      /\ todo[1] = Head(todo)
      /\ \A k \in 1..Len(Rest) : Rest[k] = todo[k + 1]
    BY TailIndices DEF TodoOK, Now, Rest
<1>2. PICK k \in 1..Len(todo) : todo[k].do = "letgo"
    BY DEF Pending
<1>3. k # 1
    BY <1>1, <1>2 DEF Now
<1>4. k - 1 \in 1..Len(Rest) /\ (k - 1) + 1 = k
    BY <1>1, <1>3
<1>5. Rest[k - 1].do = "letgo"
    BY <1>1, <1>2, <1>4
<1> QED
    BY <1>1, <1>4, <1>5 DEF Pending

\* The first step is done, and leaves others before those that were there.
LEMMA PendingAfter ==
    ASSUME TodoOK, NEW do, Now(do), do # "letgo", Pending(todo),
           NEW s \in Seq(StepRecords), todo' \in {Rest, s \o Rest}
    PROVE  Pending(todo')
BY PendingRest, PendingJoin

LEMMA PendingInHandler ==
    ASSUME Fine, Pending(todo), HandlerStep, ~LetGo
    PROVE  Pending(todo')
<1>1. todo \in Seq(StepRecords) /\ focus \in 0..MaxWidgets /\ <<>> \in Seq(StepRecords)
    BY PointerRange, Joined DEF Fine, TodoOK
<1>2. ASSUME NEW s \in Seq(StepRecords), todo' \in {todo, s \o todo}
      PROVE  Pending(todo')
    BY <1>1, <1>2, PendingJoin
<1>3. CASE FireStep
  <2> DEFINE s == [Head(todo) EXCEPT !.do = "handler"]
  <2>1. Now("fire") /\ todo' \in {Rest, <<s>> \o Rest}
      BY <1>3 DEF FireStep
  <2>2. s \in StepRecords
    <3>1. "handler" \in Steps /\ "handler" \notin ForWidgets /\ "handler" # "radio"
        BY DEF Steps, ForWidgets
    <3> QED
        BY <2>1, <3>1, HeadIsStep DEF Fine, StepRecords
  <2> HIDE DEF s
  <2> QED
      BY <2>1, <2>2, Joined, PendingAfter DEF Fine
<1>4. CASE Return
    BY <1>1, <1>4, PendingAfter DEF Return, Fine
<1>5. CASE CallItems \/ CallRemove \/ CallCreate \/ CallMessage
    BY <1>5 DEF CallItems, CallRemove, CallCreate, CallMessage
<1>6. CASE CallSetEnabled \/ CallSetVisible \/ CallSetFocus
  <2>1. ASSUME NEW ws, NEW asked \in 0..MaxWidgets, NEW list, SetFocus(ws, asked, list, todo)
        PROVE  Pending(todo')
      BY <1>1, <1>2, <2>1, FocusClean DEF Clean
  <2>2. CASE CallSetEnabled
    <3>1. todo' = todo \/ SetFocus(w', 0, open, todo)
        BY <2>2 DEF CallSetEnabled
    <3> QED
        BY <2>1, <3>1, IdsFact
  <2>3. CASE CallSetVisible
    <3>1. todo' = todo \/ \E id \in Ids, on \in BOOLEAN :
                             SetFocus(w', 0, IF ~on /\ open = id THEN 0 ELSE open, todo)
        BY <2>3 DEF CallSetVisible
    <3> QED
        BY <2>1, <3>1, IdsFact
  <2>4. CASE CallSetFocus
      BY <2>1, <2>4 DEF CallSetFocus
  <2> QED
      BY <1>6, <2>2, <2>3, <2>4
<1>7. CASE CallSetValue
  <2>1. PICK id \in Ids, v \in (-1)..MaxValue :
          \/ todo' = <<Select(id)>> \o todo
          \/ todo' = <<Do("change", id, IF v # 0 THEN 1 ELSE 0)>> \o todo
          \/ todo' = <<Do("change", id, v)>> \o todo
    <3> HIDE DEF Lists
    <3> QED
        BY <1>7 DEF CallSetValue
  <2>2. v \in Int /\ (IF v # 0 THEN 1 ELSE 0) \in Int
      BY BoundsAssumption
  <2> QED
      BY <1>2, <2>1, <2>2, StepsMade, Names
<1>8. CASE CallPick
  <2> DEFINE leave == IF Valid(hover) THEN <<Fire(hover, "LEAVE")>> ELSE <<>>
             letgo == <<Do("letgo", 0, 0)>>
  <2>1. todo' = (leave \o letgo) \o todo
      BY <1>8 DEF CallPick
  <2>2. leave \in Seq(StepRecords) /\ letgo \in Seq(StepRecords)
      BY LeaveSteps, StepsMade, Names, IdsFact
  <2> HIDE DEF leave, letgo
  <2> QED
      BY <1>2, <2>1, <2>2, Joined
<1> QED
    BY <1>3, <1>4, <1>5, <1>6, <1>7, <1>8 DEF HandlerStep

LEMMA PendingInSteps ==
    ASSUME Fine, Pending(todo), Change \/ Radio \/ Activate \/ Released \/ MouseStep
    PROVE  Pending(todo')
<1>1. <<>> \in Seq(StepRecords) /\ {"CHANGE", "CLICK", "PRESS", "RELEASE", "SUBMIT"} \subseteq Events
    BY Joined DEF Events
<1>2. ASSUME NEW do \in {"change", "radio", "activate", "released", "press", "pressed", "grab", "release", "drag"},
             Now(do)
      PROVE  /\ Rest \in Seq(StepRecords) /\ Id \in 0..MaxWidgets /\ Head(todo).n \in Int
             /\ do \in ForWidgets => Id \in Ids
             /\ \A s \in Seq(StepRecords) : todo' \in {Rest, s \o Rest} => Pending(todo')
    BY <1>2, HeadIsStep, PendingAfter DEF Fine
<1>3. CASE Change
  <2>1. Now("change") /\ todo' \in {Rest, <<Fire(Id, "CHANGE")>> \o Rest}
      BY <1>3 DEF Change
  <2> QED
      BY <1>1, <1>2, <2>1, StepsMade
<1>4. CASE Radio
  <2>1. Now("radio") /\ Id \in Ids /\ Head(todo).n \in 1..(MaxWidgets + 1)
      BY <1>4, HeadIsStep DEF Radio, Fine, ForWidgets
  <2>2. \/ todo' = <<Do("change", Id, 1)>> \o Rest
        \/ \E i \in Rivals(Id, Head(todo).n) : todo' = <<Fire(i, "CHANGE"), Do("radio", Id, i + 1)>> \o Rest
      BY <1>4 DEF Radio
  <2>3. \A i \in Rivals(Id, Head(todo).n) : i \in Ids /\ i + 1 \in 1..(MaxWidgets + 1)
      BY <2>1, WidgetsAssumption DEF Rivals, Ids
  <2>4. \A i \in Rivals(Id, Head(todo).n) : <<Fire(i, "CHANGE"), Do("radio", Id, i + 1)>> \in Seq(StepRecords)
      BY <1>1, <2>1, <2>3, FireIsStep, DoMade, IdsFact, Joined
  <2>5. <<Do("change", Id, 1)>> \in Seq(StepRecords)
      BY <2>1, StepsMade, Names
  <2> QED
      BY <1>2, <2>1, <2>2, <2>4, <2>5
<1>5. CASE Activate \/ Released
  <2>1. PICK do \in {"activate", "released"} : Now(do) /\ (ActivateNow(Id) \/ todo' = Rest)
      BY <1>5 DEF Activate, Released
  <2>2. Id \in Ids
      BY <2>1, <1>2 DEF ForWidgets
  <2> DEFINE first == CASE Kind(Id) = "CHECKBOX" -> <<Do("change", Id, 1 - w[Id].value)>>
                        [] Kind(Id) = "RADIO" -> <<Select(Id)>>
                        [] OTHER -> <<>>
             click == <<Fire(Id, "CLICK")>>
  <2>3. todo' = Rest \/ todo' = (first \o click) \o Rest
      BY <2>1 DEF ActivateNow
  <2>4. first \in Seq(StepRecords)
    <3>1. 1 - w[Id].value \in Int
        BY <2>2, PointerRange DEF Fine
    <3>2. <<Do("change", Id, 1 - w[Id].value)>> \in Seq(StepRecords) /\ <<Select(Id)>> \in Seq(StepRecords)
        BY <2>2, <3>1, StepsMade, Names
    <3>3. first \in {<<Do("change", Id, 1 - w[Id].value)>>, <<Select(Id)>>, <<>>}
        OBVIOUS
    <3> QED
        BY <1>1, <3>2, <3>3
  <2>5. click \in Seq(StepRecords)
      BY <1>1, <2>2, StepsMade
  <2> HIDE DEF first, click
  <2> QED
      BY <1>1, <1>2, <2>1, <2>3, <2>4, <2>5, Joined
<1>6. CASE Press
  <2>1. Now("press") /\ Rest \in Seq(StepRecords) /\ Id \in 0..MaxWidgets /\ focus \in 0..MaxWidgets
      BY <1>2, <1>6, PointerRange DEF Press, Fine
  <2> DEFINE p == <<Do("pressed", Id, 0)>>
  <2>2. \/ todo' = Rest
        \/ open # 0 /\ \E row \in 0..(w[open].count - 1) : todo' = <<Do("change", open, row)>> \o Rest
        \/ SetFocus(w, 0, 0, Rest)
        \/ Id # 0 /\ SetFocus(w, Id, 0, p \o Rest)
      BY <1>6 DEF Press
  <2>3. ASSUME open # 0, NEW row \in 0..(w[open].count - 1)
        PROVE  <<Do("change", open, row)>> \in Seq(StepRecords)
    <3>1. open \in Ids /\ row \in Int
        BY <2>3, PointerRange DEF Fine
    <3> QED
        BY <3>1, StepsMade, Names
  <2>4. Id # 0 => p \in Seq(StepRecords)
      BY <2>1, StepsMade, Names, IdsFact
  <2> HIDE DEF p
  <2>5. CASE SetFocus(w, 0, 0, Rest)
      BY <1>2, <2>1, <2>5, FocusClean, IdsFact DEF Clean
  <2>6. CASE Id # 0 /\ SetFocus(w, Id, 0, p \o Rest)
    <3>1. p \o Rest \in Seq(StepRecords)
        BY <2>1, <2>4, <2>6, Joined
    <3>2. PICK s \in Seq(StepRecords) : todo' \in {p \o Rest, s \o (p \o Rest)}
        BY <2>1, <2>6, <3>1, FocusClean DEF Clean
    <3>3. s \o (p \o Rest) = (s \o p) \o Rest /\ s \o p \in Seq(StepRecords)
        BY <2>1, <2>4, <2>6, <3>2, Assoc, Joined
    <3> QED
        BY <1>2, <2>1, <2>4, <2>6, <3>2, <3>3
  <2> QED
      BY <1>1, <1>2, <2>1, <2>2, <2>3, <2>5, <2>6
<1>7. CASE Pressed
  <2>1. Now("pressed") /\ todo' \in {Rest, <<Fire(Id, "PRESS"), Do("grab", Id, 0)>> \o Rest}
      BY <1>7 DEF Pressed
  <2>2. Id \in Ids
      BY <1>2, <2>1 DEF ForWidgets
  <2>3. <<Fire(Id, "PRESS"), Do("grab", Id, 0)>> \in Seq(StepRecords)
      BY <1>1, <2>2, FireIsStep, DoMade, Names, IdsFact, Joined
  <2> QED
      BY <1>2, <2>1, <2>3
<1>8. CASE Grab
  <2>1. Now("grab") /\ Id \in Ids /\ Rest \in Seq(StepRecords)
      BY <1>8, HeadIsStep DEF Grab, Fine, ForWidgets
  <2> DEFINE Twice(double) == IF double THEN <<Fire(Id, "SUBMIT")>> ELSE <<>>
  <2>2. \/ todo' = Rest
        \/ \E v \in Int : todo' = <<Do("change", Id, v)>> \o Rest
        \/ \E v \in Int, double \in BOOLEAN : todo' = (<<Do("change", Id, v)>> \o Twice(double)) \o Rest
    <3>1. w[Id].count \in Int
        BY <2>1, PointerRange DEF Fine
    <3>2. \A v : v \in 0..MaxValue \/ v \in 0..(w[Id].count - 1) => v \in Int
        BY <3>1, BoundsAssumption
    <3> QED
        BY <1>8, <3>2 DEF Grab
  <2>3. \A v \in Int : <<Do("change", Id, v)>> \in Seq(StepRecords)
      BY <2>1, StepsMade, Names
  <2>4. \A double \in BOOLEAN : Twice(double) \in Seq(StepRecords)
      BY <1>1, <2>1, StepsMade, Joined
  <2> HIDE DEF Twice
  <2> QED
      BY <1>1, <1>2, <2>1, <2>2, <2>3, <2>4, Joined
<1>9. CASE Release
  <2> DEFINE click == IF Hit(Id) = pressed THEN <<Do("released", pressed, 0)>> ELSE <<>>
             fire == <<Fire(pressed, "RELEASE")>>
  <2>1. Now("release") /\ (todo' = Rest \/ (Valid(pressed) /\ todo' = (fire \o click) \o Rest))
      BY <1>9 DEF Release
  <2>2. Valid(pressed) => fire \in Seq(StepRecords) /\ click \in Seq(StepRecords)
      BY <1>1, StepsMade, Names, Joined DEF Valid
  <2> HIDE DEF fire, click
  <2> QED
      BY <1>1, <1>2, <2>1, <2>2, Joined
<1>10. CASE Drag
  <2>1. /\ Now("drag")
        /\ \/ todo' = Rest
           \/ Valid(pressed) /\ \E v \in 0..MaxValue : todo' = <<Do("change", pressed, v)>> \o Rest
      BY <1>10 DEF Drag
  <2>2. \A v \in 0..MaxValue : v \in Int
      BY BoundsAssumption
  <2> QED
      BY <1>1, <1>2, <2>1, <2>2, StepsMade, Names DEF Valid
<1> QED
    BY <1>3, <1>4, <1>5, <1>6, <1>7, <1>8, <1>9, <1>10 DEF MouseStep

LEMMA AheadStarts == Init => PickerAhead
BY DEF Init, PickerAhead

LEMMA AheadKeeps == Inv /\ PickerAhead /\ [Next]_vars => PickerAhead'
<1> SUFFICES ASSUME Inv, PickerAhead, [Next]_vars
             PROVE  PickerAhead'
    OBVIOUS
<1> Fine
    BY DEF Inv, Fine
<1>1. CASE UNCHANGED vars
    BY <1>1 DEF vars, modes, pointers, PickerAhead, Pending
<1>2. CASE CallPick
  <2>1. UNCHANGED hover
      BY <1>2 DEF CallPick, pointers
  <2>2. Pending(todo')
    <3> DEFINE leave == IF Valid(hover) THEN <<Fire(hover, "LEAVE")>> ELSE <<>>
               letgo == Do("letgo", 0, 0)
    <3>1. todo' = (leave \o <<letgo>>) \o todo
        BY <1>2 DEF CallPick
    <3>2. leave \in Seq(StepRecords) /\ letgo \in StepRecords /\ <<letgo>> \in Seq(StepRecords)
        BY LeaveSteps, DoMade, StepsMade, Names, IdsFact
    <3>3. letgo.do = "letgo"
        BY DEF Do, Step
    <3> HIDE DEF leave, letgo
    <3>4. todo \in Seq(StepRecords)
        BY DEF Fine, TodoOK
    <3>5. todo' = leave \o (<<letgo>> \o todo) /\ <<letgo>> \o todo \in Seq(StepRecords)
        BY <3>1, <3>2, <3>4, Assoc, Joined
    <3>6. Pending(<<letgo>> \o todo)
      <4>1. (<<letgo>> \o todo)[1] = letgo /\ Len(<<letgo>> \o todo) = Len(todo) + 1 /\ Len(todo) \in Nat
          BY <3>2, <3>4, OneStep, Indices
      <4>2. 1 \in 1..Len(<<letgo>> \o todo)
          BY <4>1
      <4> QED
          BY <3>3, <4>1, <4>2 DEF Pending
    <3> QED
        BY <3>2, <3>5, <3>6, PendingJoin
  <2> QED
      BY <2>2 DEF PickerAhead
<1>3. CASE LetGo \/ Lost
    BY <1>3 DEF LetGo, Lost, PickerAhead
<1>4. CASE HandlerStep /\ ~LetGo /\ ~CallPick
  <2>1. picker' = picker /\ hover' \in {0, hover}
      BY <1>4 DEF HandlerStep, FireStep, Return, CallSetEnabled, CallSetVisible, CallSetFocus, CallSetValue,
                  CallItems, CallRemove, RemoveWidget, CallCreate, CallMessage, modes, pointers
  <2> QED
      BY <1>4, <2>1, PendingInHandler DEF PickerAhead
<1>5. CASE Change \/ Radio \/ Activate \/ Released \/ MouseStep
  <2>1. picker' = picker /\ hover' = hover
      BY <1>5 DEF Change, Radio, Activate, Released, MouseStep, Press, Pressed, Grab, Release, Drag, modes, pointers
  <2> QED
      BY <1>5, <2>1, PendingInSteps DEF PickerAhead
<1>6. CASE WindowEvent
  <2>1. todo = <<>>
      BY <1>6 DEF WindowEvent, Mouse, MouseOnMessage, PickerMouse, PickerKey, OtherProgram, Wheel, KeyOnMessage,
                  KeyTab, KeyUsed, KeyOpens, KeyLeaves, KeyArrow, FocusLost, Frame, Key, Event
  <2>2. ~picker \/ hover = 0
      BY <2>1 DEF PickerAhead, Pending
  <2>3. ~picker' \/ (picker' = picker /\ hover' = hover) \/ (picker /\ hover' = hover)
    <3>1. CASE Mouse
        BY <3>1 DEF Mouse
    <3>2. CASE PickerMouse \/ PickerKey
        BY <3>2 DEF PickerMouse, PickerKey, PickerGoes, pointers
    <3>3. CASE MouseOnMessage \/ OtherProgram \/ Wheel \/ KeyOnMessage \/ KeyTab \/ KeyUsed \/ KeyOpens
               \/ KeyLeaves \/ KeyArrow \/ FocusLost \/ Frame
        BY <3>3 DEF MouseOnMessage, OtherProgram, Wheel, KeyOnMessage, KeyTab, KeyUsed, KeyOpens,
                    KeyLeaves, KeyArrow, FocusLost, Frame, modes, pointers
    <3> QED
        BY <1>6, <3>1, <3>2, <3>3 DEF WindowEvent
  <2> QED
      BY <2>2, <2>3 DEF PickerAhead
<1> QED
    BY <1>1, <1>2, <1>3, <1>4, <1>5, <1>6 DEF Next

\* While a picker is up, an event of the window changes no widget and calls
\* no widget's handler, not even through the pointer or the wheel
\* (eui_pick_start and the handlers of events that ask for eui_pick_active).
THEOREM PickersBlockInput == Spec => PickerBlocksInput
<1> DEFINE Body == picker /\ todo = <<>> => w' = w /\ NothingForWidgets(todo')
<1>1. Inv /\ PickerAhead /\ [Next]_vars => [Body]_vars
  <2> SUFFICES ASSUME Inv, PickerAhead, Next, picker, todo = <<>>
               PROVE  w' = w /\ NothingForWidgets(todo')
      OBVIOUS
  <2>1. hover = 0
      BY DEF PickerAhead, Pending
  <2>2. MouseOnMessage \/ PickerMouse \/ PickerKey \/ OtherProgram \/ KeyOnMessage \/ FocusLost \/ Frame
      BY DEF Next, HandlerStep, FireStep, Return, CallSetEnabled, CallSetVisible, CallSetFocus, CallSetValue,
             CallItems, CallRemove, CallCreate, CallMessage, CallPick, LetGo, Call, Now,
             Change, Radio, Activate, Released, MouseStep, Press, Pressed, Grab, Release, Drag, Lost,
             WindowEvent, Mouse, Wheel, KeyTab, KeyUsed, KeyOpens, KeyLeaves, KeyArrow, Key
  <2>3. w' = w
      BY <2>2 DEF MouseOnMessage, PickerMouse, PickerKey, PickerGoes, OtherProgram, KeyOnMessage, FocusLost, Frame
  <2>4. todo' \in {<<>>, <<Fire(0, "PICKED")>>, <<Fire(0, "FRAME")>>, <<>> \o <<Do("lost", 0, 0)>>}
    <3>1. ~Valid(hover)
        BY <2>1, IdsFact DEF Valid
    <3> QED
        BY <2>2, <3>1 DEF MouseOnMessage, PickerMouse, PickerKey, PickerGoes, OtherProgram, KeyOnMessage,
                          FocusLost, Frame
  <2>5. \A s : s.id = 0 => NothingForWidgets(<<s>>)
      BY DEF NothingForWidgets
  <2>6. NothingForWidgets(<<>>)
      BY DEF NothingForWidgets
  <2>7. /\ Fire(0, "PICKED").id = 0 /\ Fire(0, "FRAME").id = 0 /\ Do("lost", 0, 0).id = 0
      BY DEF Fire, Do, Step
  <2>8. <<>> \o <<Do("lost", 0, 0)>> = <<Do("lost", 0, 0)>>
    <3>1. <<Do("lost", 0, 0)>> \in Seq(StepRecords)
        BY StepsMade, Names, IdsFact
    <3> QED
        BY <3>1, ConcatEmptySeq
  <2> QED
      BY <2>3, <2>4, <2>5, <2>6, <2>7, <2>8
<1>2. Spec => [](Inv /\ PickerAhead)
    BY Starts, Keeps, AheadStarts, AheadKeeps, PTL DEF Spec
<1>3. [][Body]_vars => PickerBlocksInput
    BY PTL DEF PickerBlocksInput
<1> HIDE DEF Body
<1> QED
    BY <1>1, <1>2, <1>3, PTL DEF Spec

-----------------------------------------------------------------------------
(* What a picker gives a program.                                          *)

\* A record with the fields of eui_pk.
IsPick(q) ==
    q = [mode |-> q.mode, dir |-> q.dir, entries |-> q.entries, selected |-> q.selected, last |-> q.last,
         name |-> q.name, result |-> q.result, listed |-> q.listed]

\* The rows of a picker are what was listed of the folder on top, and its
\* filter has left out what is hidden.
Known(q) ==
    /\ IsPick(q)
    /\ q.mode \in Modes \cup {"none"} /\ q.dir \in Seq(Nat)
    /\ \A row \in DOMAIN q.entries :
          /\ Join(q, row) \in q.listed
          /\ q.entries[row].folder <=> Join(q, row) \in Folders
    /\ q.listed \subseteq Folders \cup Files
    /\ q.mode = "open" => \A p \in q.listed : p \in Hidden => p \in Folders

PickInv ==
    /\ Known(pk) /\ (picker => pk.mode # "none")
    /\ picks \subseteq Modes
    /\ files \subseteq paths /\ paths \subseteq Folders \cup Files

LEMMA FrontAndLast ==
    ASSUME NEW p \in Seq(Nat), p # <<>>
    PROVE  Append(Parent(p), Last(p)) = p
<1>1. Len(p) \in Nat \ {0}
    OBVIOUS
<1> DEFINE f == SubSeq(p, 1, Len(p) - 1)  t == Append(f, p[Len(p)])
<1>2. f \in Seq(Nat) /\ Len(f) = Len(p) - 1 /\ \A i \in 1..(Len(p) - 1) : f[i] = p[i]
  <2> DEFINE m == Len(p) - 1
  <2>1. m \in Int /\ 1 \in Int /\ m \in Nat /\ \A i \in 1..m : p[i] \in Nat
      BY <1>1
  <2>2. Len(p) - 1 = m
      OBVIOUS
  <2> HIDE DEF m
  <2>3. /\ SubSeq(p, 1, m) \in Seq(Nat)
        /\ Len(SubSeq(p, 1, m)) = IF 1 <= m THEN m - 1 + 1 ELSE 0
        /\ \A i \in 1..(m - 1 + 1) : SubSeq(p, 1, m)[i] = p[1 + i - 1]
      BY <2>1, SubSeqProperties
  <2>4. Len(SubSeq(p, 1, m)) = m /\ m - 1 + 1 = m /\ \A i \in 1..m : 1 + i - 1 = i
      BY <2>1, <2>3
  <2> QED
      BY <2>2, <2>3, <2>4
<1>3. p[Len(p)] \in Nat
    BY <1>1
<1>4. t \in Seq(Nat) /\ Len(t) = Len(p) /\ t[Len(p)] = p[Len(p)] /\ \A i \in 1..(Len(p) - 1) : t[i] = f[i]
  <2> HIDE DEF f
  <2> QED
      BY <1>1, <1>2, <1>3
<1>5. t = p
  <2> HIDE DEF f, t
  <2>1. \A i \in 1..Len(t) : t[i] = p[i]
    <3>1. \A i \in 1..Len(t) : i = Len(p) \/ i \in 1..(Len(p) - 1)
        BY <1>1, <1>4
    <3> QED
        BY <1>2, <1>4, <3>1
  <2> QED
      BY <1>4, <2>1, SeqEqual
<1> QED
    BY <1>5 DEF Parent, Front, Last

LEMMA ParentOfJoined ==
    ASSUME NEW dir \in Seq(Nat), NEW n
    PROVE  Append(dir, n) # Root /\ Parent(Append(dir, n)) = dir
<1> DEFINE S == Nat \cup {n}  t == Append(dir, n)  f == SubSeq(t, 1, Len(t) - 1)
<1>1. dir \in Seq(S)
    BY SeqMonotonic
<1> HIDE DEF S
<1>2. n \in S
    BY DEF S
<1>3. t \in Seq(S) /\ Len(t) = Len(dir) + 1 /\ Len(dir) \in Nat /\ \A i \in 1..Len(dir) : t[i] = dir[i]
    BY <1>1, <1>2
<1> HIDE DEF t
<1>4. f \in Seq(S) /\ Len(f) = Len(dir) /\ \A i \in 1..Len(dir) : f[i] = t[i]
    BY <1>3, SubSeqProperties
<1> HIDE DEF f
<1>5. f = dir
    BY <1>1, <1>3, <1>4, SeqEqual
<1>6. t # <<>>
    BY <1>3
<1> QED
    BY <1>5, <1>6 DEF Parent, Front, Root, f, t

\* Where only the selection, the name or the result change.
LEMMA StillKnown ==
    ASSUME NEW q, NEW r, Known(q), IsPick(r), r.mode = q.mode, r.dir = q.dir,
           r.entries = q.entries, r.listed = q.listed
    PROVE  Known(r)
BY DEF Known, Join

LEMMA NobodyKnown ==
    ASSUME NEW name, NEW result, NEW mode \in Modes \cup {"none"}
    PROVE  Known(Pick(mode, name, result)) /\ Pick(mode, name, result).mode = mode
<1> DEFINE q == Pick(mode, name, result)
<1>1. /\ IsPick(q) /\ q.mode = mode /\ q.dir = NoPath /\ q.entries = <<>> /\ q.listed = {}
    BY DEF Pick, IsPick
<1>2. NoPath \in Seq(Nat)
    BY DEF NoPath, NoName
<1>3. DOMAIN <<>> = {}
    OBVIOUS
<1> HIDE DEF q
<1>4. Known(q)
    BY <1>1, <1>2, <1>3 DEF Known
<1> QED
    BY <1>1, <1>4 DEF q

\* eui_pk_load shows what it has listed.
LEMMA LoadKnown ==
    ASSUME NEW there, there \subseteq Folders \cup Files, NEW q, Known(q), NEW dir,
           NEW r \in Load(there, q, dir)
    PROVE  Known(r) /\ r.mode = q.mode
<1>1. CASE ~IsFolder(there, dir)
    BY <1>1 DEF Load
<1>2. CASE IsFolder(there, dir)
  <2>1. dir \in Seq(Nat)
    <3>1. <<>> \in Seq(Nat)
        OBVIOUS
    <3> QED
        BY <1>2, <3>1, PathsAssumption DEF IsFolder, Root
  <2>2. \/ r = [[q EXCEPT !.dir = dir, !.selected = 0] EXCEPT !.entries = <<>>, !.listed = {}]
        \/ \E shown \in Shown(there, q.mode, dir) : \E rows \in Sorted(shown) :
              r = [[q EXCEPT !.dir = dir, !.selected = 0] EXCEPT !.entries = rows, !.listed = shown]
      BY <1>2 DEF Load
  <2>3. ASSUME NEW rows, NEW set,
               r = [[q EXCEPT !.dir = dir, !.selected = 0] EXCEPT !.entries = rows, !.listed = set]
        PROVE  IsPick(r) /\ r.mode = q.mode /\ r.dir = dir /\ r.entries = rows /\ r.listed = set
      BY <2>3 DEF Known, IsPick
  <2>4. ASSUME NEW shown \in Shown(there, q.mode, dir), NEW p \in shown
        PROVE  /\ p \in Folders \cup Files /\ Append(dir, Last(p)) = p
               /\ q.mode = "open" /\ p \in Hidden => p \in Folders
    <3>0. PICK some \in Listed(there, dir) : shown = Offered(some, q.mode)
        BY DEF Shown
    <3>1. p \in there /\ p # Root /\ Parent(p) = dir
      <4>1. some \subseteq {x \in there : x # Root /\ Parent(x) = dir}
          BY DEF Listed, kSubset
      <4> QED
          BY <3>0, <4>1 DEF Offered
    <3>2. p \in Seq(Nat)
        BY <3>1, PathsAssumption
    <3>3. Append(Parent(p), Last(p)) = p
        BY <3>1, <3>2, FrontAndLast DEF Root
    <3> QED
        BY <3>0, <3>1, <3>3 DEF Offered
  <2>5. CASE r = [[q EXCEPT !.dir = dir, !.selected = 0] EXCEPT !.entries = <<>>, !.listed = {}]
    <3>1. DOMAIN <<>> = {}
        OBVIOUS
    <3> QED
        BY <2>1, <2>3, <2>5, <3>1 DEF Known
  <2>6. ASSUME NEW shown \in Shown(there, q.mode, dir), NEW rows \in Sorted(shown),
               r = [[q EXCEPT !.dir = dir, !.selected = 0] EXCEPT !.entries = rows, !.listed = shown]
        PROVE  Known(r) /\ r.mode = q.mode
    <3>1. IsPick(r) /\ r.mode = q.mode /\ r.dir = dir /\ r.entries = rows /\ r.listed = shown
        BY <2>3, <2>6
    <3>2. ASSUME NEW row \in DOMAIN rows
          PROVE  /\ Append(dir, rows[row].name) \in shown
                 /\ rows[row].folder <=> Append(dir, rows[row].name) \in Folders
      <4>1. rows[row] \in {Row(p) : p \in shown}
          BY DEF Sorted
      <4>2. PICK p \in shown : rows[row] = Row(p)
          BY <4>1
      <4>3. rows[row].name = Last(p) /\ rows[row].folder = (p \in Folders)
        <5>1. Row(p).name = Last(p) /\ Row(p).folder = (p \in Folders)
            BY Zenon DEF Row
        <5> QED
            BY <4>2, <5>1
      <4> QED
          BY <2>4, <4>3
    <3> QED
        BY <2>1, <2>4, <3>1, <3>2 DEF Known, Join
  <2> QED
      BY <2>2, <2>5, <2>6
<1> QED
    BY <1>1, <1>2

\* What a picker q may become: it goes on, or it is over, with a path that
\* is fair or none.
Gives(there, q, r) ==
    \/ Known(r) /\ r.mode = q.mode
    \/ \E path : r = Finished(path) /\ (path = NoPath \/ Fair(there, q, path))

LEMMA SameFairness ==
    ASSUME NEW there, NEW q, NEW p, p.mode = q.mode, p.dir = q.dir, p.listed = q.listed,
           NEW r, Gives(there, p, r)
    PROVE  Gives(there, q, r)
BY DEF Gives, Fair

\* A path that is joined and that is fair if it fits, is fair.
LEMMA ClipFair ==
    ASSUME NEW there, NEW q, NEW path, Parent(path) = q.dir, Fair(there, q, path)
    PROVE  Fair(there, q, Clip(path))
BY DEF Clip, Fair

\* Setting one of the other fields.
Alike(q, r) ==
    IsPick(r) /\ r.mode = q.mode /\ r.dir = q.dir /\ r.entries = q.entries /\ r.listed = q.listed

LEMMA Refilled ==
    ASSUME NEW q, IsPick(q)
    PROVE  /\ \A v : Alike(q, [q EXCEPT !.result = v])
           /\ \A v : Alike(q, [q EXCEPT !.name = v])
           /\ \A v : Alike(q, [q EXCEPT !.last = v])
           /\ \A u, v : Alike(q, [q EXCEPT !.selected = u, !.name = v])
<1> DEFINE m == q.mode  d == q.dir  e == q.entries  se == q.selected  la == q.last
           na == q.name  re == q.result  li == q.listed
           p == [mode |-> m, dir |-> d, entries |-> e, selected |-> se, last |-> la,
                 name |-> na, result |-> re, listed |-> li]
<1>1. q = p
    BY DEF IsPick
<1>2. /\ q.mode = m /\ q.dir = d /\ q.entries = e /\ q.listed = li
    OBVIOUS
<1> HIDE DEF m, d, e, se, la, na, re, li
<1>3. ASSUME NEW v
      PROVE  Alike(p, [p EXCEPT !.result = v])
    BY DEF IsPick, Alike
<1>4. ASSUME NEW v
      PROVE  Alike(p, [p EXCEPT !.name = v])
    BY DEF IsPick, Alike
<1>5. ASSUME NEW v
      PROVE  Alike(p, [p EXCEPT !.last = v])
    BY DEF IsPick, Alike
<1>6. ASSUME NEW u, NEW v
      PROVE  Alike(p, [p EXCEPT !.selected = u, !.name = v])
  <2> DEFINE t == [p EXCEPT !.selected = u]  r == [t EXCEPT !.name = v]
  <2>1. t = [mode |-> m, dir |-> d, entries |-> e, selected |-> u, last |-> la,
             name |-> na, result |-> re, listed |-> li]
      OBVIOUS
  <2>2. [p EXCEPT !.selected = u, !.name = v] = r
      OBVIOUS
  <2> HIDE DEF t
  <2>3. r = [mode |-> m, dir |-> d, entries |-> e, selected |-> u, last |-> la,
             name |-> v, result |-> re, listed |-> li]
      BY <2>1
  <2> HIDE DEF r
  <2>4. Alike(p, r)
      BY <2>3 DEF IsPick, Alike
  <2> QED
      BY <2>2, <2>4
<1> HIDE DEF p
<1> QED
    BY <1>1, <1>3, <1>4, <1>5, <1>6

\* eui_pk_accept
LEMMA AcceptGives ==
    ASSUME NEW there, there \subseteq Folders \cup Files, NEW q, Known(q), q.mode \in Modes,
           NEW r \in Accept(there, q)
    PROVE  Gives(there, q, r)
<1>1. ASSUME NEW row, row \in DOMAIN q.entries
      PROVE  /\ Join(q, row) \in q.listed /\ Join(q, row) \in Folders \cup Files
             /\ q.entries[row].folder <=> Join(q, row) \in Folders
             /\ q.mode = "open" /\ Join(q, row) \in Hidden => Join(q, row) \in Folders
    BY <1>1 DEF Known
<1>2. \A dir : \A s \in Load(there, q, dir) : Gives(there, q, s)
    BY LoadKnown DEF Gives
<1>3. Known(q) /\ q.mode = q.mode
    OBVIOUS
<1>7. \A name : Append(q.dir, name) # Root /\ Parent(Append(q.dir, name)) = q.dir
    BY ParentOfJoined DEF Known
<1>8. \A row : Parent(Join(q, row)) = q.dir
    BY <1>7 DEF Join
<1>4. CASE q.mode = "folder"
  <2>1. r = Finished(IF SelectedFolder(q) THEN Clip(Join(q, q.selected)) ELSE q.dir)
      BY <1>4 DEF Accept, AcceptFolder
  <2>2. CASE SelectedFolder(q)
    <3>1. Join(q, q.selected) \in q.listed \cap Folders
        BY <1>1, <2>2 DEF SelectedFolder, Selected
    <3>2. Fair(there, q, Join(q, q.selected))
        BY <1>4, <3>1 DEF Fair
    <3> QED
        BY <1>8, <2>1, <2>2, <3>2, ClipFair DEF Gives
  <2>4. CASE ~SelectedFolder(q)
      BY <1>4, <2>1, <2>4 DEF Fair, Gives
  <2> QED
      BY <2>2, <2>4
<1>5. CASE q.mode = "save"
  <2>1. r \in AcceptName(there, q)
      BY <1>5 DEF Accept
  <2> DEFINE whole == Append(q.dir, q.name)  path == Clip(whole)  p == [q EXCEPT !.result = path]
  <2>2. ASSUME NEW s \in Load(there, p, path), r = [s EXCEPT !.name = NoName]
        PROVE  Gives(there, q, r)
    <3>1. IsPick(p) /\ p.mode = q.mode /\ p.dir = q.dir /\ p.entries = q.entries /\ p.listed = q.listed
        BY Refilled DEF Known, Alike
    <3> HIDE DEF p
    <3>2. Known(s) /\ s.mode = q.mode
        BY <2>2, <3>1, StillKnown, LoadKnown
    <3>4. IsPick(s)
        BY <3>2 DEF Known
    <3>5. Alike(s, [s EXCEPT !.name = NoName])
        BY <3>4, Refilled
    <3>3. IsPick(r) /\ r.mode = s.mode /\ r.dir = s.dir /\ r.entries = s.entries /\ r.listed = s.listed
        BY <2>2, <3>5 DEF Alike
    <3> QED
        BY <3>2, <3>3, StillKnown DEF Gives
  <2>3. ASSUME r = Finished(path), ~IsFolder(there, path)
        PROVE  Gives(there, q, r)
    <3>1. whole # Root /\ Parent(whole) = q.dir
        BY <1>7
    <3> HIDE DEF whole
    <3>2. Fair(there, q, path)
        BY <1>5, <2>3, <3>1 DEF Fair, Clip
    <3> QED
        BY <2>3, <3>2 DEF Gives
  <2> HIDE DEF path, p
  <2>4. \/ r \in Load(there, q, Clip(Join(q, q.selected)))
        \/ r = q
        \/ \E s \in Load(there, p, path) : r = [s EXCEPT !.name = NoName]
        \/ r = Finished(path) /\ ~IsFolder(there, path)
    <3> DEFINE inside == SelectedFolder(q) /\ q.name \in {NoName, q.entries[q.selected].name}
               nothing == ~SelectedFolder(q) /\ q.name = NoName
    <3>1. CASE inside
        BY <2>1, <3>1 DEF AcceptName
    <3>2. CASE nothing
        BY <2>1, <3>2 DEF AcceptName
    <3>3. CASE ~inside /\ ~nothing
        BY <2>1, <3>3 DEF AcceptName, path, p
    <3> QED
        BY <3>1, <3>2, <3>3
  <2> QED
      BY <1>2, <1>3, <2>2, <2>3, <2>4 DEF Gives
<1>6. CASE q.mode = "open"
  <2>1. r \in AcceptFile(there, q)
      BY <1>6 DEF Accept
  <2>2. CASE SelectedFolder(q)
    <3>1. r \in Load(there, q, Clip(Join(q, q.selected)))
        BY <2>1, <2>2 DEF AcceptFile
    <3> QED
        BY <1>2, <3>1
  <2>3. CASE Selected(q) /\ ~SelectedFolder(q)
    <3>1. r = Finished(Clip(Join(q, q.selected)))
        BY <2>1, <2>3 DEF AcceptFile
    <3>2. Join(q, q.selected) \in (q.listed \cap Files) \ Hidden
        BY <1>1, <1>6, <2>3 DEF Selected, SelectedFolder
    <3>4. Fair(there, q, Join(q, q.selected))
        BY <1>6, <3>2 DEF Fair
    <3>3. Fair(there, q, Clip(Join(q, q.selected)))
        BY <1>8, <3>4, ClipFair
    <3> QED
        BY <3>1, <3>3 DEF Gives
  <2>4. CASE ~Selected(q)
    <3>1. r = q
        BY <2>1, <2>4 DEF AcceptFile, SelectedFolder
    <3> QED
        BY <3>1 DEF Gives
  <2> QED
      BY <2>2, <2>3, <2>4
<1> QED
    BY <1>4, <1>5, <1>6 DEF Modes

LEMMA OnRowKnown ==
    ASSUME NEW q, Known(q), NEW row
    PROVE  LET p == OnRow(q, row) IN
           /\ Known(p) /\ p.mode = q.mode /\ p.dir = q.dir /\ p.entries = q.entries /\ p.listed = q.listed
           /\ \A n : LET r == [p EXCEPT !.last = n] IN
                Known(r) /\ r.mode = q.mode /\ r.dir = q.dir /\ r.entries = q.entries /\ r.listed = q.listed
<1> DEFINE p == OnRow(q, row)
<1>1. IsPick(p) /\ p.mode = q.mode /\ p.dir = q.dir /\ p.entries = q.entries /\ p.listed = q.listed
  <2> DEFINE n == IF q.mode = "save" /\ ~q.entries[row].folder THEN q.entries[row].name ELSE q.name
  <2>1. p = [q EXCEPT !.selected = row, !.name = n]
      BY DEF OnRow
  <2>2. IsPick(q)
      BY DEF Known
  <2> HIDE DEF n, p
  <2>3. Alike(q, [q EXCEPT !.selected = row, !.name = n])
      BY <2>2, Refilled
  <2> QED
      BY <2>1, <2>3 DEF Alike
<1>2. Known(p)
    BY <1>1, StillKnown
<1> HIDE DEF p
<1>3. ASSUME NEW n
      PROVE  LET r == [p EXCEPT !.last = n] IN
             Known(r) /\ r.mode = q.mode /\ r.dir = q.dir /\ r.entries = q.entries /\ r.listed = q.listed
  <2> DEFINE r == [p EXCEPT !.last = n]
  <2>1. IsPick(r) /\ r.mode = p.mode /\ r.dir = p.dir /\ r.entries = p.entries /\ r.listed = p.listed
      BY <1>1, Refilled DEF Alike
  <2> HIDE DEF r
  <2>2. Known(r)
      BY <1>2, <2>1, StillKnown
  <2>3. Known(r) /\ r.mode = q.mode /\ r.dir = q.dir /\ r.entries = q.entries /\ r.listed = q.listed
      BY <1>1, <2>1, <2>2
  <2> QED
      BY <2>3 DEF r
<1>4. /\ Known(p) /\ p.mode = q.mode /\ p.dir = q.dir /\ p.entries = q.entries /\ p.listed = q.listed
      /\ \A n : LET r == [p EXCEPT !.last = n] IN
           Known(r) /\ r.mode = q.mode /\ r.dir = q.dir /\ r.entries = q.entries /\ r.listed = q.listed
    BY <1>1, <1>2, <1>3
<1> QED
    BY <1>4 DEF p

LEMMA ClickGives ==
    ASSUME NEW there, there \subseteq Folders \cup Files, NEW q, Known(q), q.mode \in Modes,
           NEW row, NEW quick, NEW r \in ClickRow(there, q, row, quick)
    PROVE  Gives(there, q, r)
<1> DEFINE p(n) == [OnRow(q, row) EXCEPT !.last = n]
<1>1. \A n : /\ Known(p(n)) /\ p(n).mode = q.mode /\ p(n).dir = q.dir
             /\ p(n).entries = q.entries /\ p(n).listed = q.listed
    BY OnRowKnown
<1>2. \/ r = p(row)
      \/ r \in Load(there, p(0), Clip(Join(p(0), row)))
      \/ r \in Accept(there, p(0))
    BY DEF ClickRow
<1> HIDE DEF p
<1>3. CASE r = p(row)
    BY <1>1, <1>3 DEF Gives
<1>4. CASE r \in Load(there, p(0), Clip(Join(p(0), row)))
    BY <1>1, <1>4, LoadKnown DEF Gives
<1>5. CASE r \in Accept(there, p(0))
    BY <1>1, <1>5, AcceptGives, SameFairness
<1> QED
    BY <1>2, <1>3, <1>4, <1>5

\* eui_pick_mouse and eui_pick_key
LEMMA PickerGives ==
    ASSUME NEW there, there \subseteq Folders \cup Files, NEW q, Known(q), q.mode \in Modes,
           NEW r \in Pressing(there, q) \cup Keys(there, q)
    PROVE  Gives(there, q, r)
<1>1. Gives(there, q, Finished(NoPath)) /\ Gives(there, q, q)
    BY DEF Gives
<1>2. \A dir : \A s \in Load(there, q, dir) : Gives(there, q, s)
    BY LoadKnown DEF Gives
<1>3. \A s \in Up(there, q) : Gives(there, q, s)
    BY <1>1, <1>2 DEF Up
<1>4. \A s \in Accept(there, q) : Gives(there, q, s)
    BY AcceptGives
<1>5. \A row : Gives(there, q, OnRow(q, row))
    BY OnRowKnown DEF Gives
<1>6. ASSUME NEW n
      PROVE  Gives(there, q, [q EXCEPT !.name = n])
  <2> DEFINE s == [q EXCEPT !.name = n]
  <2>1. IsPick(s) /\ s.mode = q.mode /\ s.dir = q.dir /\ s.entries = q.entries /\ s.listed = q.listed
      BY Refilled DEF Known, Alike
  <2> HIDE DEF s
  <2>2. Gives(there, q, s)
      BY <2>1, StillKnown DEF Gives
  <2> QED
      BY <2>2 DEF s
<1>7. CASE r \in Pressing(there, q)
  <2>1. \/ r \in {Finished(NoPath), q} \/ r \in Accept(there, q) \/ r \in Up(there, q)
        \/ \E dir \in Places(there) : r \in Load(there, q, dir)
        \/ \E row \in DOMAIN q.entries, quick \in BOOLEAN : r \in ClickRow(there, q, row, quick)
    <3> DEFINE loads == UNION {Load(there, q, dir) : dir \in Places(there)}
               clicks == UNION {ClickRow(there, q, row, quick) : row \in DOMAIN q.entries, quick \in BOOLEAN}
    <3> DEFINE all == {Finished(NoPath), q} \cup Accept(there, q) \cup Up(there, q) \cup loads \cup clicks
    <3>1. r \in {Finished(NoPath), q} \cup Accept(there, q) \cup Up(there, q) \cup loads \cup clicks
        BY <1>7 DEF Pressing
    <3>2. r \in loads => \E dir \in Places(there) : r \in Load(there, q, dir)
        OBVIOUS
    <3>3. r \in clicks =>
            \E row \in DOMAIN q.entries, quick \in BOOLEAN : r \in ClickRow(there, q, row, quick)
        OBVIOUS
    <3> HIDE DEF loads, clicks
    <3> QED
        BY <3>1, <3>2, <3>3
  <2> QED
      BY <1>1, <1>2, <1>3, <1>4, <2>1, ClickGives
<1>8. CASE r \in Keys(there, q)
  <2>1. \/ r \in {Finished(NoPath), q} \/ r \in Accept(there, q) \/ r \in Up(there, q)
        \/ \E row : r = OnRow(q, row)
        \/ \E n : r = [q EXCEPT !.name = n]
      BY <1>8 DEF Keys
  <2> QED
      BY <1>1, <1>3, <1>4, <1>5, <1>6, <2>1
<1> QED
    BY <1>7, <1>8

LEMMA PickStarts == Init => PickInv
<1> SUFFICES ASSUME Init
             PROVE  PickInv
    OBVIOUS
<1>1. PICK window \in Windows : picks = window.picks /\ paths = window.paths /\ files = paths
    BY DEF Init
<1>2. picks \subseteq Modes /\ paths \subseteq Folders \cup Files
    BY <1>1, WindowsAssumption
<1>3. Known(pk) /\ ~picker
    BY NobodyKnown DEF Init, NoPick
<1> QED
    BY <1>1, <1>2, <1>3 DEF PickInv

\* What eui_pick_mouse and eui_pick_key leave, and when they are through.
LEMMA PickerStep ==
    ASSUME PickInv, PickerMouse \/ PickerKey
    PROVE  /\ Known(pk') /\ pk'.mode \in {pk.mode, "none"} /\ picker' = (pk'.mode # "none")
           /\ pk'.mode = "none" /\ pk'.result # NoPath => Fair(files, pk, pk'.result)
           /\ UNCHANGED <<files, program>>
<1>1. Known(pk) /\ pk.mode \in Modes /\ "none" \notin Modes /\ files \subseteq Folders \cup Files
    BY DEF PickInv, Known, PickerMouse, PickerKey, Modes
<1>2. pk' = pk \/ pk' \in Pressing(files, pk) \cup Keys(files, pk)
  <2>1. CASE PickerMouse
    <3>1. PICK button \in BOOLEAN : pk' \in IF button /\ ~down THEN Pressing(files, pk) ELSE {pk}
        BY <2>1 DEF PickerMouse
    <3>2. CASE button /\ ~down
        BY <3>1, <3>2
    <3>3. CASE ~(button /\ ~down)
        BY <3>1, <3>3
    <3> QED
        BY <3>2, <3>3
  <2>2. CASE PickerKey
      BY <2>2 DEF PickerKey
  <2> QED
      BY <2>1, <2>2
<1>3. Gives(files, pk, pk')
    BY <1>1, <1>2, PickerGives DEF Gives
<1>4. picker' = (pk'.mode # "none") /\ UNCHANGED <<files, program>>
    BY DEF PickerMouse, PickerKey, PickerGoes, Event
<1>5. CASE Known(pk') /\ pk'.mode = pk.mode
    BY <1>1, <1>4, <1>5
<1>6. ASSUME NEW path, pk' = Finished(path), path = NoPath \/ Fair(files, pk, path)
      PROVE  /\ Known(pk') /\ pk'.mode = "none"
             /\ pk'.result # NoPath => Fair(files, pk, pk'.result)
  <2>1. pk' = Pick("none", NoName, path)
      BY <1>6 DEF Finished
  <2>2. pk'.result = path
      BY <2>1 DEF Pick
  <2>3. "none" \in Modes \cup {"none"}
      OBVIOUS
  <2>4. Known(Pick("none", NoName, path)) /\ Pick("none", NoName, path).mode = "none"
      BY <2>3, NobodyKnown
  <2> QED
      BY <1>6, <2>1, <2>2, <2>4
<1> QED
    BY <1>3, <1>4, <1>5, <1>6 DEF Gives

LEMMA PickKeeps == PickInv /\ [Next]_vars => PickInv'
<1> SUFFICES ASSUME PickInv, [Next]_vars
             PROVE  PickInv'
    OBVIOUS
<1>1. UNCHANGED program => picks' \subseteq Modes /\ paths' \subseteq Folders \cup Files /\ paths' = paths
    BY DEF PickInv, program
<1>2. CASE UNCHANGED <<pk, picker, files, program>>
    BY <1>2 DEF PickInv, Known, IsPick, Join, program
<1>3. CASE CallPick
  <2>1. PICK mode \in picks, name \in Typed \cup {NoName} : pk' = Pick(mode, name, NoPath)
      BY <1>3 DEF CallPick
  <2>2. mode \in Modes /\ mode # "none"
      BY <2>1 DEF PickInv, Modes
  <2>3. Known(pk') /\ pk'.mode # "none"
      BY <2>1, <2>2, NobodyKnown
  <2>4. UNCHANGED <<files, program>>
      BY <1>3 DEF CallPick, Call
  <2> QED
      BY <1>1, <2>3, <2>4 DEF PickInv
<1>4. CASE LetGo
  <2>1. PICK dir : pk' \in Load(files, pk, dir)
      BY <1>4 DEF LetGo, Opening
  <2>2. Known(pk') /\ pk'.mode = pk.mode
      BY <2>1, LoadKnown DEF PickInv
  <2>3. UNCHANGED <<files, program, picker>>
      BY <1>4 DEF LetGo
  <2> QED
      BY <1>1, <2>2, <2>3 DEF PickInv
<1>5. CASE PickerMouse \/ PickerKey
    BY <1>1, <1>5, PickerStep DEF PickInv
<1>6. CASE OtherProgram
  <2>1. files' \subseteq paths
      BY <1>6 DEF OtherProgram, PickInv
  <2>2. UNCHANGED <<pk, picker, program>>
      BY <1>6 DEF OtherProgram, Event
  <2> QED
      BY <1>1, <2>1, <2>2 DEF PickInv, Known, IsPick, Join
<1>7. CASE Next /\ ~CallPick /\ ~LetGo /\ ~PickerMouse /\ ~PickerKey /\ ~OtherProgram
  <2>1. UNCHANGED <<pk, picker, files, program>>
    <3>1. CASE HandlerStep
        BY <1>7, <3>1 DEF HandlerStep, FireStep, Return, CallSetEnabled, CallSetVisible, CallSetFocus, CallSetValue,
                  CallItems, CallRemove, RemoveWidget, CallCreate, CallMessage, Call, modes, pointers, dialog
    <3>2. CASE Change \/ Radio \/ Activate \/ Released \/ MouseStep \/ Lost
        BY <3>2 DEF Change, Radio, Activate, Released, MouseStep, Press, Pressed, Grab, Release, Drag, Lost,
                    modes, pointers, dialog
    <3>3. CASE WindowEvent
        BY <1>7, <3>3 DEF WindowEvent, Mouse, MouseOnMessage, Wheel, KeyOnMessage, KeyTab, KeyUsed, KeyOpens,
                    KeyLeaves, KeyArrow, FocusLost, Frame, Key, Event, modes, dialog
    <3> QED
        BY <1>7, <3>1, <3>2, <3>3 DEF Next
  <2> QED
      BY <1>2, <2>1
<1>8. CASE UNCHANGED vars
    BY <1>2, <1>8 DEF vars, modes, dialog
<1> QED
    BY <1>3, <1>4, <1>5, <1>6, <1>7, <1>8

\* The path a picker gives `done` was listed or is shown, and is of the kind
\* and past the filter that were asked for, whatever other programs do to the
\* folders meanwhile (eui_pk_load, eui_pk_accept and eui_pk_finish).
THEOREM PicksAreFair == Spec => PicksWhatWasShown
<1> DEFINE Body == picker /\ ~picker' /\ pk'.result # NoPath => Fair(files, pk, pk'.result)
<1>1. PickInv /\ [Next]_vars => [Body]_vars
  <2> SUFFICES ASSUME PickInv, Next, picker, ~picker', pk'.result # NoPath
               PROVE  Fair(files, pk, pk'.result)
      OBVIOUS
  <2>1. PickerMouse \/ PickerKey
    <3>1. ~HandlerStep
        BY DEF HandlerStep, FireStep, Return, CallSetEnabled, CallSetVisible, CallSetFocus, CallSetValue,
               CallItems, CallRemove, RemoveWidget, CallCreate, CallMessage, CallPick, LetGo, modes
    <3>2. ~(Change \/ Radio \/ Activate \/ Released \/ MouseStep \/ Lost)
        BY DEF Change, Radio, Activate, Released, MouseStep, Press, Pressed, Grab, Release, Drag, Lost, modes
    <3>3. CASE WindowEvent
        BY <3>3 DEF WindowEvent, Mouse, MouseOnMessage, OtherProgram, Wheel, KeyOnMessage, KeyTab, KeyUsed, KeyOpens,
                    KeyLeaves, KeyArrow, FocusLost, Frame, Key, modes
    <3> QED
        BY <3>1, <3>2, <3>3 DEF Next
  <2>2. pk'.mode = "none"
      BY <2>1, PickerStep
  <2> QED
      BY <2>1, <2>2, PickerStep
<1>2. Spec => []PickInv
    BY PickStarts, PickKeeps, PTL DEF Spec
<1>3. [][Body]_vars => PicksWhatWasShown
    BY PTL DEF PicksWhatWasShown
<1> HIDE DEF Body
<1> QED
    BY <1>1, <1>2, <1>3, PTL DEF Spec
=============================================================================
