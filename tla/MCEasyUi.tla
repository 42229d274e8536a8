------------------------------- MODULE MCEasyUi -------------------------------
(* The programs on which TLC checks EasyUi: a few widgets, and what their  *)
(* handlers call.                                                          *)
EXTENDS EasyUi

Button == Widget("BUTTON", 0, 0, 0)
Checkbox == Widget("CHECKBOX", 0, 0, 0)
Slider == Widget("SLIDER", 0, 0, 0)
Text == Widget("TEXTINPUT", 0, 0, 0)
Canvas == Widget("CANVAS", 0, 0, 0)
Dropdown == Widget("DROPDOWN", -1, 0, 1)
Listbox == Widget("LISTBOX", -1, 0, 1)
On(group) == Widget("RADIO", 1, group, 0)
Off(group) == Widget("RADIO", 0, group, 0)

\* A program whose pickers, if it has any, find nothing.
Program(widgets, made, called) ==
    [widgets |-> widgets, kinds |-> made, calls |-> called, picks |-> {"open"}, paths |-> {}]

\* A document in a folder, and two beside it of which the filter hides one.
MCFolders == {<<1>>}
MCFiles == {<<1, 2>>, <<2>>, <<3>>}
MCHidden == {<<2>>}
MCHomes == <<<<1>>>>
MCStandard == {1}
MCTyped == {1, 3}
MCLong == [p \in {<<1, 3>>} |-> <<1, 2>>]

MCPrograms ==
    {Program(<<Dropdown, Unused, Unused>>, {"DROPDOWN", "PANEL"}, {"remove", "create"}),
     Program(<<Dropdown, Button, Unused>>, {}, {"enable", "remove", "focus"}),
     Program(<<Listbox, Checkbox, Unused>>, {"LISTBOX"}, {"show", "items", "value", "remove"}),
     Program(<<Slider, Text, Unused>>, {}, {"message", "pick", "focus"}),
     Program(<<Canvas, Dropdown, Unused>>, {}, {"message", "pick", "show"}),
     Program(<<On(1), Off(1), Off(1)>>, {}, {"value"}),
     Program(<<On(0), On(1), Unused>>, {"RADIO"}, {"remove", "create"}),
     [Program(<<Canvas, Unused, Unused>>, {}, {"pick"}) EXCEPT !.picks = Modes, !.paths = MCFolders \cup MCFiles]}

=============================================================================
