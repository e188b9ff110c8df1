-------------------------------- MODULE Overlays --------------------------------
(* The parts of the UI library that open over a page and take the keyboard:    *)
(* the dialog, the menu of a button (Dropdown) and the list of choices         *)
(* (Select), in ui/src/components. One of them is used in each behaviour, with  *)
(* one set of items of which some are disabled, by a user with mouse and       *)
(* keyboard.                                                                   *)
(*                                                                             *)
(* The focus is on one element: an item of the overlay, its box, the element   *)
(* that opened it, another one of the page, or none (the body). A dialog of    *)
(* the applications may have an item that takes the focus by itself when it is *)
(* put on the page (autoFocus), and an onClose that is new at every rendering, *)
(* so that the effect of the dialog is undone and done again.                  *)
EXTENDS Naturals, FiniteSets, FiniteSetsExt

CONSTANTS
    ItemCount,      \* items of an overlay, in their order
    MaxPresses      \* bound: keys and clicks

ASSUME OverlaysAssumption == ItemCount \in Nat \ {0} /\ MaxPresses \in Nat

VARIABLES
    overlay,        \* "dialog", "menu" or "select"
    barred,         \* the items that are disabled
    selfFocus,      \* the item of a dialog that takes the focus by itself, or 0
    stableClose,    \* the onClose of the dialog stays the same
    cameFrom,       \* the element that had the focus when the dialog was opened last
    shown,          \* the overlay is open
    focus,          \* the element that has the focus
    frame,          \* an animation frame is requested that moves the focus
    remembered,     \* what a dialog gives the focus back to
    highlighted,    \* the item of the list the arrows are at, or 0
    picked,         \* the last item chosen, and how a menu sorts: [item, up]
    presses,
    wandered        \* the focus left a dialog or menu that was open (history)

overlayVars == <<overlay, barred, selfFocus, stableClose, cameFrom, shown, focus, frame,
                 remembered, highlighted, picked, presses, wandered>>

kindVars == <<overlay, barred, selfFocus, stableClose>>

Elements   == 1 .. ItemCount
Opener  == 0
Body    == ItemCount + 1
Page    == ItemCount + 2
Box     == ItemCount + 3
Inside  == Elements \cup {Box}
Outside == {Opener, Body, Page}

Enabled == Elements \ barred
FirstItem   == Min(Enabled)
LastItem    == Max(Enabled)

OverlaysInit ==
    /\ overlay \in {"dialog", "menu", "select"}
    /\ barred \in SUBSET Elements /\ barred # Elements
    /\ selfFocus \in {0} \cup Elements /\ stableClose \in BOOLEAN
    /\ overlay = "dialog" \/ (selfFocus = 0 /\ stableClose)
    /\ selfFocus \notin barred
    /\ cameFrom = Opener /\ shown = FALSE /\ focus = Opener /\ frame = FALSE
    /\ remembered = Opener /\ highlighted = 0 /\ picked = [item |-> 0, up |-> FALSE]
    /\ presses = 0 /\ wandered = FALSE

Press == presses < MaxPresses /\ presses' = presses + 1

\* The item after, or before, one in a circle; from elsewhere the first, or last.
Following(i) ==
    LET later == {j \in Enabled : j > i}
    IN  IF i \in Enabled /\ later # {} THEN Min(later) ELSE FirstItem

Preceding(i) ==
    LET earlier == {j \in Enabled : j < i}
    IN  IF i \in Enabled /\ earlier # {} THEN Max(earlier) ELSE LastItem

\* The focus is given to an element; to the body, or one that is gone, it is not.
Focused(e, on) == IF e \in on THEN e ELSE focus

-------------------------------------------------------------------------------
(* The dialog.                                                                 *)

\* Its button is clicked, which may be gone by then. An item that takes the focus by
\* itself has it before the dialog remembers what had it.
ShowDialog ==
    /\ overlay = "dialog" /\ ~shown /\ Press
    /\ shown' = TRUE /\ frame' = TRUE /\ wandered' = FALSE
    /\ cameFrom' \in {Opener, Body}
    /\ focus' = IF selfFocus # 0 THEN selfFocus ELSE cameFrom'
    /\ remembered' = focus'
    /\ UNCHANGED <<kindVars, highlighted, picked>>

\* The frame: the first item has the focus.
Frame ==
    /\ frame /\ frame' = FALSE /\ focus' = FirstItem
    /\ UNCHANGED <<kindVars, cameFrom, shown, remembered, highlighted, picked, presses, wandered>>

\* A rendering with a new onClose, after a key in a field or an answer: the focus is
\* given back, remembered again, and a new frame takes it to the first item.
Rerender ==
    /\ overlay = "dialog" /\ shown /\ ~stableClose /\ Press
    /\ focus' = Focused(remembered, Inside \cup {Opener, Page})
    /\ remembered' = focus' /\ frame' = TRUE
    /\ UNCHANGED <<kindVars, cameFrom, shown, highlighted, picked, wandered>>

\* From the last item Tab goes to the first and back; otherwise the browser decides:
\* from the box of the dialog backwards it goes to the page.
DialogTab ==
    CASE focus \in Elements          -> IF focus = LastItem THEN FirstItem ELSE Following(focus)
      [] focus = Box              -> FirstItem
      [] focus \in Outside        -> Page

DialogBackTab ==
    CASE focus \in Elements          -> IF focus = FirstItem THEN LastItem ELSE Preceding(focus)
      [] focus \in Outside \cup {Box} -> Page

TabInDialog ==
    /\ overlay = "dialog" /\ shown /\ Press
    /\ focus' \in {DialogTab, DialogBackTab}
    /\ wandered' = (wandered \/ focus' = Page)
    /\ UNCHANGED <<kindVars, cameFrom, shown, frame, remembered, highlighted, picked>>

\* A click on an item, or on a text, which gives the focus to the box.
ClickInDialog ==
    /\ overlay = "dialog" /\ shown /\ Press
    /\ focus' \in Enabled \cup {Box}
    /\ UNCHANGED <<kindVars, cameFrom, shown, frame, remembered, highlighted, picked, wandered>>

\* Escape, a button, or a click beside the dialog, which takes the focus away. What is
\* remembered has the focus again, if it is still there.
DismissDialog ==
    /\ overlay = "dialog" /\ shown /\ Press
    /\ shown' = FALSE /\ frame' = FALSE
    /\ focus' = CASE remembered \in {Opener, Page}                           -> remembered
                  [] remembered \notin {Opener, Page} /\ focus \in Inside     -> Body
                  [] remembered \notin {Opener, Page} /\ focus \notin Inside  -> focus
    /\ UNCHANGED <<kindVars, cameFrom, remembered, highlighted, picked, wandered>>

-------------------------------------------------------------------------------
(* The menu of a button.                                                       *)

\* The button opens and closes it.
ToggleMenu ==
    /\ overlay = "menu" /\ Press
    /\ shown' = ~shown /\ frame' = ~shown /\ focus' = Opener /\ wandered' = FALSE
    /\ UNCHANGED <<kindVars, cameFrom, remembered, highlighted, picked>>

\* Keys move the focus when it is in the menu: arrows and Tab in a circle, Home, End.
MenuKey ==
    /\ overlay = "menu" /\ shown /\ focus \in Inside /\ Press
    /\ focus' \in {Following(focus), Preceding(focus), FirstItem, LastItem}
    /\ UNCHANGED <<kindVars, cameFrom, shown, frame, remembered, highlighted, picked, wandered>>

\* Before the frame Tab leaves the button.
TabFromButton ==
    /\ overlay = "menu" /\ shown /\ focus \notin Inside /\ Press
    /\ focus' = Page /\ wandered' = TRUE
    /\ UNCHANGED <<kindVars, cameFrom, shown, frame, remembered, highlighted, picked>>

\* A click on the padding of the menu.
ClickInMenu ==
    /\ overlay = "menu" /\ shown /\ Press /\ focus' = Box
    /\ UNCHANGED <<kindVars, cameFrom, shown, frame, remembered, highlighted, picked, wandered>>

\* Escape gives the focus to the button; a click elsewhere to what is clicked.
LeaveMenu ==
    /\ overlay = "menu" /\ shown /\ Press
    /\ shown' = FALSE /\ frame' = FALSE /\ focus' \in Outside
    /\ UNCHANGED <<kindVars, cameFrom, remembered, highlighted, picked, wandered>>

\* An item that is not disabled is chosen, and the menu closed by the application; the
\* same field again sorts the other way, another one upwards.
SortBy(i) == [item |-> i, up |-> ~(picked.item = i /\ picked.up)]

ChooseItem(i) ==
    /\ overlay = "menu" /\ shown /\ i \in Enabled /\ Press
    /\ picked' = SortBy(i)
    /\ shown' = FALSE /\ frame' = FALSE /\ focus' = Body
    /\ UNCHANGED <<kindVars, cameFrom, remembered, highlighted, wandered>>

-------------------------------------------------------------------------------
(* The list of choices.                                                        *)

\* A key on its button opens it at its first item, and again when it is open.
TriggerKey ==
    /\ overlay = "select" /\ focus = Opener /\ Press
    /\ shown' = TRUE /\ highlighted' = 1
    /\ UNCHANGED <<kindVars, cameFrom, focus, frame, remembered, picked, wandered>>

\* A click on its button opens or closes it, and leaves the highlight.
TriggerClick ==
    /\ overlay = "select" /\ Press
    /\ shown' = ~shown /\ focus' = Opener
    /\ UNCHANGED <<kindVars, cameFrom, frame, remembered, highlighted, picked, wandered>>

\* Tab goes from the button to the first item, a click on a disabled one to it.
EnterList ==
    /\ overlay = "select" /\ shown /\ Press
    /\ focus' \in (IF focus = Opener THEN {1} ELSE {}) \cup barred
    /\ UNCHANGED <<kindVars, cameFrom, shown, frame, remembered, highlighted, picked, wandered>>

\* Keys of the list move the highlight among the items that can be chosen; they stop
\* at the ends.
ListDown ==
    LET later == {j \in Enabled : j > highlighted}
    IN  IF highlighted \in Enabled /\ later # {} THEN Min(later)
        ELSE IF highlighted \in Enabled THEN highlighted ELSE FirstItem

ListUp ==
    LET earlier == {j \in Enabled : j < highlighted}
    IN  IF highlighted \in Enabled /\ earlier # {} THEN Max(earlier) ELSE FirstItem

ListKey ==
    /\ overlay = "select" /\ shown /\ focus \in Inside /\ Press
    /\ highlighted' \in {ListDown, ListUp, FirstItem, LastItem}
    /\ UNCHANGED <<kindVars, cameFrom, shown, focus, frame, remembered, picked, wandered>>

\* The mouse highlights an item that can be chosen, and none when it leaves.
Hover ==
    /\ overlay = "select" /\ shown /\ Press
    /\ highlighted' \in Enabled \cup {0}
    /\ UNCHANGED <<kindVars, cameFrom, shown, focus, frame, remembered, picked, wandered>>

\* close(): no highlight, and the focus is on the button.
Closed == shown' = FALSE /\ highlighted' = 0 /\ focus' = Opener

\* Escape, in the list Tab as well. A click elsewhere takes the focus with it.
CloseList ==
    /\ overlay = "select" /\ shown /\ Press
    /\ \/ Closed
       \/ shown' = FALSE /\ highlighted' = 0 /\ focus' \in {Body, Page}
    /\ UNCHANGED <<kindVars, cameFrom, frame, remembered, picked, wandered>>

\* A click on an item, or Enter or space in the list for the one that is highlighted.
ChooseOption(i) ==
    /\ overlay = "select" /\ shown /\ i \in Enabled /\ Press
    /\ picked' = [picked EXCEPT !.item = i] /\ Closed
    /\ UNCHANGED <<kindVars, cameFrom, frame, remembered, wandered>>

EnterHighlighted ==
    /\ overlay = "select" /\ shown /\ focus \in Inside /\ Press
    /\ highlighted # 0 /\ highlighted \notin barred
    /\ picked' = [picked EXCEPT !.item = highlighted] /\ Closed
    /\ UNCHANGED <<kindVars, cameFrom, frame, remembered, wandered>>

\* What the button and the list show: the choice, its tick and the highlight.
ListShown ==
    [text |-> picked.item, open |-> shown,
     options |-> [i \in Elements |-> [ticked |-> i = picked.item, disabled |-> i \in barred,
                                   lit |-> i = highlighted /\ i \notin barred]]]

\* The items of the menu, with the arrow of the sorting.
MenuShown ==
    [i \in Elements |-> [disabled |-> i \in barred,
                      arrow |-> IF i # picked.item THEN "none"
                                ELSE IF picked.up THEN "up" ELSE "down"]]

OverlaysNext ==
    \/ ShowDialog \/ Frame \/ Rerender \/ TabInDialog \/ ClickInDialog \/ DismissDialog
    \/ ToggleMenu \/ MenuKey \/ TabFromButton \/ ClickInMenu \/ LeaveMenu
    \/ TriggerKey \/ TriggerClick \/ EnterList \/ ListKey \/ Hover \/ CloseList
    \/ EnterHighlighted
    \/ \E i \in Elements : ChooseItem(i) \/ ChooseOption(i)

-------------------------------------------------------------------------------
(* Properties.                                                                 *)

\* The types of the variables.
OverlaysTypeOK ==
    /\ {focus, remembered} \subseteq Inside \cup Outside /\ barred \subseteq Elements
    /\ {highlighted, picked.item, selfFocus} \subseteq Elements \cup {0}
    /\ cameFrom \in {Opener, Body} /\ presses \in 0 .. MaxPresses
    /\ {shown, frame, stableClose, wandered, picked.up} \subseteq BOOLEAN

\* The keyboard is where the user looks. When the frame of an open dialog or menu has
\* run, the focus is in it, on something that can be used, until it wanders: Tab before
\* the frame, or backwards from the box of a dialog. A dialog in which nothing takes
\* the focus by itself gives it back to what had it, however often it was rendered
\* with a new onClose in between; one in which something does leaves it nowhere.
FocusIsKept ==
    /\ overlay \in {"dialog", "menu"} /\ shown /\ ~frame /\ ~wandered =>
          focus \in Enabled \cup {Box}
    /\ overlay = "dialog" /\ ~shown /\ ~wandered /\ selfFocus = 0 => focus = cameFrom
    /\ overlay = "dialog" /\ ~shown /\ ~wandered /\ selfFocus # 0 /\ presses > 0 => focus = Body

\* No sequence of keys, clicks and moves of the mouse chooses an item that is disabled,
\* though the highlight may start on one; the one that is ticked is the one chosen.
NothingBarredChosen ==
    /\ picked.item \notin barred
    /\ \A i \in Elements :
          /\ ListShown.options[i].ticked => ~ListShown.options[i].disabled
          /\ MenuShown[i].arrow # "none" => ~MenuShown[i].disabled
===============================================================================
