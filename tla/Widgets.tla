-------------------------------- MODULE Widgets --------------------------------
(* Three parts of the UI library that keep a state of their own: the boxes of  *)
(* an authentication code (CodeInput), the message at the foot of the page      *)
(* (Toast) with the store that shows it, and the theme of the page             *)
(* (HaseenThemeProvider) with the pages that change it. One of them is used in *)
(* each behaviour.                                                             *)
EXTENDS Integers, FiniteSetsExt, SequencesExt

CONSTANTS
    CodeLength,     \* boxes of a code
    Digits,         \* characters that are accepted: numbers above 0
    MaxUses         \* bound: actions of the user, and changes around the page

ASSUME WidgetsAssumption ==
    CodeLength \in Nat \ {0} /\ Digits \subseteq Nat \ {0} /\ MaxUses \in Nat

VARIABLES
    widget,         \* "code", "toast" or "theme"
    boxes,          \* box -> its digit, or 0
    boxFocus,       \* the box that has the focus
    entered,        \* the code as the page knows it
    toast,          \* the store: [message, visible, countdown]
    toastShown,     \* the state of the Toast
    toastTimer,     \* its timer runs
    storedTheme,    \* local storage: a mode, or "none"
    themeMode,      \* the mode of the page
    theme, painted, \* the theme it stands for, and the one the page is painted in
    prefers,        \* what the system prefers
    started,        \* the effects of the page have run
    elsewhere,      \* another page has stored a mode since (history)
    uses

codeVars  == <<boxes, boxFocus, entered>>
toastVars == <<toast, toastShown, toastTimer>>
themeVars == <<storedTheme, themeMode, theme, painted, prefers, started, elsewhere>>

widgetVars == <<widget, boxes, boxFocus, entered, toast, toastShown, toastTimer,
                storedTheme, themeMode, theme, painted, prefers, started, elsewhere, uses>>

Themes == {"light", "dark"}
Modes  == Themes \cup {"system"}
BoxPlaces == 1 .. CodeLength
NoDigit == 0

WidgetsInit ==
    /\ widget \in {"code", "toast", "theme"} /\ uses = 0
    /\ boxes = [i \in BoxPlaces |-> NoDigit] /\ boxFocus = 1 /\ entered = <<>>
    /\ toast = [message |-> 0, visible |-> FALSE, countdown |-> 0]
    /\ toastShown = FALSE /\ toastTimer = FALSE
    /\ storedTheme = "none" /\ themeMode = "system" /\ theme = "dark" /\ painted = "none"
    /\ prefers \in Themes /\ (widget = "theme" \/ prefers = "dark")
    /\ started = FALSE /\ elsewhere = FALSE

Use(w) == widget = w /\ widget' = w /\ uses < MaxUses /\ uses' = uses + 1

-------------------------------------------------------------------------------
(* The boxes of a code.                                                        *)

\* What the boxes say, one after the other; empty ones are not seen.
Filled(b) == {i \in BoxPlaces : b[i] # NoDigit}

NthFilled(b, n) == CHOOSE i \in Filled(b) : Cardinality({j \in Filled(b) : j < i}) = n - 1

Joined(b) == [n \in 1 .. Cardinality(Filled(b)) |-> b[NthFilled(b, n)]]

\* A digit is typed into a box, or taken away. The next box gets the focus. The
\* library tells its page of the code, and never that it is complete.
HandleChange(i, d) ==
    /\ Use("code") /\ d \in Digits \cup {NoDigit} /\ d # boxes[i]
    /\ boxes' = [boxes EXCEPT ![i] = d]
    /\ entered' = Joined(boxes')
    /\ boxFocus' = IF d # NoDigit /\ i < CodeLength THEN i + 1 ELSE i
    /\ UNCHANGED <<toastVars, themeVars>>

\* Backspace in an empty box, or a click on a box.
HandleKeyDown ==
    /\ Use("code") /\ boxes[boxFocus] = NoDigit /\ boxFocus > 1
    /\ boxFocus' = boxFocus - 1
    /\ UNCHANGED <<boxes, entered, toastVars, themeVars>>

ClickBox(i) ==
    /\ Use("code") /\ boxFocus' = i
    /\ UNCHANGED <<boxes, entered, toastVars, themeVars>>

\* A text that is pasted fills the boxes from the first on, whichever has the focus;
\* where it has no digit the box keeps what it had. The first empty box gets the focus.
HandlePaste(text) ==
    /\ Use("code")
    /\ boxes' = [i \in BoxPlaces |-> IF i <= Len(text) /\ text[i] \in Digits THEN text[i]
                                  ELSE boxes[i]]
    /\ entered' = Joined(boxes')
    /\ boxFocus' = LET empty == {i \in BoxPlaces : boxes'[i] = NoDigit}
                   IN  IF empty # {} THEN Min(empty) ELSE CodeLength
    /\ UNCHANGED <<toastVars, themeVars>>

\* The button that enables the second factor.
CanVerify == Len(entered) = CodeLength

-------------------------------------------------------------------------------
(* The message.                                                                *)

\* The effect of the Toast runs when one of these two changes: what it shows is what
\* the store says, and a timer starts for a message without a countdown.
Lasting(t) == t.countdown > 0

ToastEffect ==
    IF toast'.visible = toast.visible /\ Lasting(toast') = Lasting(toast)
    THEN UNCHANGED <<toastShown, toastTimer>>
    ELSE toastShown' = toast'.visible /\ toastTimer' = (toast'.visible /\ ~Lasting(toast'))

\* Messages are numbered; one with a countdown has seconds left.
ShowMessage(seconds) ==
    /\ Use("toast")
    /\ toast' = [message |-> toast.message + 1, visible |-> TRUE, countdown |-> seconds]
    /\ ToastEffect
    /\ UNCHANGED <<codeVars, themeVars>>

\* A second of the countdown is over. Mail counts for its own messages; those of the
\* accounts application that have a countdown are counted by nobody.
CountDown ==
    /\ Use("toast") /\ toast.countdown > 0
    /\ toast' = [toast EXCEPT !.countdown = @ - 1]
    /\ ToastEffect
    /\ UNCHANGED <<codeVars, themeVars>>

HideMessage ==
    /\ Use("toast") /\ toast.visible
    /\ toast' = [toast EXCEPT !.visible = FALSE, !.countdown = 0]
    /\ ToastEffect
    /\ UNCHANGED <<codeVars, themeVars>>

\* The timer: the Toast goes, and hides its message in the store. It is the message of
\* the store then, shown later than the one the timer was started for.
ToastTimerFires ==
    /\ toastTimer /\ toastTimer' = FALSE
    /\ toastShown' = FALSE
    /\ toast' = [toast EXCEPT !.visible = FALSE, !.countdown = 0]
    /\ UNCHANGED <<widget, uses, codeVars, themeVars>>

ToastText == IF toastShown THEN toast.message ELSE 0

-------------------------------------------------------------------------------
(* The theme.                                                                  *)

Resolved(mode) == IF mode = "system" THEN prefers ELSE mode

\* resolveAndApply
Apply(mode) == themeMode' = mode /\ theme' = Resolved(mode) /\ painted' = Resolved(mode)

\* The page is opened; its effects run after it is shown, in the dark theme.
OpenPage ==
    /\ Use("theme") /\ started
    /\ themeMode' = "system" /\ theme' = "dark" /\ painted' = "none"
    /\ started' = FALSE /\ elsewhere' = FALSE
    /\ UNCHANGED <<codeVars, toastVars, storedTheme, prefers>>

StartPage ==
    /\ widget = "theme" /\ ~started /\ started' = TRUE
    /\ Apply(IF storedTheme = "none" THEN "system" ELSE storedTheme)
    /\ UNCHANGED <<widget, uses, codeVars, toastVars, storedTheme, prefers, elsewhere>>

\* A mode is chosen: it is stored, and used at once.
SetStoredTheme(mode) ==
    /\ Use("theme") /\ started
    /\ storedTheme' = mode /\ elsewhere' = FALSE /\ Apply(mode)
    /\ UNCHANGED <<codeVars, toastVars, prefers, started>>

\* One of the settings is clicked, or the button of the rail, which offers the other
\* theme.
ChooseTheme == \E mode \in Modes : SetStoredTheme(mode)

ToggleTheme == SetStoredTheme(IF theme = "dark" THEN "light" ELSE "dark")

\* The system changes its mind: the page listens while its mode is that of the system.
SystemChanges ==
    /\ Use("theme") /\ started
    /\ prefers' \in Themes \ {prefers}
    /\ IF themeMode = "system"
       THEN theme' = prefers' /\ painted' = prefers'
       ELSE UNCHANGED <<theme, painted>>
    /\ UNCHANGED <<codeVars, toastVars, storedTheme, themeMode, started, elsewhere>>

\* A page of another application stores a mode; this page does not notice.
ChosenElsewhere(mode) ==
    /\ Use("theme") /\ started
    /\ storedTheme' = mode /\ elsewhere' = TRUE
    /\ UNCHANGED <<codeVars, toastVars, themeMode, theme, painted, prefers, started>>

\* The mode that the settings mark compares the theme, so that of the system never is.
ModesMarked == {mode \in Modes : mode = theme}

WidgetsNext ==
    \/ \E i \in BoxPlaces : ClickBox(i) \/ \E d \in Digits \cup {NoDigit} : HandleChange(i, d)
    \/ HandleKeyDown
    \/ \E text \in SeqOf(Digits \cup {NoDigit}, CodeLength) : HandlePaste(text)
    \/ \E seconds \in 0 .. 2 : ShowMessage(seconds)
    \/ CountDown \/ HideMessage \/ ToastTimerFires
    \/ OpenPage \/ StartPage \/ ChooseTheme \/ ToggleTheme \/ SystemChanges
    \/ \E mode \in Modes : ChosenElsewhere(mode)

-------------------------------------------------------------------------------
(* Properties.                                                                 *)

\* The types of the variables.
WidgetsTypeOK ==
    /\ boxes \in [BoxPlaces -> Digits \cup {NoDigit}] /\ boxFocus \in BoxPlaces
    /\ Len(entered) <= CodeLength
    /\ toast.message \in 0 .. MaxUses /\ toast.countdown \in 0 .. 2
    /\ storedTheme \in Modes \cup {"none"} /\ themeMode \in Modes
    /\ {theme, prefers} \subseteq Themes /\ painted \in Themes \cup {"none"}
    /\ {toast.visible, toastShown, toastTimer, started, elsewhere} \subseteq BOOLEAN
    /\ uses \in 0 .. MaxUses

\* The page can verify a code only when every box is filled, and verifies what the
\* boxes show, whatever was typed, deleted and pasted over it.
CodeIsShown == CanVerify => entered = [i \in BoxPlaces |-> boxes[i]] /\ NoDigit \notin ToSet(entered)

\* A message of the store is on the page, and its timer runs until it goes, unless it
\* has a countdown, which is left to who showed it. A message that replaces another
\* keeps the timer of that one.
MessageGoes ==
    /\ toastShown = toast.visible
    /\ toastShown => toastTimer \/ Lasting(toast)
    /\ toastTimer => toastShown /\ ToastText = toast.message

\* The page is painted in the theme it says, which is the stored mode's or follows the
\* system's, through changes of the system, choices and reloads, as long as no other
\* page stores another mode.
ThemeIsStored ==
    started =>
        /\ painted = theme /\ theme = Resolved(themeMode) /\ ModesMarked = {painted}
        /\ elsewhere \/ storedTheme = themeMode \/ (storedTheme = "none" /\ themeMode = "system")
===============================================================================
