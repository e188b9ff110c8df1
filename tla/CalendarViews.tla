----------------------------- MODULE CalendarViews -----------------------------
(* What the calendar application shows (apps/calendar): the date and the     *)
(* view mode of its store, the month grid, the week and the day, the small   *)
(* month of the sidebar, and which of the server's events these find, given  *)
(* that only a window around today is ever loaded.                           *)
(*                                                                           *)
(* Days are numbered from the first day of the first month of MonthLength;   *)
(* times are ticks, Ticks to a day. A date is a day: a JavaScript date set   *)
(* past the end of a month runs on into the next one, as days here do.       *)
EXTENDS Integers, FiniteSets, Sequences, SequencesExt

CONSTANTS
    MonthLength,   \* MonthLength[m]: days of month m
    FirstWeekday,  \* the weekday of day 0, Sunday being 0
    Todays,        \* days that may be today
    Ticks,         \* ticks of a day
    Calendars,     \* the user's calendars
    Stored         \* events on the server: [calendar, start, end, allDay]

ASSUME ViewsAssumption ==
    /\ MonthLength \in Seq(28 .. 31)
    /\ FirstWeekday \in 0 .. 6 /\ Ticks \in Nat \ {0}
    /\ \A e \in Stored : /\ e.calendar \in Calendars /\ e.allDay \in BOOLEAN
                          /\ e.start \in Nat /\ e.end \in Nat /\ e.start <= e.end

VARIABLES viewMode, currentDate, visible, today

viewVars == <<viewMode, currentDate, visible, today>>

Months == DOMAIN MonthLength

\* The first day of month m; FirstDay[Len(MonthLength) + 1] ends the range.
FirstDay[m \in 1 .. Len(MonthLength) + 1] ==
    IF m = 1 THEN 0 ELSE FirstDay[m - 1] + MonthLength[m - 1]

\* getMonth, getDate and getDay.
MonthOf(d) == CHOOSE m \in Months : FirstDay[m] <= d /\ d < FirstDay[m + 1]
DateOf(d)  == d - FirstDay[MonthOf(d)] + 1
Weekday(d) == (d + FirstWeekday) % 7

\* The months whose neighbours are in the range: dates stay in these (bound).
Inner == {d \in 0 .. FirstDay[Len(MonthLength) + 1] - 1 :
              MonthOf(d) \in 3 .. Len(MonthLength) - 2}

ASSUME TodaysAssumption == Todays \subseteq Inner

ViewsInit ==
    /\ viewMode = "month" /\ today \in Todays /\ currentDate = today
    /\ visible = Calendars

-------------------------------------------------------------------------------
(* The store, the header, the sidebar and the keys t, m, w, d and the arrows. *)

SetViewMode(m) ==
    /\ viewMode' = m
    /\ UNCHANGED <<currentDate, visible, today>>

Show(d) ==
    /\ d \in Inner
    /\ currentDate' = d
    /\ UNCHANGED <<viewMode, visible, today>>

GoToday == Show(today)

\* setMonth keeps the day of the month, beyond the end of a shorter month.
MonthMoved(d, n) == FirstDay[MonthOf(d) + n] + DateOf(d) - 1

\* Mutant: a month is taken for thirty days.
MovedByDays(d, n) ==
    CASE viewMode = "month" -> d + 30 * n
      [] viewMode = "week"  -> d + 7 * n
      [] viewMode = "day"   -> d + n

Moved(d, n) ==
    CASE viewMode = "month" -> MonthMoved(d, n)
      [] viewMode = "week"  -> d + 7 * n
      [] viewMode = "day"   -> d + n

GoPrev == Show(Moved(currentDate, -1))
GoNext == Show(Moved(currentDate, 1))

\* The arrows of the small month move by months in every view.
PrevMonth == Show(MonthMoved(currentDate, -1))
NextMonth == Show(MonthMoved(currentDate, 1))

ToggleCalendar(c) ==
    /\ visible' = IF c \in visible THEN visible \ {c} ELSE visible \cup {c}
    /\ UNCHANGED <<viewMode, currentDate, today>>

-------------------------------------------------------------------------------
(* The dates of the views.                                                   *)

Days(a, b) == [i \in 1 .. b - a + 1 |-> a + i - 1]

\* The weeks of the month of d: the last days of the month before, the month,
\* and days of the next month until the week is full.
MonthGrid(d) ==
    LET m     == MonthOf(d)
        opens == FirstDay[m]
        lead  == Weekday(opens)
        days  == lead + MonthLength[m]
        rows  == (days + 6) \div 7
    IN  [r \in 1 .. rows |-> Days(opens - lead + 7 * (r - 1),
                                  opens - lead + 7 * r - 1)]

WeekDates(d) == Days(d - Weekday(d), d - Weekday(d) + 6)

\* The small month: blanks (0) up to the first weekday, then the days.
MiniDays(d) ==
    [i \in 1 .. Weekday(FirstDay[MonthOf(d)]) |-> 0]
        \o Days(1, MonthLength[MonthOf(d)])

\* A click on a day of the small month.
PickDay(i) ==
    /\ i \in DOMAIN MiniDays(currentDate) /\ MiniDays(currentDate)[i] # 0
    /\ Show(FirstDay[MonthOf(currentDate)] + MiniDays(currentDate)[i] - 1)

-------------------------------------------------------------------------------
(* The events.                                                               *)

\* The window the application asks for: from the first day of last month to the
\* beginning of the last day of next month.
WindowStart == FirstDay[MonthOf(today) - 1] * Ticks
WindowEnd   == (FirstDay[MonthOf(today) + 2] - 1) * Ticks

Loaded == {e \in Stored : e.start < WindowEnd /\ e.end > WindowStart}

\* The events of a set that overlap day d, of calendars that are shown.
EventsForDay(events, d) ==
    {e \in events : /\ e.calendar \in visible
                    /\ e.start < (d + 1) * Ticks /\ e.end > d * Ticks}

MonthCell(d)  == EventsForDay(Loaded, d)

\* The week has no row for events that last all day; the day has one.
WeekColumn(d) == {e \in EventsForDay(Loaded, d) : ~e.allDay}
DayAllDay(d)  == {e \in EventsForDay(Loaded, d) : e.allDay}
DayColumn(d)  == {e \in EventsForDay(Loaded, d) : ~e.allDay}

\* The part of event e in the column of day d.
Clamped(e, d) ==
    [top    |-> (IF e.start < d * Ticks THEN d * Ticks ELSE e.start) - d * Ticks,
     bottom |-> (IF e.end > (d + 1) * Ticks THEN (d + 1) * Ticks ELSE e.end) - d * Ticks]

\* The days and the events on the screen.
ShownDays ==
    CASE viewMode = "month" -> UNION {ToSet(MonthGrid(currentDate)[r]) :
                                         r \in DOMAIN MonthGrid(currentDate)}
      [] viewMode = "week"  -> ToSet(WeekDates(currentDate))
      [] viewMode = "day"   -> {currentDate}

Shown(d) ==
    CASE viewMode = "month" -> MonthCell(d)
      [] viewMode = "week"  -> WeekColumn(d)
      [] viewMode = "day"   -> DayAllDay(d) \cup DayColumn(d)
-------------------------------------------------------------------------------
ViewsNext ==
    \/ \E m \in {"month", "week", "day"} : SetViewMode(m)
    \/ GoToday \/ GoPrev \/ GoNext \/ PrevMonth \/ NextMonth
    \/ \E c \in Calendars : ToggleCalendar(c)
    \/ \E i \in 1 .. 37 : PickDay(i)

-------------------------------------------------------------------------------
(* Properties.                                                               *)

\* The types of the variables.
ViewsTypeOK ==
    /\ viewMode \in {"month", "week", "day"} /\ visible \in SUBSET Calendars
    /\ today \in Todays /\ currentDate \in Inner \cup {today}

\* The grid is made of whole weeks that begin on Sunday, follow each other
\* without a gap, hold every day of the month once and no whole week without
\* one: for every first weekday and every length of the month.
GridWhole ==
    LET grid == MonthGrid(currentDate)
        m    == MonthOf(currentDate)
        all  == FlattenSeq(grid)
    IN  /\ \A r \in DOMAIN grid :
              /\ Len(grid[r]) = 7 /\ Weekday(grid[r][1]) = 0
              /\ \E i \in 1 .. 7 : MonthOf(grid[r][i]) = m
        /\ \A i \in 1 .. Len(all) - 1 : all[i + 1] = all[i] + 1
        /\ FirstDay[m] .. FirstDay[m + 1] - 1 \subseteq ToSet(all)

\* Today's month, week and day are complete although only a window is loaded:
\* every event of a visible calendar is on each day it touches, in full (all but
\* the all-day events of the week), though the grid reaches into the months
\* before and after.
TodayWhole ==
    MonthOf(currentDate) = MonthOf(today) =>
        \A d \in ShownDays :
            /\ Shown(d) = {e \in Stored : /\ e.calendar \in visible
                                          /\ e.start < (d + 1) * Ticks
                                          /\ e.end > d * Ticks
                                          /\ viewMode = "week" => ~e.allDay}
            /\ \A e \in Shown(d) : LET c == Clamped(e, d)
                                   IN  0 <= c.top /\ c.top <= c.bottom /\ c.bottom <= Ticks

\* What the views show is whole: the dates and the events.
ViewsWhole == GridWhole /\ TodayWhole

\* The arrows leave the screen they show: no day of the old date's day or week
\* is on the new screen of these modes, and the month changes by exactly one
\* unless the day of the month does not exist in it.
ArrowsTurnPages ==
    [][currentDate # currentDate' /\ (GoPrev \/ GoNext) =>
         CASE viewMode = "month" ->
                DateOf(currentDate) <= 28 =>
                    /\ MonthOf(currentDate') - MonthOf(currentDate) \in {-1, 1}
                    /\ DateOf(currentDate') = DateOf(currentDate)
           [] viewMode = "week" ->
                /\ ToSet(WeekDates(currentDate)) \cap ToSet(WeekDates(currentDate)') = {}
                /\ Weekday(currentDate') = Weekday(currentDate)
           [] OTHER -> currentDate' - currentDate \in {-1, 1}]_viewVars
===============================================================================
