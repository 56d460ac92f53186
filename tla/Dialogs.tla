------------------------------ MODULE Dialogs ------------------------------
(***************************************************************************)
(* The dialogs of "make menuconfig" (scripts/kconfig/lxdialog): the menu   *)
(* (menubox.c), the list of a choice (checklist.c) and the input line      *)
(* (inputbox.c).  Each keeps what is on the screen by changing only the    *)
(* rows or cells that a key makes different.  Colours, frames and buttons  *)
(* are left out.                                                           *)
(***************************************************************************)
EXTENDS Jobs, Integers, Sequences, FiniteSetsExt

CONSTANTS
    HotKeys,    \* the first letter of each item
    MAX_LEN     \* 2048: of the text that is entered

\* Items are numbered from 0 (item_set, item_n).
Letter(item) == HotKeys[item + 1]

\* A row shows an item, highlighted or not.
Row(item, hl) == [item |-> item, hl |-> hl]
NoRow == Row(-1, FALSE)
PrintItem(d, item, row, hl) == [d EXCEPT !.screen[row] = Row(item, hl)]
MaxChoice(d) == Min({d.rows, d.n})

\* wscrl: the contents of the window move up by k rows.
Wscrl(d, k) ==
    [d EXCEPT !.screen = [r \in DOMAIN @ |-> IF r + k \in DOMAIN @ THEN @[r + k] ELSE NoRow]]
do_scroll(d, k) == [Wscrl(d, k) EXCEPT !.scroll = @ + k]

print_arrows(d) ==
    [d EXCEPT !.up = d.scroll > 0, !.down = d.rows < d.n /\ d.scroll + d.rows < d.n]

\* The items from first on, the chosen one highlighted.
PrintAll(d, first) ==
    [d EXCEPT !.screen = [r \in 0..(d.rows - 1) |->
        IF r < MaxChoice(d) THEN Row(first + r, r = d.choice) ELSE NoRow]]

-----------------------------------------------------------------------------
(* dialog_menu *)

\* n items in a window of rows rows; selected: the item to begin with or -1;
\* s_scroll: where the menu was scrolled to when it was left.
Menu0(n, rows, selected, s_scroll) ==
    [alg |-> "menubox", n |-> n, rows |-> rows, selected |-> selected, s_scroll |-> s_scroll,
     choice |-> 0, scroll |-> 0, first_item |-> 0, screen |-> <<>>, up |-> FALSE, down |-> FALSE,
     button |-> 0, ret |-> -2, active |-> -1]

\* Mutated: the saved place is not checked against the box.
MenuOpenTrusting(d) ==
    LET max == MaxChoice(d)
        c0 == IF d.selected \in 0..(d.n - 1) THEN d.selected ELSE d.choice
        kept == d.s_scroll <= c0 /\ d.s_scroll + max > c0
        scroll == IF kept THEN d.s_scroll ELSE 0
    IN  print_arrows(PrintAll([d EXCEPT !.scroll = scroll, !.choice = c0 - scroll, !.first_item = scroll], scroll))

\* do_resize: the place that was saved is kept if it still fits, otherwise the
\* item is brought to the middle.
MenuOpen(d) ==
    LET max == MaxChoice(d)
        c0 == IF d.selected \in 0..(d.n - 1) THEN d.selected ELSE d.choice
        kept == /\ d.s_scroll <= c0 /\ d.s_scroll + max > c0
                /\ d.s_scroll >= 0 /\ d.s_scroll + max <= d.n
        far == ~kept /\ c0 >= max
        scroll == IF kept THEN d.s_scroll
                  ELSE IF ~far THEN 0
                  ELSE IF c0 >= d.n - (max \div 2) THEN d.n - max ELSE c0 - (max \div 2)
        first == IF kept \/ far THEN scroll ELSE d.first_item
    IN  print_arrows(PrintAll([d EXCEPT !.scroll = scroll, !.choice = c0 - scroll, !.first_item = first], first))

\* The next visible item with this letter after the chosen one, or the first.
HotItem(d, key) ==
    LET hits == {i \in 0..(MaxChoice(d) - 1) : Letter(d.scroll + i) = key}
        later == {i \in hits : i > d.choice}
    IN  IF later # {} THEN Min(later) ELSE Min(hits)
IsHot(d, key) ==
    key \notin {"y", "n", "m", "h"} /\ \E i \in 0..(MaxChoice(d) - 1) : Letter(d.scroll + i) = key

UpOne(d) == LET e == do_scroll(d, -1) IN PrintItem(e, e.scroll, 0, FALSE)
DownOne(d) ==
    LET e == do_scroll(d, 1) IN PrintItem(e, e.scroll + MaxChoice(d) - 1, MaxChoice(d) - 1, FALSE)
More(d) == d.scroll + MaxChoice(d) < d.n

MenuUp(d) ==
    IF d.choice < 2 /\ d.scroll > 0 THEN UpOne(d) ELSE [d EXCEPT !.choice = Max({@ - 1, 0})]
MenuDown(d) ==
    IF d.choice > MaxChoice(d) - 3 /\ More(d) THEN DownOne(d)
    ELSE [d EXCEPT !.choice = Min({@ + 1, MaxChoice(d) - 1})]

\* k steps of a page: scroll while there is more, then move.
RECURSIVE PageUp(_, _)
PageUp(d, k) ==
    IF k = 0 THEN d
    ELSE PageUp(IF d.scroll > 0 THEN UpOne(d) ELSE [d EXCEPT !.choice = Max({@ - 1, 0})], k - 1)
RECURSIVE PageDown(_, _)
PageDown(d, k) ==
    IF k = 0 THEN d
    ELSE PageDown(IF More(d) THEN DownOne(d) ELSE [d EXCEPT !.choice = Min({@ + 1, MaxChoice(d) - 1})], k - 1)

MenuMove(d, key) ==
    LET off == PrintItem(d, d.scroll + d.choice, d.choice, FALSE)
        e == CASE key \in {"up", "-"} -> MenuUp(off)
               [] key \in {"down", "+"} -> MenuDown(off)
               [] key = "ppage" -> PageUp(off, MaxChoice(d))
               [] key = "npage" -> PageDown(off, MaxChoice(d))
               [] OTHER -> [off EXCEPT !.choice = HotItem(d, key)]
    IN  print_arrows(PrintItem(e, e.scroll + e.choice, e.choice, TRUE))

\* What is returned: the button for enter and help, a number for a command.
MenuCommands == {"s", "y", "n", "m", " ", "/"}
MenuCode(key) == IF key \in {"s", "y"} THEN 3 ELSE IF key = "n" THEN 4 ELSE IF key = "m" THEN 5
                 ELSE IF key = " " THEN 6 ELSE 7
KEY_ESC == 27
MenuLeave(d, ret) == [d EXCEPT !.ret = ret, !.s_scroll = d.scroll, !.active = d.scroll + d.choice]

MenuKey(d, key) ==
    IF key \in {"up", "down", "-", "+", "ppage", "npage"} \/ IsHot(d, key) THEN MenuMove(d, key)
    ELSE IF key = "left" THEN [d EXCEPT !.button = IF @ = 0 THEN 2 ELSE @ - 1]
    ELSE IF key \in {"right", "tab"} THEN [d EXCEPT !.button = IF @ = 2 THEN 0 ELSE @ + 1]
    ELSE IF key \in MenuCommands THEN MenuLeave(d, MenuCode(key))
    ELSE IF key \in {"h", "?"} THEN MenuLeave(d, 2)
    ELSE IF key = "enter" THEN MenuLeave(d, d.button)
    ELSE IF key \in {"e", "x"} THEN [d EXCEPT !.ret = KEY_ESC]
    ELSE d

-----------------------------------------------------------------------------
(* dialog_checklist *)

\* tagged: the item marked X; selected: the one chosen before, or -1.
List0(n, rows, tagged, selected) ==
    [alg |-> "checklist", n |-> n, rows |-> rows, scroll |-> 0, screen |-> <<>>, button |-> 0,
     choice |-> IF selected # -1 THEN selected ELSE tagged, ret |-> -2, active |-> -1]

ListOpen(d) ==
    LET scroll == IF d.choice >= d.rows THEN d.choice - d.rows + 1 ELSE d.scroll
        choice == IF d.choice >= d.rows THEN d.choice - scroll ELSE d.choice
    IN  PrintAll([d EXCEPT !.scroll = scroll, !.choice = choice], scroll)

\* The window is scrolled only if it has more than one row.
ListScroll(d, row, k) ==
    LET off == PrintItem(d, d.scroll + row, row, FALSE)
        e == [(IF d.rows > 1 THEN Wscrl(off, k) ELSE d) EXCEPT !.scroll = @ + k]
    IN  PrintItem(e, e.scroll + row, row, TRUE)

ListTo(d, i) ==
    IF i = d.choice THEN d
    ELSE PrintItem([PrintItem(d, d.scroll + d.choice, d.choice, FALSE) EXCEPT !.choice = i], d.scroll + i, i, TRUE)

ListUp(d) ==
    IF d.choice > 0 THEN ListTo(d, d.choice - 1) ELSE IF d.scroll = 0 THEN d ELSE ListScroll(d, 0, -1)
ListDown(d) ==
    IF d.choice # MaxChoice(d) - 1 THEN ListTo(d, d.choice + 1)
    ELSE IF d.scroll + d.choice >= d.n - 1 THEN d ELSE ListScroll(d, MaxChoice(d) - 1, 1)

ListHits(d, key) == {i \in 0..(MaxChoice(d) - 1) : Letter(d.scroll + i) = key}
ListLeave(d, ret) == [d EXCEPT !.ret = ret, !.active = d.scroll + d.choice]

ListKey(d, key) ==
    IF key \in {"up", "-"} THEN ListUp(d)
    ELSE IF key \in {"down", "+"} THEN ListDown(d)
    ELSE IF ListHits(d, key) # {} THEN ListTo(d, Min(ListHits(d, key)))
    ELSE IF key \in {"h", "?"} THEN ListLeave(d, 1)
    ELSE IF key \in {"s", " ", "enter"} THEN ListLeave(d, d.button)
    ELSE IF key \in {"tab", "left", "right"} THEN [d EXCEPT !.button = 1 - @]
    ELSE IF key = "x" THEN [d EXCEPT !.ret = KEY_ESC]
    ELSE d

-----------------------------------------------------------------------------
(* dialog_inputbox *)

\* instr is a text ended by NUL, cells what is shown of it (NUL: a blank);
\* button -1: the line itself.
NUL == ""
Input0(instr, width) ==
    [alg |-> "inputbox", width |-> width, instr |-> instr, input_x |-> 0, scroll |-> 0,
     cells |-> [i \in 0..(width - 1) |-> NUL], button |-> -1, ret |-> -2]
strlen(instr) == Min({i \in DOMAIN instr : instr[i] = NUL})

InputOpen(d) ==
    LET len == strlen(d.instr)
        long == len >= d.width
        scroll == IF long THEN len - d.width + 1 ELSE d.scroll
    IN  [d EXCEPT !.scroll = scroll, !.input_x = IF long THEN d.width - 1 ELSE len,
                  !.cells = [i \in DOMAIN @ |->
                      IF long THEN (IF i < d.width - 1 THEN d.instr[scroll + i] ELSE NUL)
                      ELSE IF i < len THEN d.instr[i] ELSE NUL]]

\* At the left end of the box the text is first moved to the right.
BackWindow(d) ==
    LET scroll == IF d.scroll < d.width - 1 THEN 0 ELSE d.scroll - (d.width - 1)
    IN  [d EXCEPT !.scroll = scroll, !.cells = [i \in DOMAIN @ |-> d.instr[scroll + i]],
                  !.input_x = strlen(d.instr) - scroll]
Backspace(d) ==
    IF d.input_x = 0 /\ d.scroll = 0 THEN d
    ELSE LET e == IF d.input_x = 0 THEN BackWindow(d) ELSE [d EXCEPT !.input_x = @ - 1]
         IN  [e EXCEPT !.instr[e.scroll + e.input_x] = NUL, !.cells[e.input_x] = NUL]

TypeChar(d, c) ==
    LET at == d.scroll + d.input_x
        e == [d EXCEPT !.instr[at] = c, !.instr[at + 1] = NUL]
    IN  IF at >= MAX_LEN THEN d
        ELSE IF d.input_x = d.width - 1
        THEN [e EXCEPT !.scroll = @ + 1,
                       !.cells = [i \in DOMAIN @ |-> IF i < d.width - 1 THEN e.instr[d.scroll + 1 + i] ELSE @[i]]]
        ELSE [e EXCEPT !.cells[d.input_x] = c, !.input_x = @ + 1]

\* The line, OK and Help in a circle.
ButtonLeft(b) == IF b = -1 THEN 1 ELSE b - 1
ButtonRight(b) == IF b = 1 THEN -1 ELSE b + 1

InputKey(d, key) ==
    IF d.button = -1 /\ key = "backspace" THEN Backspace(d)
    ELSE IF d.button = -1 /\ key \in {"left", "right"} THEN d
    ELSE IF d.button = -1 /\ key \in {"p", "q"} THEN TypeChar(d, key)
    ELSE IF key \in {"up", "left"} THEN [d EXCEPT !.button = ButtonLeft(@)]
    ELSE IF key \in {"tab", "down", "right"} THEN [d EXCEPT !.button = ButtonRight(@)]
    ELSE IF key = "enter" THEN [d EXCEPT !.ret = IF d.button = -1 THEN 0 ELSE d.button]
    ELSE IF key = "x" THEN [d EXCEPT !.ret = KEY_ESC]
    ELSE d
-----------------------------------------------------------------------------
(* The dialogs used key by key.                                            *)

CONSTANTS
    MaxRows,     \* bound: rows of a window
    BoxWidths    \* widths of the input line

Items == Len(HotKeys)
IsOpen(d) == d.ret = -2

OpenMenu ==
    \E n \in 1..Items, rows \in 1..MaxRows, s_scroll \in 0..Items : \E selected \in -1..(n - 1) :
        Start(MenuOpen(Menu0(n, rows, selected, s_scroll)))
OpenList ==
    \E n \in 1..Items, rows \in 1..MaxRows : \E tagged \in 0..(n - 1), selected \in -1..(n - 1) :
        Start(ListOpen(List0(n, rows, tagged, selected)))
Text(len) == [i \in 0..(MAX_LEN + 1) |-> IF i < len THEN <<"p", "q">>[(i % 2) + 1] ELSE NUL]
OpenInput == \E len \in 0..MAX_LEN, width \in BoxWidths : Start(InputOpen(Input0(Text(len), width)))

DialogJobs == OpenMenu \/ OpenList \/ OpenInput

MenuKeys == {"up", "down", "ppage", "npage", "left", "right", "enter", "h", "x", "y", " ", "/"}
            \cup {HotKeys[i] : i \in DOMAIN HotKeys}
PressMenu == job.alg = "menubox" /\ IsOpen(job) /\ \E key \in MenuKeys : job' = MenuKey(job, key)
PressList == job.alg = "checklist" /\ IsOpen(job) /\ \E key \in MenuKeys : job' = ListKey(job, key)
PressInput ==
    /\ job.alg = "inputbox" /\ IsOpen(job)
    /\ \E key \in {"backspace", "p", "q", "left", "tab", "up", "enter", "x"} : job' = InputKey(job, key)

\* The terminal gets another size.  The two places where a resize leaves a
\* dialog inconsistent are left out (see the README): first_item and scroll are
\* not reset.
ResizeMenu ==
    /\ job.alg = "menubox" /\ IsOpen(job) /\ job.first_item = 0
    /\ \E rows \in 1..MaxRows : job' = MenuOpen([job EXCEPT !.rows = rows])
ResizeList == job.alg = "checklist" /\ IsOpen(job) /\ job' = ListOpen(job)
ResizeInput ==
    /\ job.alg = "inputbox" /\ IsOpen(job)
    /\ job.scroll > 0 => strlen(job.instr) >= job.width
    /\ job' = InputOpen(job)

\* The menu is shown again at the item it was left at; meanwhile some items may
\* have come or gone.
Reopen ==
    /\ job.alg = "menubox" /\ job.active >= 0
    /\ \E n \in 1..Items :
         job' = MenuOpen(Menu0(n, job.rows, IF job.active < n THEN job.active ELSE -1, job.s_scroll))

UseDialog ==
    PressMenu \/ PressList \/ PressInput
    \/ ResizeMenu \/ ResizeList \/ ResizeInput \/ Reopen

-----------------------------------------------------------------------------
\* The rows show consecutive items from scroll on, one of them highlighted.
Shows(d) ==
    /\ d.choice \in 0..(MaxChoice(d) - 1) /\ d.scroll >= 0 /\ d.scroll + MaxChoice(d) <= d.n
    /\ \A r \in 0..(MaxChoice(d) - 1) : d.screen[r] = Row(d.scroll + r, r = d.choice)

(***************************************************************************)
(* Whatever keys were pressed, whatever place was saved for another menu   *)
(* and however the number of items changed, the menu shows consecutive     *)
(* items with only the chosen one highlighted, arrows exactly where there  *)
(* is more, and the item it returns is the highlighted one.                *)
(***************************************************************************)
MenuShown ==
    job.alg = "menubox" =>
        /\ Shows(job)
        /\ job.up = (job.scroll > 0) /\ job.down = (job.scroll + MaxChoice(job) < job.n)
        /\ job.active >= 0 => job.screen[job.active - job.scroll] = Row(job.active, TRUE)

(***************************************************************************)
(* A menu that is left and shown again with the same items looks as it was *)
(* left.                                                                   *)
(***************************************************************************)
MenuComesBack ==
    (job.alg = "menubox" /\ job.active >= 0) =>
        LET again == MenuOpen(Menu0(job.n, job.rows, job.active, job.s_scroll))
        IN  again.screen = job.screen

(***************************************************************************)
(* The list of a choice likewise shows consecutive items, only the chosen  *)
(* one highlighted, when it scrolls by a row at either end too, and the    *)
(* item that is marked is the highlighted one.                             *)
(***************************************************************************)
ListShown ==
    job.alg = "checklist" =>
        /\ Shows(job)
        /\ job.active >= 0 => job.screen[job.active - job.scroll] = Row(job.active, TRUE)

(***************************************************************************)
(* The input line shows the end of the text, or a part before the cursor,  *)
(* and nothing else; the cursor is always behind the last character, so    *)
(* that a key is added to the text and backspace takes its end.            *)
(***************************************************************************)
InputShown ==
    job.alg = "inputbox" =>
        LET len == strlen(job.instr)
        IN  /\ job.scroll + job.input_x = len /\ job.input_x \in 0..(job.width - 1)
            /\ \A i \in 0..(job.width - 1) :
                 job.cells[i] = IF job.scroll + i < len THEN job.instr[job.scroll + i] ELSE NUL
=============================================================================
