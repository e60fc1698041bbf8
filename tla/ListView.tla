------------------------------ MODULE ListView ------------------------------
(***************************************************************************)
(* The list a user picks servers from (list/event.go, list/list.go,        *)
(* list/draw.go, list/conf.go): an incremental search over the rows, a     *)
(* cursor, and the names that were selected so far.                        *)
(*                                                                         *)
(* Rows are numbered in the order of DataText; 0 stands for the header.    *)
(* ViewText is the header and the rows of view, in order.  A panic of the  *)
(* code (an index or a slice out of range) is the status "crashed".        *)
(***************************************************************************)
EXTENDS Integers, Sequences, FiniteSets, SequencesExt, Order

CONSTANTS
  N,           \* number of rows
  Letters,     \* the runes a user types, blanks apart
  Text,        \* the text of each row
  Height,      \* rows of a page: the terminal's height without the two head lines
  Clicks,      \* the screen lines the mouse clicks on
  MaxKeyword   \* bound on the length of the keyword

Rows == 1..N
Header == 0
Blank == " "

ASSUME ListAssumption ==
  /\ N \in Nat
  /\ Blank \notin Letters
  /\ Text \in [Rows -> Seq(Letters)]
  /\ Height \in Nat \ {0}
  /\ Clicks \subseteq Nat
  /\ MaxKeyword \in Nat

VARIABLES
  keyword,   \* Keyword
  view,      \* the rows in ViewText
  cursor,    \* CursorLine
  selected,  \* SelectName
  allFlag,   \* whether the next Ctrl-A deselects
  multiFlag, \* MultiFlag: whether several rows can be selected
  status,    \* "open", "quit", "none" (no server selected), "chosen" or "crashed"
  headed     \* history: a click on a head line put the cursor above the first row,
             \* and no key or click has brought it back since

vars == <<keyword, view, cursor, selected, allFlag, multiFlag, status, headed>>

-----------------------------------------------------------------------------
(* getFilterText: every word of the keyword occurs in the row. *)

(* The runes i to j of k are one of strings.Fields(k). *)
Word(k, i, j) ==
  /\ i <= j
  /\ \A m \in i..j : k[m] # Blank
  /\ i > 1 => k[i - 1] = Blank
  /\ j < Len(k) => k[j + 1] = Blank

(* They occur in the text. *)
Occurs(k, i, j, text) ==
  \E d \in 0..(Len(text) - (j - i + 1)) : \A m \in i..j : text[d + 1 + m - i] = k[m]

WholeKeyword(k) ==  \* deviation: the keyword is not split into words
  {r \in Rows : k # <<>> => Occurs(k, 1, Len(k), Text[r])}
WithHeader(k) ==  \* deviation: the header is taken for a row
  {Header} \cup {r \in Rows : \A i, j \in DOMAIN k : Word(k, i, j) => Occurs(k, i, j, Text[r])}
getFilterText(k) ==
  {r \in Rows : \A i, j \in DOMAIN k : Word(k, i, j) => Occurs(k, i, j, Text[r])}

-----------------------------------------------------------------------------
(* ViewText of a set of rows, and what can be read from it. *)

len(v) == Cardinality(v) + 1

InRange(v, i) == 0 <= i /\ i < len(v)

ViewText(v, i) ==
  IF i = 0 THEN Header ELSE Nth(v, i)

(* Division truncates towards zero. *)
Quotient(a, b) == IF a >= 0 THEN a \div b ELSE -((-a) \div b)
PageStart(c) == Quotient(c, Height) * Height

(* draw takes ViewText[firstLine:] or ViewText[firstLine:lastLine]. *)
firstLine(c) == PageStart(c) + 1
Drawable(v, c) == 0 <= firstLine(c) /\ firstLine(c) <= len(v)

draw(v, c) == status' = IF Drawable(v, c) THEN status ELSE "crashed"

-----------------------------------------------------------------------------
(* The selection without some rows. *)
Without(sel, rows) ==
  LET kept == InOrder({i \in DOMAIN sel : sel[i] \notin rows})
  IN  [i \in DOMAIN kept |-> sel[kept[i]]]

(* toggle removes the name, or appends it. *)
AlwaysAppend(sel, r) == Append(sel, r)  \* deviation: a selected name is added again
toggle(sel, r) ==
  IF r \in ToSet(sel) THEN Without(sel, {r}) ELSE Append(sel, r)

(* allToggle, for the rows of v: their toggles one by one. *)
EveryRow(sel, v, all) ==  \* deviation: all the rows there are
  IF all THEN <<>> ELSE sel \o InOrder(Rows \ ToSet(sel))
allToggle(sel, v, all) ==
  (IF all THEN Without(sel, v) ELSE sel) \o InOrder(v \ ToSet(sel))

-----------------------------------------------------------------------------
Init ==
  /\ keyword = <<>>
  /\ view = getFilterText(<<>>)
  /\ cursor = 0
  /\ selected = <<>>
  /\ allFlag = FALSE
  /\ multiFlag \in BOOLEAN
  /\ status = "open"
  /\ headed = FALSE

MoveTo(c) ==
  /\ cursor' = c
  /\ draw(view, c)
  /\ UNCHANGED <<keyword, view, selected, allFlag, multiFlag>>

ArrowUp ==
  /\ status = "open"
  /\ MoveTo(IF cursor > 0 THEN cursor - 1 ELSE len(view) - 2)

ArrowDown ==
  /\ status = "open"
  /\ MoveTo(IF cursor < len(view) - 2 THEN cursor + 1 ELSE 0)

(* The first row of the next page, if there is one. *)
FitsLoosely(p) == p <= len(view)  \* deviation: the head lines are not counted
Fits(p) == p + 2 <= len(view)

ArrowRight ==
  /\ status = "open"
  /\ LET nextPosition == PageStart(cursor + Height)
     IN  MoveTo(IF Fits(nextPosition) THEN nextPosition ELSE cursor)

ArrowLeft ==
  /\ status = "open"
  /\ LET beforePosition == PageStart(cursor - Height)
     IN  MoveTo(IF beforePosition >= 0 THEN beforePosition ELSE cursor)

Mouse(y) ==
  /\ status = "open"
  /\ MoveTo(IF y - 2 <= len(view) - 2 THEN y - 2 ELSE cursor)

(* Tab toggles the row at the cursor and goes to the next one. *)
ToggleAlways == TRUE  \* deviation: also in a list for a single server
Toggles == multiFlag

Tab ==
  /\ status = "open"
  /\ IF Toggles /\ ~InRange(view, cursor + 1)
     THEN status' = "crashed" /\ UNCHANGED <<cursor, selected>>
     ELSE /\ selected' = IF Toggles THEN toggle(selected, ViewText(view, cursor + 1)) ELSE selected
          /\ cursor' = IF cursor < len(view) - 2 THEN cursor + 1 ELSE cursor
          /\ draw(view, cursor')
  /\ UNCHANGED <<keyword, view, allFlag, multiFlag>>

CtrlA ==
  /\ status = "open"
  /\ multiFlag
  /\ selected' = allToggle(selected, view, allFlag)
  /\ allFlag' = ~allFlag
  /\ draw(view, cursor)
  /\ UNCHANGED <<keyword, view, cursor, multiFlag>>

(* Enter takes the row at the cursor if none was selected; the caller      *)
(* (ShowServersView) gives up when the first name is the header's.         *)
Enter ==
  /\ status = "open"
  /\ IF selected = <<>> /\ ~InRange(view, cursor + 1)
     THEN status' = "crashed" /\ UNCHANGED selected
     ELSE /\ selected' = IF selected = <<>> THEN <<ViewText(view, cursor + 1)>> ELSE selected
          /\ status' = IF Head(selected') = Header THEN "none" ELSE "chosen"
  /\ UNCHANGED <<keyword, view, cursor, allFlag, multiFlag>>

Backspace ==
  /\ status = "open"
  /\ keyword # <<>>
  /\ keyword' = Front(keyword)
  /\ view' = getFilterText(keyword')
  /\ LET c == IF cursor > len(view') THEN len(view') ELSE cursor
     IN  cursor' = IF c < 0 THEN 0 ELSE c
  /\ allFlag' = FALSE
  /\ draw(view', cursor')
  /\ UNCHANGED <<selected, multiFlag>>

(* A blank does not change the words, and the view is not computed again. *)
Space ==
  /\ status = "open"
  /\ Len(keyword) < MaxKeyword
  /\ keyword' = Append(keyword, Blank)
  /\ draw(view, cursor)
  /\ UNCHANGED <<view, cursor, selected, allFlag, multiFlag>>

(* The cursor after another letter: not below the last row. *)
NoClamp(v) == cursor  \* deviation: it stays where it is
Clamp(v) == IF cursor > len(v) - 2 THEN len(v) - 2 ELSE cursor

InsertRune(ch) ==
  /\ status = "open"
  /\ Len(keyword) < MaxKeyword
  /\ keyword' = Append(keyword, ch)
  /\ view' = getFilterText(keyword')
  /\ cursor' = Clamp(view')
  /\ allFlag' = FALSE
  /\ draw(view', cursor')
  /\ UNCHANGED <<selected, multiFlag>>

Quit ==
  /\ status = "open"
  /\ status' = "quit"
  /\ UNCHANGED <<keyword, view, cursor, selected, allFlag, multiFlag>>

Key ==
  \/ ArrowUp
  \/ ArrowDown
  \/ ArrowRight
  \/ ArrowLeft
  \/ Tab
  \/ CtrlA
  \/ Enter
  \/ Backspace
  \/ Space
  \/ \E ch \in Letters : InsertRune(ch)
  \/ Quit

(* The lines of the screen above the first row: the prompt and the header. *)
HeadLine(y) == y < 2

Next ==
  \/ Key /\ headed' = (headed /\ cursor' < 0)
  \/ \E y \in Clicks : Mouse(y) /\ headed' = ((headed \/ HeadLine(y)) /\ cursor' < 0)

Spec == Init /\ [][Next]_vars

-----------------------------------------------------------------------------
(* Every variable holds a value of its kind. *)
TypeOK ==
  /\ keyword \in Seq(Letters \cup {Blank}) /\ Len(keyword) <= MaxKeyword
  /\ view \subseteq Rows
  /\ cursor \in Int
  /\ selected \in Seq(Rows \cup {Header})
  /\ allFlag \in BOOLEAN
  /\ multiFlag \in BOOLEAN
  /\ status \in {"open", "quit", "none", "chosen", "crashed"}
  /\ headed \in BOOLEAN

(* The rows on display are the ones that match the keyword, after any      *)
(* sequence of letters, blanks and deletions: getFilterText is not called  *)
(* for a blank.                                                            *)
ViewIsFiltered == view = getFilterText(keyword)

(* While some row is displayed the cursor is on a displayed row, across    *)
(* paging, wrap-around and shrinking and growing views, unless a click on  *)
(* one of the two head lines put it above the first one.                   *)
CursorOnRow ==
  view # {} => cursor + 1 <= Cardinality(view) /\ (cursor < 0 => headed)

(* The list panics, in a key's handler or in draw, only while no row is    *)
(* displayed or the cursor is still where a click on a head line put it    *)
(* (event.go indexes ViewText with CursorLine + 1, draw slices it).        *)
CrashNeedsCause == status = "crashed" => view = {} \/ headed

(* No name is selected twice: a command never runs twice on a server. *)
SelectedOnce == \A i, j \in DOMAIN selected : i # j => selected[i] # selected[j]

(* A list for a single server (a terminal, the source of a copy) returns   *)
(* one.                                                                    *)
OneServer == ~multiFlag => Len(selected) <= 1

(* A key changes the selection of displayed rows only: what was selected   *)
(* under another keyword is kept, and Ctrl-A adds no row that is hidden.   *)
HiddenRowsKept ==
  [][\A r \in Rows \ view : (r \in ToSet(selected)) = (r \in ToSet(selected'))]_vars

(* What the list returns are rows of the list (list.go: "returns the       *)
(* selected row").                                                         *)
ChosenAreRows == status = "chosen" => Header \notin ToSet(selected)
=============================================================================
