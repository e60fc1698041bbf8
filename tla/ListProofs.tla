----------------------------- MODULE ListProofs -----------------------------
(***************************************************************************)
(* Proofs about ListView, for every list, page height and keyword.         *)
(***************************************************************************)
EXTENDS ListView, FiniteSetTheorems, SequenceTheorems, TLAPS

-----------------------------------------------------------------------------
(* Pages. *)

(* Rounding down to a page goes down, not below zero. *)
LEMMA RoundDown ==
  ASSUME NEW a \in Nat, NEW h \in Nat \ {0}
  PROVE  /\ (a \div h) * h \in Nat
         /\ (a \div h) * h <= a
         /\ a >= h => (a \div h) * h >= h
<1>1. a \div h \in Nat /\ a % h \in Nat /\ a = h * (a \div h) + (a % h)
  BY SMT
<1> DEFINE q == a \div h
<1>2. q \in Nat /\ (q >= 1 \/ q = 0) /\ a = h * q + (a % h) /\ a % h < h
  BY <1>1, SMT
<1> HIDE DEF q
<1>3. q * h \in Nat /\ q * h = h * q
  BY <1>2, SMT
<1>4. q >= 1 => q * h >= h
  BY <1>2, SMT
<1>5. q = 0 => a < h
  BY <1>2, SMT
<1> QED
  BY <1>1, <1>2, <1>3, <1>4, <1>5, SMT DEF q

(* The start of a page, for a line above or below zero. *)
LEMMA PageStartFacts ==
  ASSUME NEW c \in Int
  PROVE  /\ PageStart(c) \in Int
         /\ c >= 0 => 0 <= PageStart(c) /\ PageStart(c) <= c
         /\ c < 0 => PageStart(c) <= 0
         /\ c < 0 /\ -c >= Height => PageStart(c) < 0
         /\ c < 0 => PageStart(c) >= c
<1> USE ListAssumption
<1>1. CASE c >= 0
  <2>1. PageStart(c) = (c \div Height) * Height
    BY <1>1 DEF PageStart, Quotient
  <2>2. c \in Nat
    BY <1>1
  <2> QED
    BY <1>1, <2>1, <2>2, RoundDown
<1>2. CASE c < 0
  <2>1. -c \in Nat
    BY <1>2
  <2> DEFINE q == (-c) \div Height
  <2>2. q * Height \in Nat /\ q * Height <= -c /\ (-c >= Height => q * Height >= Height) /\ q \in Nat
    BY <2>1, RoundDown
  <2>3. PageStart(c) = (-q) * Height
    BY <1>2 DEF PageStart, Quotient
  <2> HIDE DEF q
  <2>4. PageStart(c) = -(q * Height)
    BY <2>2, <2>3
  <2> QED
    BY <1>2, <2>2, <2>4
<1> QED
  BY <1>1, <1>2

(* draw does not panic for a line from the header's to the one after the   *)
(* last.                                                                   *)
LEMMA DrawSafe ==
  ASSUME NEW v, len(v) \in Nat \ {0}, NEW c \in Int, -1 <= c, c < len(v)
  PROVE  Drawable(v, c)
<1> USE ListAssumption
<1>1. PageStart(c) \in Int /\ -1 <= PageStart(c) /\ PageStart(c) + 1 <= len(v)
  <2>1. CASE c >= 0
    BY <2>1, PageStartFacts
  <2>2. CASE c < 0
    BY <2>2, PageStartFacts
  <2> QED
    BY <2>1, <2>2
<1>2. firstLine(c) \in Int /\ 0 <= firstLine(c) /\ firstLine(c) <= len(v)
  BY <1>1 DEF firstLine
<1> QED
  BY <1>2 DEF Drawable

-----------------------------------------------------------------------------
(* The cursor. *)

(* A longer keyword matches no more rows. *)
LEMMA LongerMatchesLess ==
  ASSUME NEW p \in Seq(Letters \cup {Blank}), NEW k \in Seq(Letters \cup {Blank}),
         Len(k) = Len(p) + 1, \A i \in 1..Len(p) : k[i] = p[i]
  PROVE  getFilterText(k) \subseteq getFilterText(p)
<1> SUFFICES ASSUME NEW r \in getFilterText(k), NEW i \in 1..Len(p), NEW j \in 1..Len(p), Word(p, i, j)
             PROVE  Occurs(p, i, j, Text[r])
  BY DEF getFilterText
<1> USE ListAssumption
<1>1. Len(p) \in Nat /\ Len(k) \in Nat /\ DOMAIN k = 1..Len(k) /\ r \in Rows /\ Len(Text[r]) \in Nat
  BY DEF getFilterText
<1>2. \A a, b \in DOMAIN k : Word(k, a, b) => Occurs(k, a, b, Text[r])
  BY DEF getFilterText
<1>3. PICK e \in {j, j + 1} : e \in DOMAIN k /\ Word(k, i, e)
  <2>1. CASE j < Len(p) \/ k[j + 1] = Blank
    <3>1. j \in DOMAIN k /\ i <= j
      BY <1>1 DEF Word
    <3>2. \A m \in i..j : k[m] # Blank
      BY <1>1 DEF Word
    <3>3. i > 1 => k[i - 1] = Blank
      <4>1. i > 1 => i - 1 \in 1..Len(p)
        BY <1>1
      <4>2. i > 1 => k[i - 1] = p[i - 1] /\ p[i - 1] = Blank
        BY <4>1 DEF Word
      <4> QED
        BY <4>2
    <3>4. j < Len(k) => k[j + 1] = Blank
      BY <1>1, <2>1 DEF Word
    <3> QED
      BY <3>1, <3>2, <3>3, <3>4 DEF Word
  <2>2. CASE ~(j < Len(p) \/ k[j + 1] = Blank)
    <3>1. j = Len(p) /\ j + 1 = Len(k) /\ k[j + 1] # Blank
      <4>1. ~(j < Len(p)) /\ k[j + 1] # Blank
        BY <2>2, Zenon
      <4>2. j <= Len(p)
        BY <1>1
      <4>3. j = Len(p)
        BY <1>1, <4>1, <4>2
      <4> QED
        BY <1>1, <4>1, <4>3
    <3>2. j + 1 \in DOMAIN k /\ i <= j + 1
      BY <1>1, <3>1
    <3>3. \A m \in i..j : k[m] # Blank
      BY <1>1 DEF Word
    <3>4. \A m \in i..(j + 1) : k[m] # Blank
      BY <1>1, <3>1, <3>3
    <3>5. i > 1 => k[i - 1] = Blank
      <4>1. i > 1 => i - 1 \in 1..Len(p)
        BY <1>1
      <4>2. i > 1 => k[i - 1] = p[i - 1] /\ p[i - 1] = Blank
        BY <4>1 DEF Word
      <4> QED
        BY <4>2
    <3> QED
      BY <1>1, <3>1, <3>2, <3>4, <3>5 DEF Word
  <2> QED
    BY <2>1, <2>2
<1>4. Occurs(k, i, e, Text[r])
  <2>1. i \in DOMAIN k
    BY <1>1
  <2> QED
    BY <1>2, <1>3, <2>1, Zenon
<1>5. PICK d \in 0..(Len(Text[r]) - (e - i + 1)) : \A m \in i..e : Text[r][d + 1 + m - i] = k[m]
  BY <1>4 DEF Occurs
<1>6. d \in 0..(Len(Text[r]) - (j - i + 1))
  BY <1>1, <1>3, <1>5
<1>7. \A m \in i..j : Text[r][d + 1 + m - i] = p[m]
  <2>1. \A m \in i..j : m \in i..e /\ m \in 1..Len(p)
    BY <1>1, <1>3
  <2>2. \A m \in i..j : k[m] = p[m]
    BY <2>1, Zenon
  <2> QED
    BY <1>5, <2>1, <2>2, Zenon
<1> QED
  BY <1>6, <1>7 DEF Occurs

(* A blank at the end of the keyword matches the same rows. *)
LEMMA BlankKeeps ==
  ASSUME NEW p \in Seq(Letters \cup {Blank})
  PROVE  getFilterText(Append(p, Blank)) = getFilterText(p)
<1> DEFINE k == Append(p, Blank)
<1>1. /\ k \in Seq(Letters \cup {Blank}) /\ Len(p) \in Nat /\ Len(k) = Len(p) + 1
      /\ \A i \in 1..Len(p) : k[i] = p[i]
      /\ k[Len(p) + 1] = Blank
      /\ DOMAIN k = 1..(Len(p) + 1) /\ DOMAIN p = 1..Len(p)
  BY AppendProperties
<1>2. getFilterText(k) \subseteq getFilterText(p)
  BY <1>1, LongerMatchesLess
<1> HIDE DEF k
<1>3. ASSUME NEW r \in getFilterText(p), NEW i \in DOMAIN k, NEW j \in DOMAIN k, Word(k, i, j)
      PROVE  Occurs(k, i, j, Text[r])
  <2>1. j \in 1..Len(p) /\ i \in 1..Len(p)
    BY <1>1, <1>3 DEF Word
  <2>2. Word(p, i, j)
    BY <1>1, <1>3, <2>1 DEF Word
  <2>3. Occurs(p, i, j, Text[r])
    BY <1>1, <2>1, <2>2 DEF getFilterText
  <2>4. PICK d \in 0..(Len(Text[r]) - (j - i + 1)) : \A m \in i..j : Text[r][d + 1 + m - i] = p[m]
    BY <2>3 DEF Occurs
  <2>5. \A m \in i..j : p[m] = k[m]
    BY <1>1, <2>1
  <2>6. \A m \in i..j : Text[r][d + 1 + m - i] = k[m]
    BY <2>4, <2>5
  <2> QED
    BY <2>4, <2>6 DEF Occurs
<1>4. getFilterText(p) \subseteq getFilterText(k)
  BY <1>3 DEF getFilterText
<1> QED
  BY <1>2, <1>4 DEF k

(* The number of lines of a view, the header's included. *)
LEMMA LenFacts ==
  ASSUME NEW v \in SUBSET Rows
  PROVE  /\ Cardinality(v) \in Nat
         /\ len(v) = Cardinality(v) + 1
         /\ v # {} <=> Cardinality(v) >= 1
<1>1. IsFiniteSet(Rows)
  BY ListAssumption, FS_Interval DEF Rows
<1>2. IsFiniteSet(v)
  BY <1>1, FS_Subset
<1>3. Cardinality(v) \in Nat /\ (Cardinality(v) = 0 <=> v = {})
  BY <1>2, FS_CardinalityType, FS_EmptySet
<1> QED
  BY <1>3 DEF len

(* A view inside another has no more rows. *)
LEMMA SubViews ==
  ASSUME NEW v \in SUBSET Rows, NEW u \in SUBSET v
  PROVE  Cardinality(u) <= Cardinality(v)
<1>1. IsFiniteSet(v)
  <2>1. IsFiniteSet(Rows)
    BY ListAssumption, FS_Interval DEF Rows
  <2> QED
    BY <2>1, FS_Subset
<1> QED
  BY <1>1, FS_Subset

(* Where the cursor may be: on a row, or with no row at -1 or 0; or above  *)
(* the first row, where a click on a head line h put it.                   *)
Placed(v, c, h) ==
  /\ c \in Int /\ -2 <= c
  /\ v # {} => c + 1 <= Cardinality(v)
  /\ v = {} => c <= 0
  /\ h \/ (IF v = {} THEN -1 <= c ELSE 0 <= c)

Statuses == {"open", "quit", "none", "chosen", "crashed"}

CursorInv ==
  /\ keyword \in Seq(Letters \cup {Blank})
  /\ ViewIsFiltered
  /\ view \in SUBSET Rows
  /\ Placed(view, cursor, headed)
  /\ headed \in BOOLEAN
  /\ headed => cursor < 0
  /\ status \in Statuses
  /\ CrashNeedsCause

(* A cursor in its place can be drawn, unless a click put it there. *)
LEMMA PlacedDrawn ==
  ASSUME NEW v \in SUBSET Rows, NEW c, NEW h, Placed(v, c, h), draw(v, c)
  PROVE  status' = status \/ (status' = "crashed" /\ h /\ c < 0)
<1>1. c \in Int /\ c < len(v) /\ len(v) \in Nat \ {0} /\ -2 <= c /\ (h \/ -1 <= c)
  BY LenFacts DEF Placed
<1>2. CASE -1 <= c
  <2>1. Drawable(v, c)
    BY <1>1, <1>2, DrawSafe
  <2> QED
    BY <2>1 DEF draw
<1>3. CASE ~(-1 <= c)
  <2>1. h /\ c < 0
    BY <1>1, <1>3
  <2> QED
    BY <2>1 DEF draw
<1> QED
  BY <1>2, <1>3

(* A step that puts the cursor in its place and draws keeps the invariant. *)
LEMMA PutKeeps ==
  ASSUME CursorInv, NEW v \in SUBSET Rows, NEW c, NEW h \in BOOLEAN, Placed(v, c, h), draw(v, c),
         status = "open", keyword' \in Seq(Letters \cup {Blank}), ViewIsFiltered',
         view' = v, cursor' = c, headed' = (h /\ c < 0)
  PROVE  CursorInv'
<1>1. status' = "open" \/ (status' = "crashed" /\ h /\ c < 0)
  BY PlacedDrawn
<1>2. Placed(v, c, h /\ c < 0)
  BY LenFacts DEF Placed
<1>3. status' \in Statuses /\ CrashNeedsCause'
  BY <1>1 DEF Statuses, CrashNeedsCause
<1>4. headed' \in BOOLEAN /\ (headed' => cursor' < 0)
  OBVIOUS
<1>5. Placed(view', cursor', headed')
  BY <1>2
<1> QED
  BY <1>3, <1>4, <1>5 DEF CursorInv

(* A key or a click that moves the cursor to its place keeps it. *)
LEMMA MoveKeeps ==
  ASSUME CursorInv, status = "open", NEW c, NEW h \in BOOLEAN, Placed(view, c, h), MoveTo(c),
         headed' = (h /\ cursor' < 0)
  PROVE  CursorInv'
<1>1. view' = view /\ cursor' = c /\ draw(view, c) /\ keyword' = keyword
  BY DEF MoveTo
<1>2. ViewIsFiltered' /\ keyword' \in Seq(Letters \cup {Blank}) /\ view \in SUBSET Rows
  BY <1>1 DEF CursorInv, ViewIsFiltered
<1> QED
  BY <1>1, <1>2, PutKeeps

(* Every key and every click preserves it. *)
LEMMA CursorStep ==
  ASSUME CursorInv, [Next]_vars
  PROVE  CursorInv'
<1> USE ListAssumption
<1> DEFINE n == Cardinality(view)
<1>1. /\ n \in Nat /\ len(view) = n + 1 /\ (view # {} <=> n >= 1) /\ cursor \in Int /\ headed \in BOOLEAN
      /\ -2 <= cursor
      /\ n >= 1 => cursor + 1 <= n
      /\ n = 0 => cursor <= 0
      /\ headed \/ (IF n = 0 THEN -1 <= cursor ELSE 0 <= cursor)
  BY LenFacts DEF CursorInv, Placed
<1>2. \A c \in Int, h \in BOOLEAN :
        Placed(view, c, h) <=> /\ -2 <= c
                               /\ n >= 1 => c + 1 <= n
                               /\ n = 0 => c <= 0
                               /\ h \/ (IF n = 0 THEN -1 <= c ELSE 0 <= c)
  BY <1>1 DEF Placed
<1>3. view \in SUBSET Rows
  BY DEF CursorInv
<1> HIDE DEF n
<1>4. ASSUME ArrowUp, headed' = (headed /\ cursor' < 0)
      PROVE  CursorInv'
  <2> DEFINE c == IF cursor > 0 THEN cursor - 1 ELSE len(view) - 2
  <2>1. c \in Int /\ Placed(view, c, headed)
    BY <1>1, <1>2
  <2> QED
    BY <1>1, <1>4, <2>1, MoveKeeps DEF ArrowUp
<1>5. ASSUME ArrowDown, headed' = (headed /\ cursor' < 0)
      PROVE  CursorInv'
  <2> DEFINE c == IF cursor < len(view) - 2 THEN cursor + 1 ELSE 0
  <2>1. c \in Int /\ Placed(view, c, headed)
    BY <1>1, <1>2
  <2> QED
    BY <1>1, <1>5, <2>1, MoveKeeps DEF ArrowDown
<1>6. ASSUME ArrowRight, headed' = (headed /\ cursor' < 0)
      PROVE  CursorInv'
  <2> DEFINE p == PageStart(cursor + Height)
             c == IF Fits(p) THEN p ELSE cursor
  <2>1. cursor + Height \in Int
    BY <1>1
  <2>2. /\ p \in Int
        /\ cursor + Height >= 0 => p >= 0
        /\ cursor + Height < 0 => p >= cursor + Height
    BY <2>1, PageStartFacts
  <2>3. MoveTo(c) /\ status = "open"
    BY <1>6 DEF ArrowRight
  <2> HIDE DEF p
  <2>4. Fits(p) => p + 2 <= n + 1
    BY <1>1 DEF Fits
  <2>5. p >= 0 \/ (cursor = -2 /\ p >= -1)
    BY <1>1, <2>2
  <2>6. c \in Int /\ Placed(view, c, headed)
    BY <1>1, <1>2, <2>2, <2>4, <2>5
  <2> QED
    BY <1>1, <1>6, <2>3, <2>6, MoveKeeps
<1>7. ASSUME ArrowLeft, headed' = (headed /\ cursor' < 0)
      PROVE  CursorInv'
  <2> DEFINE p == PageStart(cursor - Height)
             c == IF p >= 0 THEN p ELSE cursor
  <2>1. cursor - Height \in Int
    BY <1>1
  <2>2. /\ p \in Int
        /\ cursor - Height >= 0 => p <= cursor - Height
        /\ cursor - Height < 0 => p <= 0
        /\ cursor <= 0 => p < 0
    BY <1>1, <2>1, PageStartFacts
  <2>3. MoveTo(c) /\ status = "open"
    BY <1>7 DEF ArrowLeft
  <2> HIDE DEF p
  <2>4. p >= 0 => p <= cursor
    BY <1>1, <2>2
  <2>5. c \in Int /\ Placed(view, c, headed)
    BY <1>1, <1>2, <2>2, <2>4
  <2> QED
    BY <1>1, <1>7, <2>3, <2>5, MoveKeeps
<1>8. ASSUME NEW y \in Clicks, Mouse(y), headed' = ((headed \/ HeadLine(y)) /\ cursor' < 0)
      PROVE  CursorInv'
  <2> DEFINE c == IF y - 2 <= len(view) - 2 THEN y - 2 ELSE cursor
             h == headed \/ HeadLine(y)
  <2>1. y \in Nat /\ h \in BOOLEAN /\ (y >= 2 \/ h) /\ (headed => h)
    BY <1>1 DEF HeadLine
  <2>2. MoveTo(c) /\ status = "open" /\ headed' = (h /\ cursor' < 0)
    BY <1>8 DEF Mouse
  <2> HIDE DEF h
  <2>3. c \in Int /\ Placed(view, c, h)
    BY <1>1, <1>2, <2>1
  <2> QED
    BY <2>1, <2>2, <2>3, MoveKeeps
<1>9. ASSUME Tab, headed' = (headed /\ cursor' < 0)
      PROVE  CursorInv'
  <2>1. view' = view /\ keyword' = keyword /\ status = "open"
    BY <1>9 DEF Tab
  <2>2. ViewIsFiltered' /\ keyword' \in Seq(Letters \cup {Blank})
    BY <2>1 DEF CursorInv, ViewIsFiltered
  <2>3. CASE Toggles /\ ~InRange(view, cursor + 1)
    <3>1. cursor' = cursor /\ status' = "crashed"
      BY <1>9, <2>3 DEF Tab
    <3>2. view = {} \/ (headed /\ cursor < 0)
      BY <1>1, <2>3 DEF InRange
    <3>3. headed' = headed /\ headed \in BOOLEAN
      BY <1>9, <3>1 DEF CursorInv
    <3>4. CrashNeedsCause' /\ status' \in Statuses
      BY <2>1, <3>1, <3>2, <3>3 DEF CrashNeedsCause, Statuses
    <3> QED
      BY <2>1, <2>2, <3>1, <3>3, <3>4 DEF CursorInv
  <2>4. CASE ~(Toggles /\ ~InRange(view, cursor + 1))
    <3>1. cursor' = (IF cursor < len(view) - 2 THEN cursor + 1 ELSE cursor) /\ draw(view, cursor')
      BY <1>9, <2>4 DEF Tab
    <3>2. cursor' \in Int /\ Placed(view, cursor', headed)
      BY <1>1, <1>2, <3>1
    <3> QED
      BY <1>1, <1>3, <1>9, <2>1, <2>2, <3>1, <3>2, PutKeeps
  <2> QED
    BY <2>3, <2>4
<1>10. ASSUME CtrlA, headed' = (headed /\ cursor' < 0)
      PROVE  CursorInv'
  <2>1. view' = view /\ cursor' = cursor /\ draw(view, cursor) /\ keyword' = keyword /\ status = "open"
    BY <1>10 DEF CtrlA
  <2>2. ViewIsFiltered' /\ keyword' \in Seq(Letters \cup {Blank}) /\ Placed(view, cursor, headed)
    BY <2>1 DEF CursorInv, ViewIsFiltered
  <2> QED
    BY <1>1, <1>3, <1>10, <2>1, <2>2, PutKeeps
<1>11. ASSUME Enter, headed' = (headed /\ cursor' < 0)
      PROVE  CursorInv'
  <2>1. view' = view /\ cursor' = cursor /\ keyword' = keyword
    BY <1>11 DEF Enter
  <2>2. status' \in {"none", "chosen", "crashed"} /\ (status' = "crashed" => ~InRange(view, cursor + 1))
    BY <1>11 DEF Enter
  <2>3. headed' = headed /\ headed \in BOOLEAN
    BY <1>11, <2>1 DEF CursorInv
  <2>4. status' = "crashed" => view = {} \/ headed
    BY <1>1, <2>2 DEF InRange
  <2>5. CrashNeedsCause' /\ status' \in Statuses
    BY <2>1, <2>2, <2>3, <2>4 DEF CrashNeedsCause, Statuses
  <2> QED
    BY <2>1, <2>3, <2>5 DEF CursorInv, ViewIsFiltered
<1>13. ASSUME Backspace, headed' = (headed /\ cursor' < 0)
       PROVE  CursorInv'
  <2> DEFINE v == getFilterText(keyword')
             c == IF cursor > len(v) THEN len(v) ELSE cursor
             d == IF c < 0 THEN 0 ELSE c
  <2>1. status = "open" /\ view' = v /\ cursor' = d /\ draw(v, d)
    BY <1>13 DEF Backspace
  <2>2. /\ keyword' \in Seq(Letters \cup {Blank})
        /\ Len(keyword) = Len(keyword') + 1
        /\ \A i \in 1..Len(keyword') : keyword[i] = keyword'[i]
    <3>1. keyword' = SubSeq(keyword, 1, Len(keyword) - 1) /\ keyword # <<>>
      BY <1>13 DEF Backspace, Front
    <3>2. keyword \in Seq(Letters \cup {Blank}) /\ Len(keyword) \in Nat /\ Len(keyword) >= 1
      BY <3>1, EmptySeq DEF CursorInv
    <3>3. \A i \in 1..(Len(keyword) - 1) : keyword[i] \in Letters \cup {Blank}
      BY <3>2
    <3> DEFINE l == Len(keyword) - 1
               t == SubSeq(keyword, 1, l)
    <3>4. l \in Int /\ 1 \in Int
      BY <3>2
    <3>5. /\ t \in Seq(Letters \cup {Blank})
          /\ Len(t) = IF 1 <= l THEN l - 1 + 1 ELSE 0
          /\ \A i \in 1..(l - 1 + 1) : t[i] = keyword[1 + i - 1]
      <4> HIDE DEF l
      <4> QED
        BY <3>3, <3>4, SubSeqProperties DEF l
    <3> HIDE DEF t
    <3>6. Len(t) = l /\ \A i \in 1..l : t[i] = keyword[i]
      <4>1. l \in Nat
        BY <3>2
      <4> HIDE DEF l
      <4>2. Len(t) = l
        BY <3>5, <4>1
      <4>3. \A i \in 1..l : i \in 1..(l - 1 + 1) /\ 1 + i - 1 = i
        BY <4>1
      <4> QED
        BY <3>5, <4>2, <4>3
    <3>7. keyword' = t
      BY <3>1 DEF t
    <3>8. Len(keyword) = Len(t) + 1 /\ \A i \in 1..Len(t) : keyword[i] = t[i]
      BY <3>2, <3>6
    <3> QED
      BY <3>5, <3>7, <3>8
  <2>3. v \in SUBSET Rows
    BY DEF getFilterText
  <2>4. view \subseteq v
    BY <2>2, LongerMatchesLess DEF CursorInv, ViewIsFiltered
  <2>5. Cardinality(v) \in Nat /\ len(v) = Cardinality(v) + 1 /\ (v # {} <=> Cardinality(v) >= 1)
    BY <2>3, LenFacts
  <2>6. n <= Cardinality(v)
    BY <2>3, <2>4, SubViews DEF n
  <2>7. ViewIsFiltered'
    BY <2>1 DEF ViewIsFiltered
  <2> HIDE DEF v
  <2>8. d \in Int /\ Placed(v, d, headed)
    BY <1>1, <2>5, <2>6 DEF Placed
  <2> HIDE DEF d
  <2> QED
    BY <1>1, <1>13, <2>1, <2>2, <2>3, <2>7, <2>8, PutKeeps
<1>14. ASSUME Space, headed' = (headed /\ cursor' < 0)
       PROVE  CursorInv'
  <2>1. status = "open" /\ view' = view /\ cursor' = cursor /\ draw(view, cursor)
    BY <1>14 DEF Space
  <2>2. keyword' = Append(keyword, Blank) /\ keyword \in Seq(Letters \cup {Blank})
    BY <1>14 DEF Space, CursorInv
  <2>3. ViewIsFiltered'
    BY <2>1, <2>2, BlankKeeps DEF CursorInv, ViewIsFiltered
  <2>4. keyword' \in Seq(Letters \cup {Blank})
    BY <2>2, AppendProperties
  <2>5. Placed(view, cursor, headed)
    BY DEF CursorInv
  <2> QED
    BY <1>1, <1>3, <1>14, <2>1, <2>3, <2>4, <2>5, PutKeeps
<1>15. ASSUME NEW ch \in Letters, InsertRune(ch), headed' = (headed /\ cursor' < 0)
       PROVE  CursorInv'
  <2> DEFINE v == getFilterText(keyword')
  <2>1. status = "open" /\ view' = v /\ cursor' = Clamp(v) /\ draw(v, Clamp(v))
    BY <1>15 DEF InsertRune
  <2>2. keyword' = Append(keyword, ch) /\ keyword \in Seq(Letters \cup {Blank})
    BY <1>15 DEF InsertRune, CursorInv
  <2>3. /\ keyword' \in Seq(Letters \cup {Blank})
        /\ Len(keyword') = Len(keyword) + 1
        /\ \A i \in 1..Len(keyword) : keyword'[i] = keyword[i]
    BY <2>2, AppendProperties
  <2>4. v \in SUBSET Rows
    BY DEF getFilterText
  <2>5. v \subseteq view
    BY <2>2, <2>3, LongerMatchesLess DEF CursorInv, ViewIsFiltered
  <2>6. Cardinality(v) \in Nat /\ len(v) = Cardinality(v) + 1 /\ (v # {} <=> Cardinality(v) >= 1)
    BY <2>4, LenFacts
  <2>7. Cardinality(v) <= n
    BY <1>3, <2>5, SubViews DEF n
  <2>8. ViewIsFiltered'
    BY <2>1 DEF ViewIsFiltered
  <2> HIDE DEF v
  <2>9. Clamp(v) \in Int /\ Placed(v, Clamp(v), headed)
    BY <1>1, <2>6, <2>7 DEF Placed, Clamp
  <2> HIDE DEF v
  <2>10. headed' = (headed /\ Clamp(v) < 0)
    BY <1>15, <2>1
  <2> QED
    BY <1>1, <2>1, <2>3, <2>4, <2>8, <2>9, <2>10, PutKeeps
<1>16. ASSUME Quit, headed' = (headed /\ cursor' < 0)
       PROVE  CursorInv'
  <2>1. headed' = headed /\ headed \in BOOLEAN
    BY <1>16 DEF Quit, CursorInv
  <2> QED
    BY <1>16, <2>1 DEF Quit, CursorInv, CrashNeedsCause, Statuses, ViewIsFiltered
<1>17. CASE UNCHANGED vars
  BY <1>17 DEF vars, CursorInv, CrashNeedsCause, Placed, ViewIsFiltered
<1>18. ASSUME Key, headed' = (headed /\ cursor' < 0)
       PROVE  CursorInv'
  BY <1>4, <1>5, <1>6, <1>7, <1>9, <1>10, <1>11, <1>13, <1>14, <1>15, <1>16, <1>18 DEF Key
<1> QED
  BY <1>8, <1>17, <1>18 DEF Next

(* The invariant is kept. *)
LEMMA CursorCorrect == Spec => []CursorInv
<1>1. Init => CursorInv
  <2> SUFFICES ASSUME Init
               PROVE  CursorInv
    OBVIOUS
  <2>1. keyword = <<>> /\ cursor = 0 /\ status = "open" /\ view = getFilterText(keyword) /\ headed = FALSE
    BY DEF Init
  <2>2. view \in SUBSET Rows
    BY <2>1 DEF getFilterText
  <2>3. Placed(view, cursor, headed)
    BY <2>1, <2>2, LenFacts DEF Placed
  <2>4. keyword \in Seq(Letters \cup {Blank})
    BY <2>1, EmptySeq
  <2> QED
    BY <2>1, <2>2, <2>3, <2>4 DEF CursorInv, ViewIsFiltered, CrashNeedsCause, Statuses
<1>2. CursorInv /\ [Next]_vars => CursorInv'
  BY CursorStep
<1> QED
  BY <1>1, <1>2, PTL DEF Spec

(* The rows on display always match the keyword: no filter is stale. *)
THEOREM FilterCorrect == Spec => []ViewIsFiltered
<1>1. CursorInv => ViewIsFiltered
  BY DEF CursorInv
<1> QED
  BY <1>1, CursorCorrect, PTL

(* For every list, page height and sequence of keys and clicks, the cursor *)
(* is on a row whenever there is one, unless a click on a head line put it *)
(* above the first.                                                        *)
THEOREM CursorStaysOnRows == Spec => []CursorOnRow
<1>1. CursorInv => CursorOnRow
  BY DEF CursorInv, Placed, CursorOnRow
<1> QED
  BY <1>1, CursorCorrect, PTL

(* And an index or a slice is out of range only when no row matches, or    *)
(* the cursor is where a click on a head line put it.                      *)
THEOREM CrashesOnlyForCause == Spec => []CrashNeedsCause
<1>1. CursorInv => CrashNeedsCause
  BY DEF CursorInv
<1> QED
  BY <1>1, CursorCorrect, PTL

-----------------------------------------------------------------------------
(* Numbers in ascending order. *)

Distinct(s) == \A i, j \in DOMAIN s : i # j => s[i] # s[j]

(* The i-th of n numbers exists: the ranks of n numbers are 1 to n.        *)
LEMMA NthFacts ==
  ASSUME NEW S \in SUBSET Nat, IsFiniteSet(S), NEW i \in 1..Cardinality(S)
  PROVE  Nth(S, i) \in S /\ Cardinality({s \in S : s <= Nth(S, i)}) = i
<1> DEFINE n == Cardinality(S)
           upto(r) == {s \in S : s <= r}
           rank == [r \in S |-> Cardinality(upto(r))]
<1>1. n \in Nat
  BY FS_CardinalityType
<1>2. ASSUME NEW r \in S
      PROVE  IsFiniteSet(upto(r)) /\ Cardinality(upto(r)) \in 1..n
  <2>1. upto(r) \in SUBSET S /\ r \in upto(r)
    OBVIOUS
  <2>2. IsFiniteSet(upto(r)) /\ Cardinality(upto(r)) <= n
    BY <2>1, FS_Subset
  <2>3. Cardinality(upto(r)) \in Nat /\ Cardinality(upto(r)) # 0
    BY <2>1, <2>2, FS_CardinalityType, FS_EmptySet
  <2> QED
    BY <1>1, <2>2, <2>3
<1>3. ASSUME NEW a \in S, NEW b \in S, a < b
      PROVE  Cardinality(upto(a)) # Cardinality(upto(b))
  <2>1. upto(a) \in SUBSET upto(b) /\ b \in upto(b) /\ b \notin upto(a)
    <3>1. a \in Nat /\ b \in Nat /\ b <= b /\ ~(b <= a) /\ \A s \in S : s \in Nat /\ (s <= a => s <= b)
      BY <1>3
    <3> QED
      BY <3>1
  <2>2. Cardinality(upto(b)) = Cardinality(upto(a)) => upto(b) = upto(a)
    BY <1>2, <2>1, FS_Subset
  <2> QED
    BY <2>1, <2>2
<1>4. rank \in Injection(S, 1..n)
  <2>1. rank \in [S -> 1..n]
    BY <1>2
  <2>2. ASSUME NEW a \in S, NEW b \in S, rank[a] = rank[b]
        PROVE  a = b
    <3>1. Cardinality(upto(a)) = Cardinality(upto(b))
      BY <2>2
    <3>2. ~(a < b) /\ ~(b < a)
      BY <1>3, <3>1
    <3> QED
      BY <3>2
  <2>3. IsInjective(rank)
    BY <2>2 DEF IsInjective
  <2> QED
    BY <2>1, <2>3 DEF Injection
<1>5. IsFiniteSet(1..n) /\ Cardinality(1..n) = n
  BY <1>1, FS_Interval
<1>6. rank \in Surjection(S, 1..n)
  BY <1>4, <1>5, FS_Injection
<1>7. \E r \in S : rank[r] = i
  BY <1>6 DEF Surjection
<1>8. \E r \in S : Cardinality({s \in S : s <= r}) = i
  BY <1>7
<1> QED
  BY <1>8 DEF Nth

(* InOrder walks the numbers, each once. *)
LEMMA InOrderFacts ==
  ASSUME NEW S \in SUBSET Nat, IsFiniteSet(S)
  PROVE  InOrder(S) \in Seq(S) /\ Distinct(InOrder(S)) /\ ToSet(InOrder(S)) = S
<1> DEFINE n == Cardinality(S)
           f == InOrder(S)
<1>1. n \in Nat
  BY FS_CardinalityType
<1>2. f \in [1..n -> S] /\ \A i \in 1..n : f[i] = Nth(S, i)
  BY NthFacts DEF InOrder
<1>3. \A i, j \in 1..n : i # j => f[i] # f[j]
  <2> SUFFICES ASSUME NEW i \in 1..n, NEW j \in 1..n, Nth(S, i) = Nth(S, j)
               PROVE  i = j
    BY <1>2
  <2>1. Cardinality({s \in S : s <= Nth(S, i)}) = i /\ Cardinality({s \in S : s <= Nth(S, j)}) = j
    BY NthFacts
  <2> QED
    BY <2>1
<1>4. f \in Injection(1..n, S)
  BY <1>2, <1>3 DEF Injection, IsInjective
<1>5. Cardinality(1..n) = n
  BY <1>1, FS_Interval
<1>6. f \in Surjection(1..n, S)
  BY <1>4, <1>5, FS_Injection
<1> HIDE DEF f, n
<1>7. f \in Seq(S) /\ DOMAIN f = 1..n
  BY <1>1, <1>2, SeqDef
<1>8. ToSet(f) = S
  BY <1>2, <1>6 DEF Surjection, ToSet
<1> QED
  BY <1>3, <1>7, <1>8 DEF Distinct, f

-----------------------------------------------------------------------------
(* The selection. *)

Picked == Seq(Rows \cup {Header})

LEMMA RowsFinite ==
  ASSUME NEW v \in SUBSET Rows
  PROVE  v \in SUBSET Nat /\ IsFiniteSet(v)
<1>1. IsFiniteSet(Rows) /\ Rows \subseteq Nat
  BY ListAssumption, FS_Interval DEF Rows
<1> QED
  BY <1>1, FS_Subset

(* Without keeps the other names, in their order. *)
LEMMA WithoutFacts ==
  ASSUME NEW sel \in Picked, NEW v
  PROVE  /\ Without(sel, v) \in Picked
         /\ ToSet(Without(sel, v)) = ToSet(sel) \ v
         /\ Distinct(sel) => Distinct(Without(sel, v))
<1> DEFINE S == {i \in DOMAIN sel : sel[i] \notin v}
           kept == InOrder(S)
           t == [i \in DOMAIN kept |-> sel[kept[i]]]
           n == Len(kept)
<1>1. DOMAIN sel = 1..Len(sel) /\ Len(sel) \in Nat /\ \A i \in DOMAIN sel : sel[i] \in Rows \cup {Header}
  BY LenProperties, ElementOfSeq DEF Picked
<1>2. S \in SUBSET Nat /\ IsFiniteSet(S)
  <2>1. IsFiniteSet(1..Len(sel))
    BY <1>1, FS_Interval
  <2>2. S \in SUBSET (1..Len(sel))
    BY <1>1
  <2>3. 1..Len(sel) \subseteq Nat
    BY <1>1
  <2> QED
    BY <2>1, <2>2, <2>3, FS_Subset
<1>3. kept \in Seq(S) /\ Distinct(kept) /\ ToSet(kept) = S
  BY <1>2, InOrderFacts
<1>4. n \in Nat /\ DOMAIN kept = 1..n /\ \A i \in 1..n : kept[i] \in S
  BY <1>3, LenProperties, ElementOfSeq
<1>5. \A r \in S : \E i \in 1..n : kept[i] = r
  BY <1>3, <1>4 DEF ToSet
<1>6. \A i \in S : i \in DOMAIN sel /\ sel[i] \notin v
  OBVIOUS
<1>7. \A i \in DOMAIN sel : sel[i] \notin v => i \in S
  OBVIOUS
<1> HIDE DEF S, kept, n
<1>8. t \in [1..n -> Rows \cup {Header}] /\ DOMAIN t = 1..n /\ \A i \in 1..n : t[i] = sel[kept[i]]
  BY <1>1, <1>4, <1>6
<1> HIDE DEF t
<1>9. t \in Picked
  BY <1>4, <1>8, SeqDef DEF Picked
<1>10. ASSUME NEW r
       PROVE  r \in ToSet(t) <=> r \in ToSet(sel) /\ r \notin v
  <2>1. r \in ToSet(t) => r \in ToSet(sel) /\ r \notin v
    BY <1>4, <1>6, <1>8 DEF ToSet
  <2>2. ASSUME r \in ToSet(sel), r \notin v
        PROVE  r \in ToSet(t)
    <3>1. PICK i \in DOMAIN sel : sel[i] = r
      BY <2>2 DEF ToSet
    <3>2. i \in S
      BY <1>7, <2>2, <3>1
    <3>3. PICK j \in 1..n : kept[j] = i
      BY <1>5, <3>2
    <3> QED
      BY <1>8, <3>1, <3>3 DEF ToSet
  <2> QED
    BY <2>1, <2>2
<1>11. Distinct(sel) => Distinct(t)
  BY <1>3, <1>4, <1>6, <1>8 DEF Distinct
<1>12. t = Without(sel, v)
  BY DEF t, kept, S, Without
<1> QED
  BY <1>9, <1>10, <1>11, <1>12

(* Two selections one after the other. *)
LEMMA BothFacts ==
  ASSUME NEW a \in Picked, NEW b \in Picked
  PROVE  /\ a \o b \in Picked
         /\ ToSet(a \o b) = ToSet(a) \cup ToSet(b)
         /\ Distinct(a) /\ Distinct(b) /\ ToSet(a) \cap ToSet(b) = {} => Distinct(a \o b)
<1> DEFINE m == Len(a)
           n == Len(b)
           c == a \o b
<1>1. m \in Nat /\ n \in Nat /\ DOMAIN a = 1..m /\ DOMAIN b = 1..n
  BY LenProperties DEF Picked
<1>2. /\ c \in Picked /\ Len(c) = m + n
      /\ \A i \in 1..(m + n) : c[i] = IF i <= m THEN a[i] ELSE b[i - m]
  BY ConcatProperties DEF Picked
<1>3. DOMAIN c = 1..(m + n)
  BY <1>2, LenProperties DEF Picked
<1> HIDE DEF m, n, c
<1>4. \A i \in 1..m : i \in 1..(m + n) /\ c[i] = a[i]
  BY <1>1, <1>2
<1>5. \A i \in 1..n : m + i \in 1..(m + n) /\ c[m + i] = b[i]
  <2> TAKE i \in 1..n
  <2>1. m + i \in 1..(m + n) /\ ~(m + i <= m) /\ (m + i) - m = i
    BY <1>1
  <2>2. c[m + i] = b[(m + i) - m]
    BY <1>2, <2>1, Zenon
  <2> QED
    BY <2>1, <2>2
<1>6. \A i \in 1..(m + n) : i \in 1..m \/ \E j \in 1..n : i = m + j
  <2> TAKE i \in 1..(m + n)
  <2>1. i \in 1..m \/ i - m \in 1..n
    BY <1>1
  <2>2. i = m + (i - m)
    BY <1>1
  <2> QED
    BY <2>1, <2>2
<1>7. ToSet(c) = ToSet(a) \cup ToSet(b)
  <2>1. ASSUME NEW r \in ToSet(c)
        PROVE  r \in ToSet(a) \cup ToSet(b)
    <3>1. PICK i \in 1..(m + n) : r = c[i]
      BY <1>3, <2>1 DEF ToSet
    <3>2. CASE i \in 1..m
      BY <1>1, <1>4, <3>1, <3>2 DEF ToSet
    <3>3. ASSUME NEW j \in 1..n, i = m + j
          PROVE  r \in ToSet(b)
      BY <1>1, <1>5, <3>1, <3>3 DEF ToSet
    <3> QED
      BY <1>6, <3>2, <3>3
  <2>2. ToSet(a) \subseteq ToSet(c)
    BY <1>1, <1>3, <1>4 DEF ToSet
  <2>3. ToSet(b) \subseteq ToSet(c)
    BY <1>1, <1>3, <1>5 DEF ToSet
  <2> QED
    BY <2>1, <2>2, <2>3
<1>8. ASSUME Distinct(a), Distinct(b), ToSet(a) \cap ToSet(b) = {},
             NEW i \in 1..(m + n), NEW j \in 1..(m + n), i # j
      PROVE  c[i] # c[j]
  <2>1. CASE i \in 1..m /\ j \in 1..m
    BY <1>1, <1>4, <1>8, <2>1 DEF Distinct
  <2>2. ASSUME NEW d \in 1..m, NEW e \in 1..n
        PROVE  a[d] # b[e]
    <3>1. a[d] \in ToSet(a) /\ b[e] \in ToSet(b)
      BY <1>1 DEF ToSet
    <3> QED
      BY <1>8, <3>1
  <2>3. CASE i \in 1..m /\ j \notin 1..m
    <3>1. PICK e \in 1..n : j = m + e
      BY <1>6, <2>3
    <3>2. c[i] = a[i] /\ c[j] = b[e]
      BY <1>4, <1>5, <2>3, <3>1
    <3> QED
      BY <2>2, <2>3, <3>2
  <2>4. CASE i \notin 1..m /\ j \in 1..m
    <3>1. PICK e \in 1..n : i = m + e
      BY <1>6, <2>4
    <3>2. c[i] = b[e] /\ c[j] = a[j]
      BY <1>4, <1>5, <2>4, <3>1
    <3> QED
      BY <2>2, <2>4, <3>2
  <2>5. CASE i \notin 1..m /\ j \notin 1..m
    <3>1. PICK d \in 1..n : i = m + d
      BY <1>6, <2>5
    <3>2. PICK e \in 1..n : j = m + e
      BY <1>6, <2>5
    <3>3. d # e
      BY <1>8, <3>1, <3>2
    <3>4. b[d] # b[e]
      BY <1>1, <1>8, <3>3 DEF Distinct
    <3>5. c[i] = b[d] /\ c[j] = b[e]
      BY <1>5, <3>1, <3>2
    <3> QED
      BY <3>4, <3>5
  <2> QED
    BY <2>1, <2>3, <2>4, <2>5
<1> QED
  BY <1>2, <1>3, <1>7, <1>8 DEF Distinct, c

(* toggle changes one name. *)
LEMMA ToggleFacts ==
  ASSUME NEW sel \in Picked, NEW r \in Rows \cup {Header}
  PROVE  /\ toggle(sel, r) \in Picked
         /\ \A x : x # r => (x \in ToSet(toggle(sel, r)) <=> x \in ToSet(sel))
         /\ Distinct(sel) => Distinct(toggle(sel, r))
<1>1. CASE r \in ToSet(sel)
  BY <1>1, WithoutFacts DEF toggle
<1>2. CASE r \notin ToSet(sel)
  <2>1. <<r>> \in Picked /\ ToSet(<<r>>) = {r} /\ Distinct(<<r>>)
    BY DEF Picked, ToSet, Distinct
  <2>2. Append(sel, r) = sel \o <<r>>
    BY AppendIsConcat DEF Picked
  <2> QED
    BY <1>2, <2>1, <2>2, BothFacts DEF toggle
<1> QED
  BY <1>1, <1>2

(* allToggle changes the names on display. *)
LEMMA AllToggleFacts ==
  ASSUME NEW sel \in Picked, NEW v \in SUBSET Rows, NEW all \in BOOLEAN
  PROVE  /\ allToggle(sel, v, all) \in Picked
         /\ \A x : x \notin v => (x \in ToSet(allToggle(sel, v, all)) <=> x \in ToSet(sel))
         /\ Distinct(sel) => Distinct(allToggle(sel, v, all))
<1> DEFINE a == IF all THEN Without(sel, v) ELSE sel
           b == InOrder(v \ ToSet(sel))
<1>1. a \in Picked /\ (Distinct(sel) => Distinct(a)) /\ ToSet(a) \subseteq ToSet(sel)
      /\ \A x : x \notin v => (x \in ToSet(a) <=> x \in ToSet(sel))
  BY WithoutFacts
<1>2. v \ ToSet(sel) \in SUBSET Nat /\ IsFiniteSet(v \ ToSet(sel))
  BY RowsFinite
<1>3. b \in Seq(v \ ToSet(sel)) /\ Distinct(b) /\ ToSet(b) = v \ ToSet(sel)
  BY <1>2, InOrderFacts
<1> HIDE DEF a, b
<1>4. b \in Picked
  BY <1>3, SeqMonotonic DEF Picked
<1>5. allToggle(sel, v, all) = a \o b
  BY DEF a, b, allToggle
<1> QED
  BY <1>1, <1>3, <1>4, <1>5, BothFacts

(* The row at a line of the view. *)
LEMMA RowAtLine ==
  ASSUME NEW v \in SUBSET Rows, NEW i \in Int, InRange(v, i)
  PROVE  ViewText(v, i) \in v \cup {Header}
<1>1. v \in SUBSET Nat /\ IsFiniteSet(v)
  BY RowsFinite
<1>2. Cardinality(v) \in Nat
  BY <1>1, FS_CardinalityType
<1>3. i # 0 => i \in 1..Cardinality(v)
  BY <1>2 DEF InRange, len
<1>4. i # 0 => Nth(v, i) \in v
  BY <1>1, <1>3, NthFacts
<1> QED
  BY <1>4 DEF ViewText

(* The keys that only move the cursor. *)
LEMMA MovesOnly ==
  ASSUME TypeOK, ArrowUp \/ ArrowDown \/ ArrowRight \/ ArrowLeft \/ \E y \in Clicks : Mouse(y)
  PROVE  \E c \in Int : MoveTo(c)
<1> USE ListAssumption
<1>1. cursor \in Int /\ len(view) \in Int
  BY LenFacts DEF TypeOK
<1>2. PageStart(cursor + Height) \in Int /\ PageStart(cursor - Height) \in Int
  BY <1>1, PageStartFacts
<1>3. CASE ArrowUp \/ ArrowDown
  BY <1>1, <1>3 DEF ArrowUp, ArrowDown
<1>4. CASE ArrowRight \/ ArrowLeft
  <2> DEFINE p == PageStart(cursor + Height)
             q == PageStart(cursor - Height)
  <2>1. p \in Int /\ q \in Int
    BY <1>2
  <2>2. MoveTo(IF Fits(p) THEN p ELSE cursor) \/ MoveTo(IF q >= 0 THEN q ELSE cursor)
    BY <1>4 DEF ArrowRight, ArrowLeft
  <2> HIDE DEF p, q
  <2> QED
    BY <1>1, <2>1, <2>2
<1>5. ASSUME NEW y \in Clicks, Mouse(y)
      PROVE  \E c \in Int : MoveTo(c)
  <2>1. y - 2 \in Int
    OBVIOUS
  <2> QED
    BY <1>1, <1>5, <2>1 DEF Mouse
<1> QED
  BY <1>3, <1>4, <1>5

(* What a key does to the selection.                                       *)
SelectionStep ==
  /\ selected' \in Picked
  /\ Distinct(selected) => Distinct(selected')
  /\ \A r \in Rows \ view : r \in ToSet(selected') <=> r \in ToSet(selected)
  /\ ~multiFlag /\ (status = "open" => selected = <<>>) /\ Len(selected) <= 1 =>
       (status' = "open" => selected' = <<>>) /\ Len(selected') <= 1

LEMMA SelectionKept ==
  ASSUME TypeOK, [Next]_vars
  PROVE  SelectionStep
<1> USE ListAssumption
<1>1. selected \in Picked /\ view \in SUBSET Rows /\ cursor \in Int /\ multiFlag \in BOOLEAN /\ allFlag \in BOOLEAN
  BY DEF TypeOK, Picked
<1>2. ASSUME selected' = selected, status' = "open" => status = "open"
      PROVE  SelectionStep
  BY <1>1, <1>2 DEF SelectionStep
<1>3. CASE UNCHANGED vars
  BY <1>2, <1>3 DEF vars
<1>4. ASSUME NEW c \in Int, MoveTo(c), status = "open"
      PROVE  SelectionStep
  BY <1>2, <1>4 DEF MoveTo
<1>5. CASE ArrowUp \/ ArrowDown \/ ArrowRight \/ ArrowLeft \/ \E y \in Clicks : Mouse(y)
  <2>1. status = "open"
    BY <1>5 DEF ArrowUp, ArrowDown, ArrowRight, ArrowLeft, Mouse
  <2> QED
    BY <1>4, <1>5, <2>1, MovesOnly
<1>6. CASE Tab
  <2>1. CASE Toggles /\ InRange(view, cursor + 1)
    <3> DEFINE r == ViewText(view, cursor + 1)
    <3>1. r \in view \cup {Header}
      BY <1>1, <2>1, RowAtLine
    <3>2. selected' = toggle(selected, r) /\ multiFlag
      BY <1>6, <2>1 DEF Tab, Toggles
    <3> HIDE DEF r
    <3>3. r \in Rows \cup {Header} /\ \A x \in Rows \ view : x # r
      BY <1>1, <3>1 DEF Rows, Header
    <3> QED
      BY <1>1, <3>2, <3>3, ToggleFacts DEF SelectionStep
  <2>2. CASE ~(Toggles /\ InRange(view, cursor + 1))
    <3>1. selected' = selected /\ status = "open"
      BY <1>6, <2>2 DEF Tab
    <3> QED
      BY <1>2, <3>1
  <2> QED
    BY <2>1, <2>2
<1>7. CASE CtrlA
  <2>1. selected' = allToggle(selected, view, allFlag) /\ multiFlag
    BY <1>7 DEF CtrlA
  <2> QED
    BY <1>1, <2>1, AllToggleFacts DEF SelectionStep
<1>8. CASE Enter
  <2>1. CASE selected = <<>> /\ InRange(view, cursor + 1)
    <3> DEFINE r == ViewText(view, cursor + 1)
    <3>1. r \in view \cup {Header}
      BY <1>1, <2>1, RowAtLine
    <3>2. selected' = <<r>> /\ status' # "open"
      BY <1>8, <2>1 DEF Enter
    <3> HIDE DEF r
    <3>3. <<r>> \in Picked /\ Len(<<r>>) = 1 /\ Distinct(<<r>>) /\ ToSet(<<r>>) = {r}
      BY <1>1, <3>1 DEF Picked, Distinct, ToSet
    <3>4. ToSet(selected) = {}
      BY <2>1 DEF ToSet
    <3>5. \A x \in Rows \ view : x # r
      BY <1>1, <3>1 DEF Rows, Header
    <3> QED
      BY <2>1, <3>2, <3>3, <3>4, <3>5 DEF SelectionStep
  <2>2. CASE ~(selected = <<>> /\ InRange(view, cursor + 1))
    <3>1. selected' = selected /\ status' # "open"
      BY <1>8, <2>2 DEF Enter
    <3> QED
      BY <1>2, <3>1
  <2> QED
    BY <2>1, <2>2
<1>9. CASE Backspace \/ Space \/ (\E ch \in Letters : InsertRune(ch)) \/ Quit
  <2>1. selected' = selected /\ status = "open"
    BY <1>9 DEF Backspace, Space, InsertRune, Quit
  <2> QED
    BY <1>2, <2>1
<1> QED
  BY <1>3, <1>5, <1>6, <1>7, <1>8, <1>9 DEF Next, Key

-----------------------------------------------------------------------------
LEMMA TypeInit == Init => TypeOK
<1>1. <<>> \in Seq(Letters \cup {Blank}) /\ <<>> \in Seq(Rows \cup {Header}) /\ Len(<<>>) = 0
  BY EmptySeq
<1>2. getFilterText(<<>>) \subseteq Rows
  BY DEF getFilterText
<1>3. 0 <= MaxKeyword
  BY ListAssumption
<1> SUFFICES ASSUME Init
             PROVE  TypeOK
  OBVIOUS
<1>4. keyword \in Seq(Letters \cup {Blank}) /\ Len(keyword) <= MaxKeyword /\ selected \in Seq(Rows \cup {Header})
  BY <1>1, <1>3 DEF Init
<1>5. view \subseteq Rows
  BY <1>2 DEF Init
<1>6. cursor \in Int
  BY DEF Init
<1>7. /\ allFlag \in BOOLEAN /\ multiFlag \in BOOLEAN
      /\ status \in {"open", "quit", "none", "chosen", "crashed"}
      /\ headed \in BOOLEAN
  BY Zenon DEF Init
<1> QED
  BY <1>4, <1>5, <1>6, <1>7 DEF TypeOK

LEMMA TypeStep ==
  ASSUME TypeOK, [Next]_vars
  PROVE  TypeOK'
<1> USE ListAssumption
<1>0. headed' \in BOOLEAN
  BY DEF TypeOK, Next, vars
<1>1. selected' \in Seq(Rows \cup {Header})
  BY SelectionKept DEF SelectionStep, Picked
<1>2. \A k : getFilterText(k) \subseteq Rows
  BY DEF getFilterText
<1>3. keyword \in Seq(Letters \cup {Blank}) /\ Len(keyword) \in Nat /\ Len(keyword) <= MaxKeyword /\ cursor \in Int
      /\ status \in {"open", "quit", "none", "chosen", "crashed"}
  BY LenProperties DEF TypeOK
<1>4. \A v, c : draw(v, c) => status' \in {"open", "quit", "none", "chosen", "crashed"}
  BY <1>3 DEF draw
<1>5. ASSUME NEW c \in Int, MoveTo(c)
      PROVE  TypeOK'
  BY <1>0, <1>1, <1>4, <1>5 DEF MoveTo, TypeOK
<1>6. CASE ArrowUp \/ ArrowDown \/ ArrowRight \/ ArrowLeft \/ \E y \in Clicks : Mouse(y)
  BY <1>5, <1>6, MovesOnly
<1>7. CASE Tab
  <2>1. cursor' \in Int
    BY <1>3, <1>7 DEF Tab
  <2>2. status' \in {"open", "quit", "none", "chosen", "crashed"}
    BY <1>4, <1>7 DEF Tab
  <2> QED
    BY <1>0, <1>1, <1>7, <2>1, <2>2 DEF Tab, TypeOK
<1>8. CASE CtrlA
  BY <1>0, <1>1, <1>4, <1>8 DEF CtrlA, TypeOK
<1>9. CASE Enter
  BY <1>0, <1>1, <1>9 DEF Enter, TypeOK
<1>10. CASE Backspace
  <2>1. keyword' = SubSeq(keyword, 1, Len(keyword) - 1) /\ keyword # <<>>
    BY <1>10 DEF Backspace, Front
  <2>2. Len(keyword) >= 1 /\ \A i \in 1..(Len(keyword) - 1) : keyword[i] \in Letters \cup {Blank}
    BY <1>3, <2>1, EmptySeq
  <2> DEFINE l == Len(keyword) - 1
  <2>3. l \in Nat
    BY <1>3, <2>2
  <2>4. SubSeq(keyword, 1, l) \in Seq(Letters \cup {Blank}) /\ Len(SubSeq(keyword, 1, l)) = IF 1 <= l THEN l - 1 + 1 ELSE 0
    <3> HIDE DEF l
    <3> QED
      BY <2>2, <2>3, SubSeqProperties DEF l
  <2>5. Len(SubSeq(keyword, 1, l)) <= MaxKeyword
    BY <1>3, <2>3, <2>4
  <2>6. keyword' \in Seq(Letters \cup {Blank}) /\ Len(keyword') <= MaxKeyword
    BY <2>1, <2>4, <2>5
  <2>7. view' \subseteq Rows /\ cursor' \in Int
    <3>1. view' = getFilterText(keyword')
      BY <1>10 DEF Backspace
    <3>2. view' \in SUBSET Rows
      BY <1>2, <3>1
    <3>3. len(view') \in Int
      BY <3>2, LenFacts
    <3> QED
      BY <1>3, <1>10, <3>2, <3>3 DEF Backspace
  <2> QED
    BY <1>0, <1>1, <1>4, <1>10, <2>6, <2>7 DEF Backspace, TypeOK
<1>11. ASSUME NEW ch \in Letters \cup {Blank}, keyword' = Append(keyword, ch), Len(keyword) < MaxKeyword
       PROVE  keyword' \in Seq(Letters \cup {Blank}) /\ Len(keyword') <= MaxKeyword
  <2>1. Append(keyword, ch) \in Seq(Letters \cup {Blank}) /\ Len(Append(keyword, ch)) = Len(keyword) + 1
    BY <1>3, AppendProperties
  <2> QED
    BY <1>3, <1>11, <2>1
<1>12. CASE Space
  <2>1. keyword' \in Seq(Letters \cup {Blank}) /\ Len(keyword') <= MaxKeyword
    BY <1>11, <1>12 DEF Space
  <2> QED
    BY <1>0, <1>1, <1>4, <1>12, <2>1 DEF Space, TypeOK
<1>13. ASSUME NEW ch \in Letters, InsertRune(ch)
       PROVE  TypeOK'
  <2>1. keyword' \in Seq(Letters \cup {Blank}) /\ Len(keyword') <= MaxKeyword
    BY <1>11, <1>13 DEF InsertRune
  <2>2. view' = getFilterText(keyword') /\ cursor' = Clamp(view') /\ draw(view', cursor')
        /\ allFlag' = FALSE /\ multiFlag' = multiFlag
    BY <1>13 DEF InsertRune
  <2>3. view' \in SUBSET Rows
    BY <1>2, <2>2
  <2>4. cursor' \in Int
    BY <1>3, <2>2, <2>3, LenFacts DEF Clamp
  <2> QED
    BY <1>0, <1>1, <1>4, <2>1, <2>2, <2>3, <2>4 DEF TypeOK
<1>14. CASE Quit \/ UNCHANGED vars
  BY <1>0, <1>14 DEF Quit, vars, TypeOK
<1> QED
  BY <1>6, <1>7, <1>8, <1>9, <1>10, <1>12, <1>13, <1>14 DEF Next, Key

(* The type invariant of the list: what was selected are rows, or the      *)
(* header.                                                                 *)
THEOREM TypeCorrect == Spec => []TypeOK
  BY TypeInit, TypeStep, PTL DEF Spec

(* For every list and sequence of keys, no name is selected twice: each    *)
(* toggle takes one out or finds it absent, also when Ctrl-A meets names   *)
(* that were selected under another keyword.                               *)
THEOREM NoneSelectedTwice == Spec => []SelectedOnce
<1> DEFINE Inv == TypeOK /\ Distinct(selected)
<1>1. Init => Inv
  BY TypeInit DEF Init, Distinct
<1>2. Inv /\ [Next]_vars => Inv'
  BY TypeStep, SelectionKept DEF SelectionStep, Distinct
<1>3. Inv => SelectedOnce
  BY DEF Distinct, SelectedOnce
<1> QED
  BY <1>1, <1>2, <1>3, PTL DEF Spec

(* A key changes the selection of rows on display only.                    *)
THEOREM HiddenRowsStay == Spec => HiddenRowsKept
<1>1. TypeOK /\ [Next]_vars => \A r \in Rows \ view : (r \in ToSet(selected)) = (r \in ToSet(selected'))
  BY SelectionKept DEF SelectionStep
<1> QED
  BY <1>1, TypeCorrect, PTL DEF Spec, HiddenRowsKept

(* A list for a single server returns at most one.                         *)
THEOREM SingleChoice == Spec => []OneServer
<1> DEFINE Inv == /\ TypeOK
                  /\ ~multiFlag => (status = "open" => selected = <<>>) /\ Len(selected) <= 1
<1>1. Init => Inv
  <2>1. Len(<<>>) = 0
    BY EmptySeq
  <2> QED
    BY <2>1, TypeInit DEF Init
<1>2. Inv /\ [Next]_vars => Inv'
  <2> SUFFICES ASSUME Inv, [Next]_vars
               PROVE  Inv'
    OBVIOUS
  <2>1. multiFlag' = multiFlag
    BY DEF Next, Key, vars, ArrowUp, ArrowDown, ArrowRight, ArrowLeft, Mouse, MoveTo, Tab, CtrlA, Enter, Backspace, Space,
           InsertRune, Quit
  <2> QED
    BY <2>1, TypeStep, SelectionKept DEF SelectionStep
<1>3. Inv => OneServer
  BY DEF OneServer
<1> QED
  BY <1>1, <1>2, <1>3, PTL DEF Spec
=============================================================================
