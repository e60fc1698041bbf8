----------------------------- MODULE FileTree -----------------------------
(***************************************************************************)
(* The file tree of a machine, as its sftp server (or, for the local one,  *)
(* its operating system) keeps it: a function from paths to nodes.  A path *)
(* is a sequence of names from the login directory, which stands for the   *)
(* root.  The requests are external to the repository: the package         *)
(* pkg/sftp and package os answer them.  A link leads to a node that is no *)
(* link itself.                                                            *)
(***************************************************************************)
EXTENDS Integers, Sequences, FiniteSets, SequencesExt

CONSTANT Names  \* the names that occur, in alphabetical order

ASSUME NamesAssumption == Names \in Seq(STRING)

Path == Seq(Range(Names))
PathArg == [abs : BOOLEAN, p : Path]  \* a path as it is typed or kept in a link
Arg(abs, p) == [abs |-> abs, p |-> p]
Node(kind, data, to) == [kind |-> kind, data |-> data, to |-> to, mode |-> "m", own |-> <<"u", "g">>]
Directory == Node("dir", <<>>, Arg(TRUE, <<>>))
File(data) == Node("file", data, Arg(TRUE, <<>>))
Link(to) == Node("link", <<>>, to)
IsNode(x) ==
  /\ x = [kind |-> x.kind, data |-> x.data, to |-> x.to, mode |-> x.mode, own |-> x.own]
  /\ x.data \in Seq(Nat) /\ x.to \in PathArg
IsTree(t) ==
  /\ t = [q \in DOMAIN t |-> t[q]]
  /\ \A q \in DOMAIN t : q \in Path /\ IsNode(t[q])

Put(t, p, node) == [q \in DOMAIN t \cup {p} |-> IF q = p THEN node ELSE t[q]]
Is(t, p, kind) == p \in DOMAIN t /\ t[p].kind = kind
Dir(p) == IF p = <<>> THEN p ELSE Front(p)
Rel(base, p) == SubSeq(p, Len(base) + 1, Len(p))

(* The node a path leads to, following a link on the way.                  *)
Real(t, p) ==
  IF \A i \in 1..Len(p) : ~Is(t, SubSeq(p, 1, i), "link") THEN p
  ELSE LET i == CHOOSE i \in 1..Len(p) : /\ Is(t, SubSeq(p, 1, i), "link")
                                         /\ \A j \in 1..i-1 : ~Is(t, SubSeq(p, 1, j), "link")
           to == t[SubSeq(p, 1, i)].to
       IN (IF to.abs THEN <<>> ELSE SubSeq(p, 1, i - 1)) \o to.p \o SubSeq(p, i + 1, Len(p))

(* The entry itself, be it a link: what Lstat, ReadLink, Remove see.       *)
Entry(t, p) == IF p = <<>> THEN p ELSE Append(Real(t, Front(p)), p[Len(p)])

Rank(n) == CHOOSE i \in DOMAIN Names : Names[i] = n
Before(p, q) ==
  \/ p # q /\ IsPrefix(p, q)
  \/ \E i \in 1..Len(p) : /\ i <= Len(q) /\ SubSeq(p, 1, i - 1) = SubSeq(q, 1, i - 1)
                          /\ Rank(p[i]) < Rank(q[i])

(* The paths a walk of p visits, in the order of Before; links are not     *)
(* followed.                                                               *)
Walk(t, p) ==
  {p \o Rel(Entry(t, p), q) : q \in {q \in DOMAIN t : IsPrefix(Entry(t, p), q)}}

CanMkdir(t, p) == Entry(t, p) \notin DOMAIN t /\ Is(t, Dir(Entry(t, p)), "dir")
Mkdir(t, p) == IF CanMkdir(t, p) THEN Put(t, Entry(t, p), Directory) ELSE t

CanMkdirAll(t, p) ==
  LET r == Real(t, p)
  IN \A i \in 0..Len(r) : SubSeq(r, 1, i) \in DOMAIN t => t[SubSeq(r, 1, i)].kind = "dir"
MkdirAll(t, p) ==
  LET r == Real(t, p)
      new == {SubSeq(r, 1, i) : i \in 0..Len(r)} \ DOMAIN t
  IN IF CanMkdirAll(t, p) THEN [q \in DOMAIN t \cup new |-> IF q \in new THEN Directory ELSE t[q]]
     ELSE t

CanWrite(t, p) ==
  LET r == Real(t, p)
  IN Is(t, r, "file") \/ (r \notin DOMAIN t /\ Is(t, Dir(r), "dir"))
Truncated(t, p) ==
  LET r == Real(t, p)
  IN IF r \in DOMAIN t THEN [t EXCEPT ![r].data = <<>>] ELSE Put(t, r, File(<<>>))
(* Chunk c written at offset i.                                            *)
Written(t, p, i, c) ==
  [t EXCEPT ![Real(t, p)].data = IF i < Len(@) THEN [@ EXCEPT ![i + 1] = c] ELSE Append(@, c)]

CanRemove(t, p) ==
  LET e == Entry(t, p)
  IN e # <<>> /\ e \in DOMAIN t /\ ~\E q \in DOMAIN t : q # e /\ IsPrefix(e, q)
Removed(t, p) ==
  IF CanRemove(t, p) THEN [q \in DOMAIN t \ {Entry(t, p)} |-> t[q]] ELSE t

CanRename(t, old, new) ==
  LET o == Entry(t, old)  n == Entry(t, new)
  IN o # <<>> /\ o \in DOMAIN t /\ n \notin DOMAIN t /\ Is(t, Dir(n), "dir") /\ ~IsPrefix(o, n)
Rename(t, old, new) ==
  LET o == Entry(t, old)  n == Entry(t, new)
      moved == {q \in DOMAIN t : IsPrefix(o, q)}
      at == [q \in DOMAIN t |-> IF q \in moved THEN n \o Rel(o, q) ELSE q]
  IN IF ~CanRename(t, old, new) THEN t
     ELSE [p \in {at[q] : q \in DOMAIN t} |-> t[CHOOSE q \in DOMAIN t : at[q] = p]]

Symlink(t, to, p) == IF CanMkdir(t, p) THEN Put(t, Entry(t, p), Link(to)) ELSE t
Chmod(t, p, mode) == IF Real(t, p) \in DOMAIN t THEN [t EXCEPT ![Real(t, p)].mode = mode] ELSE t
Chown(t, p, own) == IF Real(t, p) \in DOMAIN t THEN [t EXCEPT ![Real(t, p)].own = own] ELSE t
=============================================================================
