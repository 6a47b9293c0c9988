----------------------------- MODULE MCPrograms -----------------------------
(***************************************************************************)
(* The nine programs of Formats, of which one is chosen in the initial     *)
(* state, with small inputs.                                               *)
(***************************************************************************)
EXTENDS Formats, TLC

CONSTANTS
  f1, f2, u1, u2, referer,         \* the logs, two URLs and a referer
  a, b, b2, c                      \* the packages

Symmetry == Permutations(Procs) \cup Permutations(FileNames) \cup Permutations(Threads)

(* A state of the chosen program is its own variables. Of a process of the *)
(* daemon that has ended nothing is looked at but its signals and its log. *)
Living(f) == [p \in Procs |-> IF at[p] = "ended" THEN "gone" ELSE f[p]]
View ==
  <<which,
    IF which = "daemon"
      THEN <<at, byInit, handled, holder, pid, size, handlerVars,
             Living(file_size), Living(waiting), Living(served), Living(answered)>>
      ELSE <<logsVars, resolveVars, sqlVars, figletVars, loggerVars, crcVars, rarVars, convVars>>>>

-----------------------------------------------------------------------------
(* Lines of a log, of which one is half of the largest int, so that the    *)
(* sum of two of them, in one log or in two, leaves it.                    *)
MCLines == {[url |-> u1, size |-> 8, ref |-> referer],
            [url |-> u2, size |-> 1, ref |-> Dash],
            [url |-> Dash, size |-> 1, ref |-> referer],
            [url |-> u2, size |-> 0, ref |-> referer]}

(* Dependencies: a cycle, a diamond, two versions of one name, a chain     *)
(* that meets itself.                                                      *)
Uses(x, y, y2, z) == (a :> x) @@ (b :> y) @@ (b2 :> y2) @@ (c :> z)
MCGraphs == {Uses({b}, {c}, {}, {a}), Uses({b, c}, {c}, {}, {}),
             Uses({b, c}, {}, {}, {b2}), Uses({b2}, {}, {c}, {b, c})}
MCNameOf == (a :> "a") @@ (b :> "b") @@ (b2 :> "b") @@ (c :> "c")
MCDevelopment == ("root" :> {b2}) @@ Uses({c}, {}, {}, {})

(* Columns of up to three rows, values at both ends of a 5-bit int and     *)
(* past one of them, and one that makes the array grow twice.              *)
Cell(type, v) == [type |-> type, value |-> v]
MCColumns ==
  LET rows == {Cell("integer", v) : v \in {-16, -3, 0, 2, 3, 7, 17}} \cup {Cell("text", 0)}
  IN UNION {[1..n -> rows] : n \in 0..3}
     \cup {<<Cell("integer", 1), Cell("integer", -2), Cell("integer", 1), Cell("integer", 2), Cell("integer", 1)>>}

(* Every byte by itself, so that every entry of the table is used; the     *)
(* four bytes that leave a register of all ones; files of a whole number   *)
(* of pages and others.                                                    *)
AllOnesAgain == <<157, 10, 217, 109>>
MCContents ==
  {<<n>> : n \in 0..255}
  \cup {<<>>, <<1, 2, 3, 4>>, <<49, 50, 51, 52, 53, 54, 55, 56, 57>>, AllOnesAgain,
        <<157, 10, 217>>, AllOnesAgain \o <<1>>, <<1>> \o AllOnesAgain}

(* Pictures that are none, plain ones, one with a fill byte before its end *)
(* marker, one with a picture in it, one without an end; archives of up to *)
(* two files, with and without a comment, one whose record counts three,   *)
(* one with a zero in a name.                                              *)
Zeros(n) == [k \in 1..n |-> 0]
CentralEntry(name, extra) ==
  <<80, 75, 1, 2>> \o Zeros(24) \o <<Len(name), 0, Len(extra), 0, 0, 0>> \o Zeros(12) \o name \o extra
EndOfArchive(n, offset, comment) ==
  <<80, 75, 5, 6, 0, 0, 0, 0, n, 0, n, 0, 0, 0, 0, 0, offset, 0, 0, 0, Len(comment), 0>> \o comment
Archive(entries, n, comment, namesIn, places) ==
  [bytes |-> (IF entries = <<>> THEN <<>> ELSE Rar!LocalHeader \o Zeros(3)) \o entries
             \o EndOfArchive(n, IF entries = <<>> THEN 0 ELSE 7, comment),
   names |-> namesIn, end |-> 7 + Len(entries), at |-> places]
MCPictures ==
  {<<>>, <<255>>, <<255, 216>>, <<255, 216, 255, 217>>, <<255, 216, 1, 255, 0, 2, 255, 217>>,
   <<255, 216, 255, 255, 217>>, <<255, 216, 255, 217, 3, 255, 217>>,
   <<255, 216, 217, 255, 216, 217>>, <<7, 7, 7, 7, 7>>}
MCArchives ==
  LET one == CentralEntry(<<65>>, <<9>>)
      two == CentralEntry(<<65, 66>>, <<>>) \o CentralEntry(<<67>>, <<9>>)
      comments == {<<>>, <<33>>, <<255, 217>>}
  IN {[bytes |-> <<>>, names |-> <<>>, end |-> 0, at |-> <<>>], Archive(one, 3, <<>>, <<>>, <<>>)}
     \cup {Archive(<<>>, 0, x, <<>>, <<>>) : x \in comments}
     \cup {Archive(one, 1, x, <<<<65>>>>, <<7, 55>>) : x \in comments}
     \cup {Archive(CentralEntry(<<65, 0, 66>>, <<>>), 1, <<>>, <<<<65, 0, 66>>>>, <<7, 56>>)}
     \cup {Archive(two, 2, x, <<<<65, 66>>, <<67>>>>, <<7, 55, 103>>) : x \in comments}
MCBeyond == {<<>>, <<63, 0, 63>>}
MCRests == {<<>>, <<0>>, <<255, 217>>, Zeros(22)}
=============================================================================
