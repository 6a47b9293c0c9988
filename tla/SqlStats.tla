------------------------------ MODULE SqlStats ------------------------------
(***************************************************************************)
(* The statistics of a column of an sqlite table (src/HW15): a first       *)
(* statement looks at the type of one row, a second reads the column into  *)
(* an array that doubles as it fills, and the sums are kept in int. The    *)
(* labels st and db of main() are stages.                                  *)
(***************************************************************************)
EXTENDS Integers, Sequences, SequencesExt

CONSTANTS
  Columns,      \* bound: what the column holds, as rows [type, value]
  IntMax        \* the largest int: 2^31 - 1

SqlStatsAssumption ==
  IntMax \in Nat /\ Columns \subseteq Seq([type : STRING, value : Int])

\* what is left of v in an int
ToInt(v) == ((v + IntMax + 1) % (2 * (IntMax + 1))) - IntMax - 1

NoStatistics == [count |-> 0]

VARIABLES
  stage,        \* where main() is
  column,       \* the rows of the table that are not null
  arr, capacity,\* select_column's array, as far as it is filled, and its room
  prepared,     \* statements prepared and not finalized
  stmt,         \* the variable main() finalizes holds a statement
  db,           \* the connection
  rc,           \* the exit code, once there is one
  statistics,   \* what has been printed
  broken           \* sqlite3_step ended the rows by an error

vars == <<stage, column, arr, capacity, prepared, stmt, db, rc, statistics, broken>>

Init ==
  /\ stage = "main" /\ column = <<>> /\ arr = <<>> /\ capacity = 2
  /\ prepared = 0 /\ stmt = FALSE /\ db = "none"
  /\ rc = 0 /\ statistics = NoStatistics /\ broken = FALSE

Exits(code) == rc' = code /\ stage' = "exited"

(* get_params and the comparison of the type; then init() opens the file.  *)
Open(rows) ==
  /\ stage = "main" /\ column' = rows
  /\ \/ Exits(1) /\ UNCHANGED db                        \* the config file, or the type, is wrong
     \/ Exits(1) /\ db' = "left"                        \* ERR_NOTOPEN
     \/ db' = "open" /\ stage' = "init" /\ UNCHANGED rc
  /\ UNCHANGED <<arr, capacity, prepared, stmt, statistics, broken>>

(* The rest of init(): a type that is no prefix of "integer", or no row,   *)
(* ends the program. Only one row is looked at.                            *)
PrepareType ==
  /\ stage = "init"
  /\ \/ rc' \in {2, 3} /\ stage' = "db" /\ UNCHANGED <<prepared, stmt>>
     \/ /\ prepared' = prepared + 1 /\ stmt' = TRUE
        /\ \/ rc' = 5 /\ stage' = "st"                  \* no row, or the step failed
           \/ /\ column # <<>>
              /\ IF column[1].type = "integer" THEN rc' = 1 /\ stage' = "prepare"
                                               ELSE rc' = 4 /\ stage' = "st"
  /\ UNCHANGED <<column, arr, capacity, db, statistics, broken>>

(* The second statement goes to the variable of the first.                 *)
Prepare ==
  /\ stage = "prepare"
  /\ \/ stage' = "st" /\ UNCHANGED <<prepared, stmt>>   \* the query cannot be formatted
     \/ stage' = "db" /\ stmt' = FALSE /\ UNCHANGED prepared
     \/ stage' = "select" /\ stmt' = TRUE /\ prepared' = prepared + 1
     \/ stage' = "st" /\ stmt' = TRUE /\ prepared' = prepared + 1     \* no memory for the array
  /\ UNCHANGED <<column, arr, capacity, db, rc, statistics, broken>>

(* One round of select_column. A value that is no integer is converted by  *)
(* sqlite3_column_int, one that is too wide loses its upper bits.          *)
Row ==
  /\ stage = "select" /\ Len(arr) < Len(column)
  /\ capacity' = IF Len(arr) = capacity THEN 2 * capacity ELSE capacity
  /\ arr' = Append(arr, ToInt(column[Len(arr) + 1].value))
  /\ UNCHANGED <<stage, column, prepared, stmt, db, rc, statistics, broken>>

(* No memory for a longer array, or for the list that is returned.         *)
NoMemory ==
  /\ stage = "select" /\ arr # <<>> /\ stage' = "st"
  /\ UNCHANGED <<column, arr, capacity, prepared, stmt, db, rc, statistics, broken>>

(* The loop of main() over the array.                                      *)
Least_FromZero(s) == FoldLeft(LAMBDA a, b : IF b < a THEN b ELSE a, 0, s)
Least(s) == FoldLeft(LAMBDA a, b : IF b < a THEN b ELSE a, s[1], s)
Greatest(s) == FoldLeft(LAMBDA a, b : IF b > a THEN b ELSE a, s[1], s)
IntSum(s) == FoldLeft(LAMBDA a, b : ToInt(a + b), 0, s)
IntSquares(s) == FoldLeft(LAMBDA a, b : ToInt(a + ToInt(b * b)), 0, s)

(* The rows have ended, by SQLITE_DONE or by any error, which looks the    *)
(* same; the array, if it holds anything, becomes the statistics.          *)
Statistics ==
  /\ stage = "select" /\ broken' \in {Len(arr) < Len(column), TRUE} /\ stage' = "st"
  /\ IF arr = <<>> THEN UNCHANGED <<rc, statistics>>
     ELSE /\ rc' = 0
          /\ statistics' = [count |-> Len(arr), min |-> Least(arr), max |-> Greatest(arr),
                            s1 |-> IntSum(arr), s2 |-> IntSquares(arr)]
  /\ UNCHANGED <<column, arr, capacity, prepared, stmt, db>>

Finalize_Skipped ==
  /\ stage = "st" /\ stage' = "db"
  /\ UNCHANGED <<column, arr, capacity, prepared, stmt, db, rc, statistics, broken>>

Finalize ==
  /\ stage = "st" /\ stage' = "db" /\ stmt' = FALSE
  /\ prepared' = IF stmt THEN prepared - 1 ELSE prepared
  /\ UNCHANGED <<column, arr, capacity, db, rc, statistics, broken>>

(* sqlite3_close refuses while a statement is left, and nobody looks.      *)
Close ==
  /\ stage = "db" /\ db' = IF prepared > 0 THEN "left" ELSE "closed"
  /\ stage' = "exited"
  /\ UNCHANGED <<column, arr, capacity, prepared, stmt, rc, statistics, broken>>

Next == \/ \E rows \in Columns : Open(rows)
        \/ PrepareType \/ Prepare \/ Row \/ NoMemory \/ Statistics \/ Finalize \/ Close

Spec == Init /\ [][Next]_vars

-----------------------------------------------------------------------------
(* Exit code 0 goes with statistics, and they are those of the column:     *)
(* count, least and greatest of all its rows unless a step failed or a     *)
(* value is wider than int; the sums, and so the average and a deviation   *)
(* that is a number, unless they leave int.                                *)
Exactly(v) == ToInt(v) = v
StatisticsExact ==
  LET rows == 1..Len(column)
      value(n) == column[n].value
      sum[n \in 0..Len(column)] == IF n = 0 THEN 0 ELSE sum[n - 1] + value(n)
      squares[n \in 0..Len(column)] == IF n = 0 THEN 0 ELSE squares[n - 1] + value(n) * value(n)
  IN /\ stage = "exited" => (rc = 0) = (statistics # NoStatistics)
     /\ statistics # NoStatistics /\ ~broken /\ (\A n \in rows : Exactly(value(n))) =>
          /\ statistics.count = Len(column)
          /\ \A n \in rows : statistics.min <= value(n) /\ value(n) <= statistics.max
          /\ {statistics.min, statistics.max} \subseteq {value(n) : n \in rows}
          /\ (\A n \in rows : Exactly(sum[n]) /\ Exactly(squares[n])) =>
               /\ statistics.s1 = sum[Len(column)]
               /\ statistics.s2 * Len(column) >= statistics.s1 * statistics.s1

(* At most the statement that looked at the type is left when the program  *)
(* ends, and only when it went on to prepare the second one in the same    *)
(* variable, for a column of integers; the connection then stays open.     *)
(* Where no statement is left, nothing was printed.                        *)
FirstStatementLeft ==
  stage = "exited" =>
    /\ prepared <= 1
    /\ prepared = 1 => column # <<>> /\ column[1].type = "integer" /\ db = "left"
    /\ prepared = 0 => statistics = NoStatistics
=============================================================================
