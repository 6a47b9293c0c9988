------------------------------ MODULE Programs ------------------------------
(***************************************************************************)
(* Six of the programs that share nothing, side by side: which one runs    *)
(* is chosen in the initial state, and only its variables change.          *)
(***************************************************************************)
EXTENDS Daemon, Sequences

CONSTANTS
  FileNames, Lines, MaxThreads, IntMax, Dash, MaxLines, MaxRotations,
  Slugs, NameOf, Graphs, Development, Wanted, MaxDepth,
  Columns,
  BufSize,
  Threads, Records, Frames

VARIABLES
  which,
  dir, rotations, counted, thrds, slots, files, log, worker, caches, totals, total, main, counter,
  dependencies, executable, command, force, global, dev, args, manifest,
  frames, visited_packages, placed, code, failed,
  stage, column, arr, capacity, prepared, stmt, db, rc, statistics, broken,
  step, options, sent, received, open, buffer, r, output, result, cut,
  log_file, unwritten, lost, log_mutex, mutex, pc, calls, part, job

Logs == INSTANCE LogDistributor WITH i <- counter
Resolve == INSTANCE PackageResolve
Sql == INSTANCE SqlStats
Figlet == INSTANCE FigletClient
Library == INSTANCE Logger WITH main <- job

ASSUME ProgramsAssumption ==
  /\ Logs!LogDistributorAssumption /\ Resolve!ResolveAssumption /\ Sql!SqlStatsAssumption
  /\ Figlet!FigletAssumption /\ Library!RecordAssumption

Beginning ==
  /\ Init /\ Logs!Init /\ Resolve!Init /\ Sql!Init /\ Figlet!Init /\ Library!Init
  /\ which # "logs" => dir = {} /\ thrds = 1
  /\ which # "resolve" => executable = {} /\ dependencies = CHOOSE g \in Graphs : TRUE

Six == {"daemon", "logs", "resolve", "sql", "figlet", "logger"}
ProgramsInit == which \in Six /\ Beginning

logsVars == <<dir, rotations, counted, thrds, slots, files, log, worker, caches, totals, total, main, counter>>
resolveVars == <<dependencies, executable, command, force, global, dev, args, manifest, frames,
                 visited_packages, placed, code, failed>>
sqlVars == <<stage, column, arr, capacity, prepared, stmt, db, rc, statistics, broken>>
figletVars == <<step, options, sent, received, open, buffer, r, output, result, cut>>
loggerVars == <<log_file, unwritten, lost, log_mutex, mutex, pc, calls, part, job>>

(* The step of a program leaves the variables of the others alone.         *)
Only(program) ==
  /\ which = program /\ UNCHANGED which
  /\ IF program = "daemon" THEN TRUE ELSE UNCHANGED vars
  /\ IF program = "logs" THEN TRUE ELSE UNCHANGED logsVars
  /\ IF program = "resolve" THEN TRUE ELSE UNCHANGED resolveVars
  /\ IF program = "sql" THEN TRUE ELSE UNCHANGED sqlVars
  /\ IF program = "figlet" THEN TRUE ELSE UNCHANGED figletVars
  /\ IF program = "logger" THEN TRUE ELSE UNCHANGED loggerVars

ProgramsNext ==
  \/ Only("daemon") /\ Next
  \/ Only("logs") /\ Logs!Next
  \/ Only("resolve") /\ Resolve!Next
  \/ Only("sql") /\ Sql!Next
  \/ Only("figlet") /\ Figlet!Next
  \/ Only("logger") /\ Library!Next

programsVars == <<vars, logsVars, resolveVars, sqlVars, figletVars, loggerVars>>
ProgramsSpec == ProgramsInit /\ [][ProgramsNext]_<<which, programsVars>>

-----------------------------------------------------------------------------
(* The properties of the modules, under the names a configuration can use. *)
BytesExact == Logs!BytesExact
ReferersExact == Logs!ReferersExact
UndefinedOnlyIf == Logs!UndefinedOnlyIf
CyclesEnd == Resolve!CyclesEnd
SuccessInstalls == Resolve!SuccessInstalls
StatisticsExact == Sql!StatisticsExact
FirstStatementLeft == Sql!FirstStatementLeft
AnswerUnlessCut == Figlet!AnswerUnlessCut
NothingLost == Library!NothingLost
=============================================================================
