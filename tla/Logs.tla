--------------------------------- MODULE Logs ---------------------------------
(***************************************************************************)
(* The log of conf/showlog.c: threads of one or more processes write lines *)
(* into the file of the day, and the files are used again after some days. *)
(* stderr is the log; a process has one file open at a time.               *)
(*                                                                         *)
(* A file is a sequence of lines, all of one length.                       *)
(***************************************************************************)
EXTENDS Integers, Sequences, FiniteSets

CONSTANTS
  Procs,     \* the processes
  Writers,   \* the threads of each
  Cycle,     \* days after which a file is used again (7, or a month)
  LastDay,   \* (a bound of the model)
  MaxLines,  \* lines that are written (a bound of the model)
  NoFile     \* LOGFILE before the first line, stderr before that and as /dev/null

ASSUME LogAssumption ==
  /\ IsFiniteSet(Procs) /\ IsFiniteSet(Writers) /\ Cycle \in Nat \ {0}
  /\ LastDay \in Nat /\ MaxLines \in Nat /\ NoFile \notin 0 .. Cycle - 1

VARIABLES
  day,      \* the date
  file,     \* file[f]: the lines of file f
  ctime,    \* ctime[f]: the day file f was changed last, -1: there is none
  LOGFILE,  \* LOGFILE[p]: the file of process p
  stderr,   \* stderr[p]: the file its stderr is
  appends,  \* appends[p]: its stderr was opened with "a"
  offset,   \* offset[p]: the lines before its place in the file
  stage,     \* stage[l]: "out", "set", "open", "write"
  tim,      \* tim[l]: the day l took for today
  mode,     \* mode[l]: how it opens the file
  logged    \* the lines ShowLog has written to a file: [line, file, day]

logVars == <<day, file, ctime, LOGFILE, stderr, appends, offset, stage, tim, mode, logged>>

Loggers == Procs \X Writers
Files == 0 .. Cycle - 1

LogInit ==
  /\ day = 0 /\ file = [f \in Files |-> <<>>] /\ ctime = [f \in Files |-> -1]
  /\ LOGFILE = [p \in Procs |-> NoFile] /\ stderr = [p \in Procs |-> NoFile]
  /\ appends = [p \in Procs |-> FALSE] /\ offset = [p \in Procs |-> 0]
  /\ stage = [l \in Loggers |-> "out"] /\ tim = [l \in Loggers |-> 0]
  /\ mode = [l \in Loggers |-> "a"]
  /\ logged = {}

-----------------------------------------------------------------------------
\* Nobody of the process has log_mutex.
Unlocked(p) == \A w \in Writers : stage[<<p, w>>] # "open"

Begun == Cardinality({l \in Loggers : stage[l] # "out"})

ShowLog(l) ==
  /\ stage[l] = "out" /\ Cardinality(logged) + Begun < MaxLines
  /\ stage' = [stage EXCEPT ![l] = "set"] /\ tim' = [tim EXCEPT ![l] = day]
  /\ UNCHANGED <<day, file, ctime, LOGFILE, stderr, appends, offset, mode, logged>>

FileOf(today) == today % Cycle

\* fseek(stderr, 0, SEEK_END)
Sought(p) == IF stderr[p] \in Files THEN Len(file[stderr[p]]) ELSE 0

\* setlogfile: the file is the one it opened last; the end of stderr is sought.
SameFile(l) ==
  /\ stage[l] = "set" /\ Unlocked(l[1]) /\ LOGFILE[l[1]] = FileOf(tim[l])
  /\ offset' = [offset EXCEPT ![l[1]] = Sought(l[1])]
  /\ stage' = [stage EXCEPT ![l] = "write"]
  /\ UNCHANGED <<day, file, ctime, LOGFILE, stderr, appends, tim, mode, logged>>

\* Mutant: a file that was changed today is old too.
OldFromToday(f, today) == ctime[f] < 0 \/ today >= ctime[f]

\* There is no such file, or it is from an earlier day.
Old(f, today) == ctime[f] < 0 \/ today > ctime[f]

\* It is another file: stat says how it is to be opened.
OtherFile(l) ==
  LET f == FileOf(tim[l]) IN
  /\ stage[l] = "set" /\ Unlocked(l[1]) /\ LOGFILE[l[1]] # f
  /\ LOGFILE' = [LOGFILE EXCEPT ![l[1]] = f]
  /\ mode' = [mode EXCEPT ![l] = IF Old(f, tim[l]) THEN "w" ELSE "a"]
  /\ stage' = [stage EXCEPT ![l] = "open"]
  /\ UNCHANGED <<day, file, ctime, stderr, appends, offset, tim, logged>>

\* freopen: "w" leaves nothing of the file.
Open(l) ==
  LET f == LOGFILE[l[1]] IN
  /\ stage[l] = "open"
  /\ stderr' = [stderr EXCEPT ![l[1]] = f]
  /\ appends' = [appends EXCEPT ![l[1]] = mode[l] = "a"]
  /\ offset' = [offset EXCEPT ![l[1]] = 0]
  /\ file' = [file EXCEPT ![f] = IF mode[l] = "w" THEN <<>> ELSE @]
  /\ ctime' = [ctime EXCEPT ![f] = IF mode[l] = "w" THEN day ELSE @]
  /\ stage' = [stage EXCEPT ![l] = "write"]
  /\ UNCHANGED <<day, LOGFILE, tim, mode, logged>>

\* freopen fails: stderr is /dev/null until another file is opened.
OpenFails(l) ==
  /\ stage[l] = "open"
  /\ stderr' = [stderr EXCEPT ![l[1]] = NoFile]
  /\ offset' = [offset EXCEPT ![l[1]] = 0]
  /\ stage' = [stage EXCEPT ![l] = "write"]
  /\ UNCHANGED <<day, file, ctime, LOGFILE, appends, tim, mode, logged>>

\* ShowLog(-1, ...): the next line opens its file again.
ForgetFile(p) ==
  /\ Unlocked(p)
  /\ LOGFILE' = [LOGFILE EXCEPT ![p] = NoFile]
  /\ UNCHANGED <<day, file, ctime, stderr, appends, offset, stage, tim, mode, logged>>

\* The line is written to the file that is open now: at its end if that was opened
\* with "a", else where the process is in it.
WriteLine(l) ==
  LET p == l[1]
      f == stderr[p]
      line == Cardinality(logged)
      at == IF appends[p] THEN Len(file[f]) ELSE offset[p]
  IN
  /\ stage[l] = "write" /\ Unlocked(p) /\ f \in Files
  /\ file' = [file EXCEPT ![f] =
                IF at < Len(@) THEN [@ EXCEPT ![at + 1] = line] ELSE Append(@, line)]
  /\ offset' = [offset EXCEPT ![p] = at + 1]
  /\ ctime' = [ctime EXCEPT ![f] = day]
  /\ logged' = logged \cup {[line |-> line, file |-> f, day |-> day]}
  /\ stage' = [stage EXCEPT ![l] = "out"]
  /\ UNCHANGED <<day, LOGFILE, stderr, appends, tim, mode>>

\* Or to no file.
WriteNowhere(l) ==
  /\ stage[l] = "write" /\ Unlocked(l[1]) /\ stderr[l[1]] = NoFile
  /\ stage' = [stage EXCEPT ![l] = "out"]
  /\ UNCHANGED <<day, file, ctime, LOGFILE, stderr, appends, offset, tim, mode, logged>>

Tomorrow ==
  /\ day < LastDay /\ day' = day + 1
  /\ UNCHANGED <<file, ctime, LOGFILE, stderr, appends, offset, stage, tim, mode, logged>>

LogNext ==
  \/ Tomorrow
  \/ \E l \in Loggers :
       \/ ShowLog(l) \/ SameFile(l) \/ OtherFile(l) \/ Open(l) \/ OpenFails(l)
       \/ WriteLine(l) \/ WriteNowhere(l)
  \/ \E p \in Procs : ForgetFile(p)

LogSpec == LogInit /\ [][LogNext]_logVars

-----------------------------------------------------------------------------
(* Properties. *)

\* The day the file of a line is used again has come.
Due(e) == \E d \in e.day + 1 .. day : FileOf(d) = e.file

\* A line that ShowLog has written to a file stays in its file until the file is used again,
\* though threads that took the time before midnight write after it and the file is
\* changed forth and back (showlog.c:186-206, 271-274).
LinesKept ==
  \A e \in logged : ~Due(e) => \E i \in DOMAIN file[e.file] : file[e.file][i] = e.line
=============================================================================
