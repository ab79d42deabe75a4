------------------------------- MODULE DataProofs ------------------------------
(***************************************************************************)
(* Proofs about data that grow.                                            *)
(*                                                                         *)
(* Buffers: nothing is written behind a buffer, whatever sizes it starts    *)
(* with and whatever is appended, unless it is put far behind the end.     *)
(*                                                                         *)
(* Logs: the threads of one process, any number of them, lose no line of a *)
(* day before its file is used again.                                      *)
(*                                                                         *)
(* Rings: any number of task blocks, connections and queues, linked into   *)
(* rings, are the lines of the module Lines.                               *)
(*                                                                         *)
(* Pattern: structures with any columns are laid out as the compiler does, *)
(* an index of any names under any hash function finds the first column of *)
(* a name, and the columns of a list are copied, and no others.            *)
(*                                                                         *)
(* BBTree: a balanced tree of any numbers keeps its order and its depths   *)
(* through insertions and deletions, and its queries find what they say.   *)
(*                                                                         *)
(* Search: the binary searches of a sorted array of any length and the     *)
(* static hash table of an array of any length, under any hash function,   *)
(* find what is there and nothing else.                                    *)
(***************************************************************************)
EXTENDS Buffers, Logs, Rings, Pattern, BBTree, Search, FrameProofs

-----------------------------------------------------------------------------
(* Buffers. *)

BufferTypeOK ==
  /\ pb \in [size : Nat \ {0}, bpos : Nat] /\ ended \in BOOLEAN
  /\ arr \in [size : Nat \ {0}, length : Nat]
  /\ reach \in [pb : Nat, arr : Nat] /\ jumped \in BOOLEAN

BufferInv == BufferTypeOK /\ BuffersHold

LEMMA BufferStart == BufferInit => BufferInv
<1> SUFFICES ASSUME BufferInit PROVE BufferInv
  OBVIOUS
<1> USE BufferAssumption DEF BufferInit
<1>1. PrintSize > 0 /\ ListSize > 0
  OBVIOUS
<1>2. BufferTypeOK
  BY DEF BufferTypeOK
<1>3. BuffersHold
  BY <1>1 DEF BuffersHold
<1> QED BY <1>2, <1>3 DEF BufferInv

\* An element at any place.
LEMMA PutStep ==
  ASSUME BufferInv, NEW idx \in Nat, array_list_put_idx(idx)
  PROVE  BufferInv'
<1>1. BufferTypeOK /\ BuffersHold
  BY DEF BufferInv
<1>2. PICK s \in Nat \ {0}, l \in Nat : s = arr.size /\ l = arr.length
  BY <1>1 DEF BufferTypeOK
<1>3. PICK n \in Nat \ {0} :
        /\ n = Expanded(idx)
        /\ idx < s => n = s
        /\ s <= idx => n >= s + 1
        /\ idx < n \/ (idx = n /\ idx >= 2 * s)
  BY <1>2 DEF Expanded, Roomier
<1>4. PICK m \in Nat : m = Roomier(l, idx + 1) /\ (m = l \/ m = idx + 1)
  BY DEF Roomier
<1>5. /\ arr' = [size |-> n, length |-> m] /\ reach' = [reach EXCEPT !.arr = idx]
      /\ jumped' = (jumped \/ idx >= 2 * s) /\ pb' = pb /\ ended' = ended
  BY <1>2, <1>3, <1>4 DEF array_list_put_idx
<1>6. PICK far \in BOOLEAN : far <=> (jumped \/ idx >= 2 * s)
  OBVIOUS
<1>7. jumped' = far
  BY <1>5, <1>6
<1>8. BufferTypeOK'
  BY <1>1, <1>5, <1>7 DEF BufferTypeOK
<1>9. arr'.size = n /\ arr'.length = m /\ reach'.arr = idx /\ reach'.pb = reach.pb
  BY <1>1, <1>5 DEF BufferTypeOK
<1>10. reach'.arr < arr'.size \/ (jumped' /\ reach'.arr = arr'.size)
  BY <1>3, <1>6, <1>7, <1>9
<1>11. arr'.length <= arr'.size \/ (jumped' /\ arr'.length = arr'.size + 1)
  <2>1. l <= s \/ (far /\ l = s + 1)
    BY <1>1, <1>2, <1>6 DEF BuffersHold
  <2>2. CASE m = idx + 1
    BY <1>3, <1>6, <1>7, <1>9, <2>2
  <2>3. CASE m = l
    BY <1>3, <1>7, <1>9, <2>1, <2>3
  <2> QED BY <1>4, <2>2, <2>3
<1>12. BuffersHold'
  BY <1>1, <1>5, <1>9, <1>10, <1>11 DEF BuffersHold
<1> QED BY <1>8, <1>12 DEF BufferInv

\* Twice the size, or room for the text, its end and seven bytes more.
LEMMA BufferStep == BufferInv /\ [BufferNext]_bufferVars => BufferInv'
<1> SUFFICES ASSUME BufferInv, [BufferNext]_bufferVars PROVE BufferInv'
  OBVIOUS
<1> USE BufferAssumption
<1>1. CASE printbuf_memappend
  <2> USE DEF BufferInv, BufferTypeOK, BuffersHold
  <2>1. PICK n \in Lengths : /\ pb' = [size |-> Grown(n), bpos |-> pb.bpos + n]
                             /\ reach' = [reach EXCEPT !.pb = pb.bpos + n]
    BY <1>1 DEF printbuf_memappend
  <2>2. n \in Nat
    OBVIOUS
  <2>3. Grown(n) \in Nat /\ pb.bpos + n < Grown(n)
    BY <2>2 DEF Grown, Roomier
  <2>4. ended' = TRUE /\ arr' = arr /\ jumped' = jumped
    BY <1>1 DEF printbuf_memappend
  <2> QED BY <2>1, <2>2, <2>3, <2>4
<1>2. CASE printbuf_reset
  BY <1>2 DEF printbuf_reset, BufferInv, BufferTypeOK, BuffersHold
<1>3. CASE array_list_add
  <2>1. arr.length \in Nat
    BY DEF BufferInv, BufferTypeOK
  <2> QED BY <1>3, <2>1, PutStep DEF array_list_add
<1>4. CASE \E idx \in 0 .. MaxGathered - 1 : array_list_put_idx(idx)
  BY <1>4, PutStep
<1>5. CASE UNCHANGED bufferVars
  BY <1>5 DEF bufferVars, BufferInv, BufferTypeOK, BuffersHold
<1> QED BY <1>1, <1>2, <1>3, <1>4, <1>5 DEF BufferNext

\* A printbuf is never written behind its end, and an array_list only by an element put
\* at a place twice as far as it reaches, which lies just behind what it grows to
\* (printbuf.c:48-67, arraylist.c:61-86).
THEOREM BuffersSafe == BufferSpec => []BuffersHold
<1>1. BufferInv => BuffersHold
  BY DEF BufferInv
<1> QED BY <1>1, BufferStart, BufferStep, PTL DEF BufferSpec

-----------------------------------------------------------------------------
(* Logs. *)

\* The log of one process; two that share a file do lose lines.
OneProcess == \A p, q \in Procs : p = q

\* logged is finite: a line is numbered by what was logged before.
LogTypes ==
  /\ day \in Nat /\ file \in [Files -> Seq(Nat)] /\ ctime \in [Files -> Int]
  /\ LOGFILE \in [Procs -> Files \cup {NoFile}] /\ stderr \in [Procs -> Files \cup {NoFile}]
  /\ appends \in [Procs -> BOOLEAN] /\ offset \in [Procs -> Nat]
  /\ stage \in [Loggers -> {"out", "set", "open", "write"}]
  /\ tim \in [Loggers -> Nat] /\ mode \in [Loggers -> {"a", "w"}]
  /\ logged \subseteq [line : Nat, file : Files, day : Nat] /\ IsFiniteSet(logged)

\* Nobody took a day for today that is still to come.
PastOnly ==
  /\ \A l \in Loggers : tim[l] <= day
  /\ \A f \in Files : ctime[f] <= day

\* Who opens a file is alone, and empties it only when it was last changed before
\* the day it is opened for.
Opening ==
  \A l \in Loggers : stage[l] = "open" =>
    /\ LOGFILE[l[1]] = FileOf(tim[l])
    /\ mode[l] = "w" => ctime[LOGFILE[l[1]]] < tim[l]
    /\ \A m \in Loggers : stage[m] = "open" => m = l

\* The process is at the end of its file, unless the file is appended to.
AtEnd ==
  \A p \in Procs :
    stderr[p] \in Files /\ ~appends[p] /\ Unlocked(p) => offset[p] = Len(file[stderr[p]])

\* A file is not older than its lines.
Dated == \A e \in logged : e.day <= ctime[e.file]

LogInv == LogTypes /\ PastOnly /\ Opening /\ AtEnd /\ Dated /\ LinesKept

LEMMA FileOfDay == \A d \in Nat : FileOf(d) \in Files
BY LogAssumption DEF FileOf, Files

LEMMA LogStart == LogInit => LogInv
<1> SUFFICES ASSUME LogInit PROVE LogInv
  OBVIOUS
<1> USE DEF LogInit
<1>1. LogTypes
  BY FS_EmptySet DEF LogTypes
<1>2. \A p \in Procs : stderr[p] \notin Files
  BY LogAssumption DEF Files
<1>3. PastOnly /\ Dated /\ LinesKept
  BY DEF PastOnly, Dated, LinesKept
<1>4. Opening /\ AtEnd
  BY <1>2 DEF Opening, AtEnd
<1> QED BY <1>1, <1>3, <1>4 DEF LogInv

\* What is said of the lines does not change with the rest.
LEMMA LinesStand ==
  ASSUME LogInv, day' \in Nat, day <= day', logged' = logged, file' = file, ctime' = ctime
  PROVE  Dated' /\ LinesKept'
<1>1. Dated'
  BY DEF LogInv, Dated
<1>2. ASSUME NEW e \in logged, Due(e) PROVE Due(e)'
  BY <1>2 DEF LogInv, LogTypes, Due, FileOf
<1>3. LinesKept'
  BY <1>2 DEF LogInv, LinesKept
<1> QED BY <1>1, <1>3

LEMMA TomorrowStep ==
  ASSUME LogInv, Tomorrow
  PROVE  LogInv'
<1> USE DEF LogInv, Tomorrow
<1>1. day' \in Nat /\ day <= day'
  BY DEF LogTypes
<1>2. LogTypes' /\ PastOnly'
  BY <1>1 DEF LogTypes, PastOnly
<1>3. Opening' /\ AtEnd'
  BY DEF Opening, AtEnd, Unlocked, FileOf
<1> QED BY <1>1, <1>2, <1>3, LinesStand

LEMMA ShowLogStep ==
  ASSUME LogInv, NEW l \in Loggers, ShowLog(l)
  PROVE  LogInv'
<1> USE DEF LogInv, ShowLog
<1>1. LogTypes' /\ PastOnly'
  BY DEF LogTypes, PastOnly
<1>2. \A m \in Loggers : /\ stage'[m] \in {"open", "write"} => stage[m] = stage'[m] /\ tim'[m] = tim[m]
                         /\ stage[m] = "open" => stage'[m] = "open"
  BY DEF LogTypes
<1>3. Opening'
  BY <1>2 DEF Opening, FileOf
<1>4. \A p \in Procs, w \in Writers : <<p, w>> \in Loggers
  BY DEF Loggers
<1>5. AtEnd'
  BY <1>2, <1>4 DEF AtEnd, Unlocked
<1> QED BY <1>1, <1>3, <1>5, LinesStand DEF LogTypes

LEMMA SameFileStep ==
  ASSUME OneProcess, LogInv, NEW l \in Loggers, SameFile(l)
  PROVE  LogInv'
<1> USE DEF LogInv, SameFile
<1>1. l[1] \in Procs /\ tim[l] \in Nat
  BY DEF Loggers, LogTypes
<1>2. Sought(l[1]) \in Nat
  BY <1>1 DEF Sought, LogTypes
<1>3. LogTypes' /\ PastOnly'
  BY <1>1, <1>2 DEF LogTypes, PastOnly
<1>4. \A m \in Loggers : (stage'[m] = "open" <=> stage[m] = "open") /\ (m # l => stage'[m] = stage[m])
  BY DEF LogTypes
<1>5. Opening'
  BY <1>2, <1>4 DEF Opening, FileOf
<1>6. AtEnd'
  <2> SUFFICES ASSUME NEW p \in Procs
               PROVE  stderr'[p] \in Files => offset'[p] = Len(file'[stderr'[p]])
    BY DEF AtEnd
  <2>1. p = l[1]
    BY <1>1 DEF OneProcess
  <2> QED BY <1>1, <2>1 DEF LogTypes, Sought
<1> QED BY <1>3, <1>5, <1>6, LinesStand DEF LogTypes

LEMMA OtherFileStep ==
  ASSUME OneProcess, LogInv, NEW l \in Loggers, OtherFile(l)
  PROVE  LogInv'
<1> USE DEF LogInv
<1> DEFINE f == FileOf(tim[l])
<1>1. /\ stage[l] = "set" /\ Unlocked(l[1])
      /\ LOGFILE' = [LOGFILE EXCEPT ![l[1]] = f]
      /\ mode' = [mode EXCEPT ![l] = IF Old(f, tim[l]) THEN "w" ELSE "a"]
      /\ stage' = [stage EXCEPT ![l] = "open"]
      /\ UNCHANGED <<day, file, ctime, stderr, appends, offset, tim, logged>>
  BY DEF OtherFile
<1>2. l[1] \in Procs /\ tim[l] \in Nat /\ f \in Files
  BY FileOfDay DEF Loggers, LogTypes
<1>3. \A m \in Loggers : stage[m] # "open" /\ m[1] = l[1]
  BY <1>1, <1>2 DEF Loggers, Unlocked, OneProcess
<1>4. mode'[l] = "w" => ctime[f] < tim[l]
  BY <1>1, <1>2 DEF Old, LogTypes
<1> HIDE DEF f
<1>5. LogTypes' /\ PastOnly'
  BY <1>1, <1>2 DEF LogTypes, PastOnly
<1>6. LOGFILE'[l[1]] = f /\ stage'[l] = "open" /\ \A m \in Loggers : m # l => stage'[m] = stage[m]
  BY <1>1, <1>2 DEF LogTypes
<1>7. Opening'
  <2>1. f = FileOf(tim'[l])
    BY <1>1 DEF f
  <2> SUFFICES ASSUME NEW m \in Loggers, stage'[m] = "open"
               PROVE  /\ LOGFILE'[m[1]] = FileOf(tim'[m])
                      /\ mode'[m] = "w" => ctime'[LOGFILE'[m[1]]] < tim'[m]
                      /\ \A n \in Loggers : stage'[n] = "open" => n = m
    BY DEF Opening, FileOf
  <2>2. LOGFILE'[m[1]] = f
    BY <1>3, <1>6
  <2>3. stage'[m] = "open" => m = l
    BY <1>3, <1>6
  <2>4. \A n \in Loggers : stage'[n] = "open" => n = l
    BY <1>3, <1>6
  <2> QED BY <1>1, <1>2, <1>4, <2>1, <2>2, <2>3, <2>4
<1>8. AtEnd'
  <2>1. PICK p \in Procs, w \in Writers : l = <<p, w>>
    BY DEF Loggers
  <2>2. \A q \in Procs : ~Unlocked(q)'
    BY <1>6, <2>1 DEF OneProcess, Unlocked
  <2> QED BY <2>2 DEF AtEnd
<1> QED BY <1>1, <1>5, <1>7, <1>8, LinesStand DEF LogTypes

\* A file is emptied on a day it is used again.
LEMMA OpenStep ==
  ASSUME OneProcess, LogInv, NEW l \in Loggers, Open(l)
  PROVE  LogInv'
<1> USE DEF LogInv
<1> DEFINE f == LOGFILE[l[1]]
<1>1. /\ stage[l] = "open"
      /\ appends' = [appends EXCEPT ![l[1]] = mode[l] = "a"]
      /\ offset' = [offset EXCEPT ![l[1]] = 0]
      /\ file' = [file EXCEPT ![f] = IF mode[l] = "w" THEN <<>> ELSE @]
      /\ ctime' = [ctime EXCEPT ![f] = IF mode[l] = "w" THEN day ELSE @]
      /\ stage' = [stage EXCEPT ![l] = "write"]
      /\ UNCHANGED <<day, LOGFILE, tim, mode, logged>>
      /\ stderr' = [stderr EXCEPT ![l[1]] = f]
  BY DEF Open
<1>2. l[1] \in Procs /\ f \in Files /\ f = FileOf(tim[l]) /\ (mode[l] = "w" => ctime[f] < tim[l])
  BY <1>1, FileOfDay DEF Loggers, Opening, LogTypes
<1>3. \A m \in Loggers : stage[m] = "open" => m = l
  BY <1>1 DEF Opening
<1>4. \A m \in Loggers : m[1] = l[1]
  BY DEF Loggers, OneProcess
<1> HIDE DEF f
<1>5. stage'[l] = "write" /\ \A m \in Loggers : stage'[m] # "open" /\ (m # l => stage'[m] = stage[m])
  BY <1>1, <1>3 DEF LogTypes
<1>6. /\ file'[f] = IF mode[l] = "w" THEN <<>> ELSE file[f]
      /\ ctime'[f] = IF mode[l] = "w" THEN day ELSE ctime[f]
      /\ \A g \in Files : g # f => file'[g] = file[g] /\ ctime'[g] = ctime[g]
  BY <1>1, <1>2 DEF LogTypes
<1>7. LogTypes'
  BY <1>1, <1>2 DEF LogTypes
<1>8. PastOnly'
  BY <1>1, <1>2, <1>6 DEF PastOnly, LogTypes
<1>9. Opening'
  BY <1>1, <1>2, <1>4, <1>5 DEF Opening, f
<1>10. AtEnd'
  <2> SUFFICES ASSUME NEW p \in Procs, ~appends'[p]
               PROVE  offset'[p] = Len(file'[stderr'[p]])
    BY DEF AtEnd
  <2>1. p = l[1] /\ offset'[p] = 0 /\ stderr'[p] = f /\ mode[l] # "a"
    BY <1>1, <1>2 DEF OneProcess, LogTypes, f
  <2>2. mode[l] = "w"
    BY <2>1 DEF LogTypes
  <2> QED BY <1>6, <2>1, <2>2
<1>11. Dated'
  <2> SUFFICES ASSUME NEW e \in logged PROVE e.day <= ctime'[e.file]
    BY <1>1 DEF Dated
  <2>1. e.file \in Files /\ e.day \in Nat /\ e.day <= ctime[e.file] /\ ctime[e.file] <= day
    BY DEF LogTypes, Dated, PastOnly
  <2>2. ctime'[e.file] = ctime[e.file] \/ ctime'[e.file] = day
    BY <1>6, <2>1
  <2>3. day \in Nat /\ ctime[e.file] \in Int
    BY <2>1 DEF LogTypes
  <2> QED BY <2>1, <2>2, <2>3
<1>12. LinesKept'
  <2> SUFFICES ASSUME NEW e \in logged, ~Due(e)'
               PROVE  \E i \in DOMAIN file'[e.file] : file'[e.file][i] = e.line
    BY <1>1 DEF LinesKept
  <2>1. ~Due(e)
    BY <1>1 DEF Due, FileOf
  <2>2. e.file \in Files /\ e.day \in Nat /\ e.day <= ctime[e.file]
    BY DEF LogTypes, Dated
  <2>3. ~(e.file = f /\ mode[l] = "w")
    <3> SUFFICES ASSUME e.file = f, mode[l] = "w" PROVE FALSE
      OBVIOUS
    <3>1. ctime[f] \in Int /\ tim[l] \in Nat /\ day \in Nat /\ tim[l] <= day
      BY <1>2 DEF LogTypes, PastOnly
    <3>2. tim[l] \in e.day + 1 .. day /\ FileOf(tim[l]) = e.file
      BY <1>2, <2>2, <3>1
    <3> QED BY <2>1, <3>2 DEF Due
  <2>4. file'[e.file] = file[e.file]
    BY <1>6, <2>2, <2>3
  <2> QED BY <2>1, <2>4 DEF LinesKept
<1> QED BY <1>7, <1>8, <1>9, <1>10, <1>11, <1>12

\* What touches no file: a file that cannot be opened, the name that is forgotten,
\* and a line that is written nowhere.
LEMMA NoFileStep ==
  ASSUME OneProcess, LogInv,
         \/ \E l \in Loggers : OpenFails(l) \/ WriteNowhere(l)
         \/ \E p \in Procs : ForgetFile(p)
  PROVE  LogInv'
<1> USE DEF LogInv
<1>1. UNCHANGED <<day, file, ctime, tim, mode, logged>>
  BY DEF OpenFails, WriteNowhere, ForgetFile
<1>2. LogTypes'
  <2>1. CASE \E l \in Loggers : OpenFails(l) \/ WriteNowhere(l)
    <3>1. PICK l \in Loggers : OpenFails(l) \/ WriteNowhere(l)
      BY <2>1
    <3>2. UNCHANGED <<LOGFILE, appends>> /\ \E x \in {"out", "write"} : stage' = [stage EXCEPT ![l] = x]
      BY <3>1 DEF OpenFails, WriteNowhere
    <3>3. stderr' = stderr \/ stderr' = [stderr EXCEPT ![l[1]] = NoFile]
      BY <3>1 DEF OpenFails, WriteNowhere
    <3>4. offset' = offset \/ offset' = [offset EXCEPT ![l[1]] = 0]
      BY <3>1 DEF OpenFails, WriteNowhere
    <3>5. stage' \in [Loggers -> {"out", "set", "open", "write"}]
      BY <3>2 DEF LogTypes
    <3>6. stderr \in [Procs -> Files \cup {NoFile}] /\ offset \in [Procs -> Nat]
      BY DEF LogTypes
    <3> HIDE DEF LogInv
    <3>7. stderr' \in [Procs -> Files \cup {NoFile}]
      BY <3>3, <3>6
    <3>8. offset' \in [Procs -> Nat]
      BY <3>4, <3>6
    <3> USE DEF LogInv
    <3> QED BY <1>1, <3>2, <3>5, <3>7, <3>8 DEF LogTypes
  <2>2. CASE \E p \in Procs : ForgetFile(p)
    BY <1>1, <2>2 DEF ForgetFile, LogTypes
  <2> QED BY <2>1, <2>2
<1>3. \A m \in Loggers : stage'[m] = "open" => stage[m] = "open" /\ LOGFILE'[m[1]] = LOGFILE[m[1]]
  <2>1. CASE \E l \in Loggers : OpenFails(l) \/ WriteNowhere(l)
    BY <2>1 DEF OpenFails, WriteNowhere, LogTypes
  <2>2. CASE \E p \in Procs : ForgetFile(p)
    BY <2>2 DEF ForgetFile, Unlocked, OneProcess, Loggers
  <2> QED BY <2>1, <2>2
<1>4. Opening' /\ PastOnly'
  BY <1>1, <1>3 DEF Opening, PastOnly, FileOf
<1>5. AtEnd'
  <2> SUFFICES ASSUME NEW q \in Procs, stderr'[q] \in Files, ~appends'[q], Unlocked(q)'
               PROVE  offset'[q] = Len(file'[stderr'[q]])
    BY DEF AtEnd
  <2>1. CASE \E l \in Loggers : OpenFails(l)
    <3>1. PICK l \in Loggers : OpenFails(l)
      BY <2>1
    <3>2. l[1] \in Procs /\ l[1] = q
      BY DEF Loggers, OneProcess
    <3>3. stderr'[q] = NoFile
      BY <3>1, <3>2 DEF OpenFails, LogTypes
    <3> QED BY <3>3, LogAssumption DEF Files
  <2>2. CASE \E l \in Loggers : WriteNowhere(l)
    <3>1. PICK l \in Loggers : WriteNowhere(l)
      BY <2>2
    <3>2. l[1] \in Procs /\ l[1] = q /\ stderr[l[1]] = NoFile /\ stderr' = stderr
      BY <3>1 DEF Loggers, OneProcess, WriteNowhere
    <3> QED BY <3>2, LogAssumption DEF Files
  <2>3. CASE \E p \in Procs : ForgetFile(p)
    <3>1. UNCHANGED <<stderr, appends, offset, stage, file>>
      BY <2>3 DEF ForgetFile
    <3> QED BY <3>1 DEF AtEnd, Unlocked
  <2> QED BY <2>1, <2>2, <2>3
<1> QED BY <1>1, <1>2, <1>4, <1>5, LinesStand DEF LogTypes

LEMMA WriteLineStep ==
  ASSUME OneProcess, LogInv, NEW l \in Loggers, WriteLine(l)
  PROVE  LogInv'
<1> USE DEF LogInv
<1> DEFINE p == l[1]
           f == stderr[p]
           line == Cardinality(logged)
           at == IF appends[p] THEN Len(file[f]) ELSE offset[p]
           new == [line |-> line, file |-> f, day |-> day]
<1>1. /\ stage[l] = "write" /\ Unlocked(p) /\ f \in Files
      /\ file' = [file EXCEPT ![f] = IF at < Len(@) THEN [@ EXCEPT ![at + 1] = line] ELSE Append(@, line)]
      /\ offset' = [offset EXCEPT ![p] = at + 1]
      /\ ctime' = [ctime EXCEPT ![f] = day]
      /\ logged' = logged \cup {new}
      /\ stage' = [stage EXCEPT ![l] = "out"]
      /\ UNCHANGED <<day, LOGFILE, stderr, appends, tim, mode>>
  BY DEF WriteLine
<1>2. p \in Procs /\ f \in Files /\ line \in Nat
  BY <1>1, FS_CardinalityType DEF Loggers, LogTypes
<1>3. at = Len(file[f]) /\ at \in Nat /\ file[f] \in Seq(Nat)
  BY <1>1, <1>2 DEF AtEnd, LogTypes
<1>4. new \in [line : Nat, file : Files, day : Nat] /\ new.line = line /\ new.file = f /\ new.day = day
  BY <1>2 DEF LogTypes
<1> HIDE DEF p, f, line, at, new
<1>5. /\ file' = [file EXCEPT ![f] = Append(file[f], line)]
      /\ file'[f] = Append(file[f], line) /\ ctime'[f] = day
      /\ \A g \in Files : g # f => file'[g] = file[g] /\ ctime'[g] = ctime[g]
  <2>1. ~(at < Len(file[f]))
    BY <1>3
  <2>2. file' = [file EXCEPT ![f] = Append(file[f], line)]
    BY <1>1, <2>1
  <2> QED BY <1>1, <1>2, <2>2 DEF LogTypes
<1>6. /\ Append(file[f], line) \in Seq(Nat) /\ Len(Append(file[f], line)) = at + 1
      /\ Append(file[f], line)[at + 1] = line
      /\ \A i \in 1 .. at : Append(file[f], line)[i] = file[f][i]
  BY <1>2, <1>3
<1>7. LogTypes'
  <2>1. IsFiniteSet(logged')
    BY <1>1, FS_AddElement DEF LogTypes
  <2>2. logged' \subseteq [line : Nat, file : Files, day : Nat]
    BY <1>1, <1>4 DEF LogTypes
  <2>3. file' \in [Files -> Seq(Nat)]
    BY <1>2, <1>5, <1>6 DEF LogTypes
  <2>4. ctime' \in [Files -> Int] /\ offset' \in [Procs -> Nat] /\ stage' \in [Loggers -> {"out", "set", "open", "write"}]
    BY <1>1, <1>2, <1>3 DEF LogTypes
  <2> QED BY <1>1, <2>1, <2>2, <2>3, <2>4 DEF LogTypes
<1>8. PastOnly'
  BY <1>1, <1>5 DEF PastOnly, LogTypes
<1>9. \A m \in Loggers : stage[m] # "open" /\ stage'[m] # "open" /\ (stage'[m] = "write" => stage[m] = "write")
  <2>1. \A m \in Loggers : stage[m] # "open"
    BY <1>1, <1>2 DEF Loggers, Unlocked, OneProcess
  <2> QED BY <1>1, <2>1 DEF LogTypes
<1>10. Opening'
  BY <1>1, <1>9 DEF Opening
<1>11. AtEnd'
  <2> SUFFICES ASSUME NEW q \in Procs
               PROVE  offset'[q] = Len(file'[stderr'[q]])
    BY DEF AtEnd
  <2>1. q = p /\ stderr'[q] = f
    BY <1>1, <1>2 DEF OneProcess, f
  <2> QED BY <1>1, <1>2, <1>5, <1>6, <2>1 DEF LogTypes
<1>12. Dated'
  <2> SUFFICES ASSUME NEW e \in logged' PROVE e.day <= ctime'[e.file]
    BY DEF Dated
  <2>1. CASE e = new
    BY <1>4, <1>5, <2>1 DEF LogTypes
  <2>2. CASE e \in logged
    <3>1. e.file \in Files /\ e.day \in Nat /\ e.day <= ctime[e.file] /\ ctime[e.file] <= day
      BY <2>2 DEF LogTypes, Dated, PastOnly
    <3>2. ctime'[e.file] = ctime[e.file] \/ ctime'[e.file] = day
      BY <1>5, <3>1
    <3>3. day \in Nat /\ ctime[e.file] \in Int
      BY <3>1 DEF LogTypes
    <3> QED BY <3>1, <3>2, <3>3
  <2> QED BY <1>1, <2>1, <2>2
<1>13. LinesKept'
  <2> SUFFICES ASSUME NEW e \in logged', ~Due(e)'
               PROVE  \E i \in DOMAIN file'[e.file] : file'[e.file][i] = e.line
    BY DEF LinesKept
  <2>1. DOMAIN file'[f] = 1 .. at + 1
    BY <1>5, <1>6
  <2>2. CASE e = new
    <3>1. at + 1 \in DOMAIN file'[f] /\ file'[f][at + 1] = line
      BY <1>3, <1>5, <1>6, <2>1
    <3> QED BY <1>4, <2>2, <3>1
  <2>3. CASE e \in logged
    <3>1. ~Due(e)
      BY <1>1 DEF Due, FileOf
    <3>2. PICK i \in DOMAIN file[e.file] : file[e.file][i] = e.line
      BY <2>3, <3>1 DEF LinesKept
    <3>3. e.file \in Files
      BY <2>3 DEF LogTypes
    <3>4. CASE e.file = f
      <4>1. i \in 1 .. at
        BY <1>3, <3>2, <3>4
      <4>2. i \in DOMAIN file'[f] /\ file'[f][i] = file[f][i]
        BY <1>3, <1>5, <1>6, <2>1, <4>1
      <4> QED BY <3>2, <3>4, <4>2
    <3>5. CASE e.file # f
      BY <1>5, <3>2, <3>3, <3>5
    <3> QED BY <3>4, <3>5
  <2> QED BY <1>1, <2>2, <2>3
<1> QED BY <1>7, <1>8, <1>10, <1>11, <1>12, <1>13

LEMMA LogStep == OneProcess /\ LogInv /\ [LogNext]_logVars => LogInv'
<1> SUFFICES ASSUME OneProcess, LogInv, [LogNext]_logVars PROVE LogInv'
  OBVIOUS
<1>1. CASE UNCHANGED logVars
  BY <1>1 DEF logVars, LogInv, LogTypes, PastOnly, Opening, AtEnd, Unlocked, FileOf, Dated, LinesKept, Due
<1>2. CASE Tomorrow
  BY <1>2, TomorrowStep
<1>3. ASSUME NEW l \in Loggers, ShowLog(l) \/ SameFile(l) \/ OtherFile(l) \/ Open(l) \/ WriteLine(l)
      PROVE  LogInv'
  BY <1>3, ShowLogStep, SameFileStep, OtherFileStep, OpenStep, WriteLineStep
<1>4. CASE \/ \E l \in Loggers : OpenFails(l) \/ WriteNowhere(l)
           \/ \E p \in Procs : ForgetFile(p)
  BY <1>4, NoFileStep
<1> QED BY <1>1, <1>2, <1>3, <1>4 DEF LogNext

\* For any number of threads, days and lines no line of a day is lost before its file
\* is used again (LinesKept; showlog.c:186-206, 271-274), when one process writes.
THEOREM LinesKeptAlways == OneProcess /\ LogSpec => []LinesKept
<1> SUFFICES ASSUME OneProcess PROVE LogSpec => []LinesKept
  OBVIOUS
<1>1. LogInv /\ [LogNext]_logVars => LogInv'
  BY LogStep
<1>2. LogInv => LinesKept
  BY DEF LogInv
<1> QED BY LogStart, <1>1, <1>2, PTL DEF LogSpec

-----------------------------------------------------------------------------
(* Rings. *)

LEMMA NodesFinite == IsFiniteSet(Nodes) /\ Most \in Nat /\ Nil \notin Nodes
BY RingAssumption, FS_Union, FS_CardinalityType DEF Nodes, Most

\* The way along the successors can be gone as far as one likes.
After(succ) == [n \in Ends |-> IF n = Nil THEN Nil ELSE succ[n]]
Goes(succ, first, m, g) ==
  /\ g \in [0..m -> Ends] /\ g[0] = first
  /\ \A k \in 1..m : g[k] = After(succ)[g[k - 1]]

LEMMA WayGoesOn ==
  ASSUME NEW succ \in [Nodes -> Ends], NEW first \in Ends, NEW most \in Nat
  PROVE  \E g : Goes(succ, first, most, g)
<1>1. After(succ) \in [Ends -> Ends]
  BY NodesFinite DEF After, Ends
<1> DEFINE Short == {m \in Nat : ~\E g : Goes(succ, first, m, g)}
<1>2. SUFFICES ASSUME Short # {} PROVE FALSE
  OBVIOUS
<1>3. PICK x \in Short : \A y \in Short : x <= y
  <2>1. Short \in SUBSET Nat
    OBVIOUS
  <2> HIDE DEF Short
  <2> QED BY <1>2, <2>1, LeastNumber
<1>4. x \in Nat /\ ~\E g : Goes(succ, first, x, g)
  OBVIOUS
<1>5. CASE x = 0
  <2>1. Goes(succ, first, 0, [k \in 0..0 |-> first])
    BY DEF Goes
  <2> QED BY <1>4, <1>5, <2>1
<1>6. CASE x # 0
  <2>1. x - 1 \in Nat /\ x - 1 \notin Short
    BY <1>3, <1>4, <1>6
  <2>2. PICK g : Goes(succ, first, x - 1, g)
    BY <2>1
  <2> DEFINE h == [k \in 0..x |-> IF k = x THEN After(succ)[g[x - 1]] ELSE g[k]]
  <2>3. g \in [0..x - 1 -> Ends] /\ g[0] = first /\ \A k \in 1..x - 1 : g[k] = After(succ)[g[k - 1]]
    BY <2>2 DEF Goes
  <2>4. h \in [0..x -> Ends]
    BY <1>1, <1>4, <1>6, <2>3
  <2>5. h[0] = first
    BY <1>4, <1>6, <2>3
  <2>6. \A k \in 1..x : h[k] = After(succ)[h[k - 1]]
    BY <1>4, <1>6, <2>3
  <2>7. Goes(succ, first, x, h)
    BY <2>4, <2>5, <2>6 DEF Goes
  <2> QED BY <1>4, <2>7
<1> QED BY <1>5, <1>6

LEMMA WalkGoes ==
  ASSUME NEW succ \in [Nodes -> Ends], NEW first \in Ends
  PROVE  Goes(succ, first, Most, Walk(succ, first))
<1> DEFINE Is(w) == w = [k \in Steps |-> IF k = 0 THEN first ELSE After(succ)[w[k - 1]]]
<1>1. PICK g : Goes(succ, first, Most, g)
  BY WayGoesOn, NodesFinite
<1>2. Is(g)
  <2>1. g \in [0..Most -> Ends] /\ g[0] = first /\ \A k \in 1..Most : g[k] = After(succ)[g[k - 1]]
    BY <1>1 DEF Goes
  <2> QED BY <2>1, NodesFinite DEF Steps
<1>3. Walk(succ, first) = CHOOSE w : Is(w)
  BY DEF Walk, After
<1>4. Is(Walk(succ, first))
  <2> HIDE DEF Is
  <2> QED BY <1>2, <1>3
<1>5. PICK w : w = Walk(succ, first)
  OBVIOUS
<1>6. Is(w)
  BY <1>4, <1>5
<1>7. w = g
  <2> DEFINE Off == {k \in Nat : k \in Steps /\ w[k] # g[k]}
  <2>1. CASE Off = {}
    <3>1. \A k \in Steps : w[k] = g[k]
      BY <2>1, NodesFinite DEF Steps
    <3> QED BY <1>2, <1>6, <3>1
  <2>2. CASE Off # {}
    <3>1. PICK x \in Off : \A y \in Off : x <= y
      <4>1. Off \in SUBSET Nat
        OBVIOUS
      <4> HIDE DEF Off
      <4> QED BY <2>2, <4>1, LeastNumber
    <3>2. x \in Nat /\ x \in Steps /\ w[x] # g[x]
      OBVIOUS
    <3>3. x # 0
      BY <1>2, <1>6, <3>2
    <3>4. x - 1 \in Steps /\ x - 1 \in Nat /\ w[x - 1] = g[x - 1]
      BY <3>1, <3>2, <3>3, NodesFinite DEF Steps
    <3> QED BY <1>2, <1>6, <3>2, <3>3, <3>4
  <2> QED BY <2>1, <2>2
<1> QED BY <1>1, <1>5, <1>7

\* line is what a ring with this last element stands for.
Ring(succ, last, line) ==
  /\ last = Nil <=> line = <<>>
  /\ line # <<>> => last = line[Len(line)]
  /\ \A i \in 1..Len(line) : succ[line[i]] = line[IF i = Len(line) THEN 1 ELSE i + 1]
  /\ \A i, j \in 1..Len(line) : line[i] = line[j] => i = j

LEMMA LineShort ==
  ASSUME NEW line \in Seq(Nodes), \A i, j \in 1..Len(line) : line[i] = line[j] => i = j
  PROVE  Len(line) <= Most
<1>1. line \in [1..Len(line) -> Nodes] /\ Len(line) \in Nat
  BY LenProperties
<1>2. line \in Injection(1..Len(line), Nodes)
  BY <1>1 DEF Injection, IsInjective
<1>3. Cardinality(1..Len(line)) <= Cardinality(Nodes)
  BY <1>2, NodesFinite, FS_Injection
<1>4. Cardinality(1..Len(line)) = Len(line)
  <2>1. PICK len \in Nat : len = Len(line)
    BY <1>1
  <2>2. Cardinality(1..len) = IF 1 > len THEN 0 ELSE len - 1 + 1
    BY FS_Interval
  <2>3. Cardinality(1..len) = len
    BY <2>2
  <2> QED BY <2>1, <2>3, Zenon
<1>5. PICK c : c = Cardinality(1..Len(line))
  OBVIOUS
<1>6. c <= Most /\ c = Len(line)
  BY <1>3, <1>4, <1>5, Zenon DEF Most
<1> QED BY <1>6

\* The way to the last element of a ring is its line.
LEMMA WayIsLine ==
  ASSUME NEW succ \in [Nodes -> Ends], NEW last, NEW line \in Seq(Nodes), line # <<>>,
         Ring(succ, last, line)
  PROVE  WayTo(succ, last) = line
<1> DEFINE len == Len(line)
<1>1. /\ len \in Nat \ {0} /\ line \in [1..len -> Nodes] /\ last = line[len] /\ succ[last] = line[1]
      /\ \A i \in 1..len - 1 : succ[line[i]] = line[i + 1]
      /\ \A i, j \in 1..len : line[i] = line[j] => i = j
      /\ len <= Most /\ Most \in Nat
  <2>1. /\ len \in Nat \ {0} /\ line \in [1..len -> Nodes] /\ Most \in Nat
    BY NodesFinite, LenProperties, EmptySeq
  <2>2. /\ last = line[len]
        /\ \A i \in 1..len : succ[line[i]] = line[IF i = len THEN 1 ELSE i + 1]
        /\ \A i, j \in 1..len : line[i] = line[j] => i = j
    BY DEF Ring
  <2>3. len <= Most
    BY <2>2, LineShort
  <2> HIDE DEF len
  <2>4. len \in 1..len
    BY <2>1
  <2>5. succ[line[len]] = line[1]
    BY <2>2, <2>4
  <2>6. \A i \in 1..len - 1 : i \in 1..len /\ i # len
    BY <2>1
  <2>7. \A i \in 1..len - 1 : succ[line[i]] = line[i + 1]
    BY <2>2, <2>6
  <2> QED BY <2>1, <2>2, <2>3, <2>5, <2>7
<1>2. PICK w : w = Walk(succ, succ[last])
  OBVIOUS
<1>3. w \in [0..Most -> Ends] /\ w[0] = line[1] /\ \A k \in 1..Most : w[k] = After(succ)[w[k - 1]]
  <2>1. succ[last] \in Ends
    BY <1>1
  <2> QED BY <1>1, <1>2, <2>1, WalkGoes DEF Goes
<1>4. \A k \in 0..len - 1 : w[k] = line[k + 1]
  <2> DEFINE Off == {k \in Nat : k < len /\ w[k] # line[k + 1]}
  <2>1. SUFFICES ASSUME Off # {} PROVE FALSE
    BY <1>1
  <2>2. PICK x \in Off : \A y \in Off : x <= y
    <3>1. Off \in SUBSET Nat
      OBVIOUS
    <3> HIDE DEF Off
    <3> QED BY <2>1, <3>1, LeastNumber
  <2>3. x \in Nat /\ x < len /\ w[x] # line[x + 1]
    OBVIOUS
  <2>4. x # 0
    BY <1>3, <2>3
  <2>5. w[x - 1] = line[x]
    BY <2>2, <2>3, <2>4
  <2>6. w[x] = After(succ)[line[x]]
    BY <1>1, <1>3, <2>3, <2>4, <2>5
  <2>7. line[x] \in Nodes /\ succ[line[x]] = line[x + 1]
    BY <1>1, <2>3, <2>4
  <2>8. After(succ)[line[x]] = succ[line[x]]
    BY <2>7, NodesFinite DEF After, Ends
  <2> QED BY <2>3, <2>6, <2>7, <2>8
<1> DEFINE Found == {Most} \cup {k \in Steps : w[k] = last}
           end == Min(Found)
<1>5. end = len - 1
  <2>1. len - 1 \in Found
    <3>1. len - 1 \in 0..len - 1 /\ (len - 1) + 1 = len /\ len - 1 \in Steps
      BY <1>1 DEF Steps
    <3>2. w[len - 1] = line[(len - 1) + 1]
      BY <1>4, <3>1
    <3> QED BY <1>1, <3>1, <3>2
  <2>2. \A k \in Found : k \in Nat /\ len - 1 <= k
    <3>1. SUFFICES ASSUME NEW k \in Steps, w[k] = last PROVE len - 1 <= k
      BY <1>1 DEF Steps
    <3>2. k \in Nat
      BY <1>1 DEF Steps
    <3>3. SUFFICES ASSUME k < len - 1 PROVE FALSE
      BY <1>1, <3>2
    <3>4. line[k + 1] = line[len]
      BY <1>1, <1>4, <3>1, <3>2, <3>3
    <3> QED BY <1>1, <3>2, <3>3, <3>4
  <2>3. \A k \in Found : (\A other \in Found : k <= other) => k = len - 1
    <3> HIDE DEF Found
    <3>1. SUFFICES ASSUME NEW k \in Found, k <= len - 1 PROVE k = len - 1
      BY <2>1
    <3> QED BY <1>1, <2>2, <3>1
  <2> HIDE DEF Found
  <2> QED BY <2>1, <2>2, <2>3 DEF Min
<1>6. WayTo(succ, last) = [i \in 1..end + 1 |-> w[i - 1]]
  BY <1>2 DEF WayTo
<1>7. WayTo(succ, last) = [i \in 1..len |-> w[i - 1]]
  BY <1>1, <1>5, <1>6
<1>8. \A i \in 1..len : w[i - 1] = line[i]
  BY <1>1, <1>4
<1> QED BY <1>1, <1>7, <1>8

\* An element is linked behind last, as its successor and the first or as the last one.
RingGrown(succ, new, last, line, n) ==
  /\ new \in [Nodes -> Ends] /\ new[n] # Nil
  /\ \A m \in Nodes : m # n /\ m # last => new[m] = succ[m]
  /\ Append(line, n) \in Seq(Nodes) /\ Ring(new, n, Append(line, n))
  /\ <<n>> \o line \in Seq(Nodes)
  /\ Ring(new, IF last = Nil THEN n ELSE last, <<n>> \o line)

LEMMA RingGrows ==
  ASSUME NEW succ \in [Nodes -> Ends], NEW last \in Ends, NEW line \in Seq(Nodes), Ring(succ, last, line),
         NEW n \in Nodes, \A i \in 1..Len(line) : line[i] # n,
         NEW new, new = IF last = Nil THEN [succ EXCEPT ![n] = n]
                        ELSE [[succ EXCEPT ![n] = succ[last]] EXCEPT ![last] = n]
  PROVE  RingGrown(succ, new, last, line, n)
<1> DEFINE len == Len(line)
           more == Append(line, n)
           first == <<n>> \o line
<1>1. /\ len \in Nat /\ line \in [1..len -> Nodes] /\ Nil \notin Nodes
      /\ (last = Nil <=> line = <<>>) /\ (line = <<>> <=> len = 0)
  BY NodesFinite, LenProperties, EmptySeq DEF Ring
<1>2. /\ more \in Seq(Nodes) /\ Len(more) = len + 1
      /\ \A i \in 1..len + 1 : more[i] = IF i = len + 1 THEN n ELSE line[i]
  BY <1>1
<1>3. /\ first \in Seq(Nodes) /\ Len(first) = len + 1
      /\ \A i \in 1..len + 1 : first[i] = IF i = 1 THEN n ELSE line[i - 1]
  <2>1. <<n>> \in Seq(Nodes) /\ Len(<<n>>) = 1 /\ <<n>>[1] = n
    OBVIOUS
  <2> QED BY <1>1, <2>1, ConcatProperties
<1>4. more # <<>> /\ first # <<>>
  BY <1>1, <1>2, <1>3, EmptySeq
<1>5. /\ \A i \in 1..len : succ[line[i]] = line[IF i = len THEN 1 ELSE i + 1]
      /\ \A i, j \in 1..len : line[i] = line[j] => i = j
      /\ len > 0 => last = line[len] /\ last \in Nodes /\ last # n /\ succ[last] = line[1]
  <2>1. /\ \A i \in 1..len : succ[line[i]] = line[IF i = len THEN 1 ELSE i + 1]
        /\ \A i, j \in 1..len : line[i] = line[j] => i = j
    BY DEF Ring
  <2>2. ASSUME len > 0
        PROVE  last = line[len] /\ last \in Nodes /\ last # n /\ succ[last] = line[1]
    <3>1. last = line[len]
      <4>1. line # <<>>
        BY <1>1, <2>2
      <4>2. last = line[Len(line)]
        BY <4>1 DEF Ring
      <4> QED BY <4>2
    <3>2. len \in 1..len
      BY <1>1, <2>2
    <3>3. succ[last] = line[1] /\ last \in Nodes /\ last # n
      <4> HIDE DEF len
      <4> QED BY <1>1, <2>1, <3>1, <3>2 DEF len
    <3> QED BY <3>1, <3>3
  <2> QED BY <2>1, <2>2
<1> HIDE DEF len, more, first
<1>6. CASE last = Nil
  <2>1. len = 0 /\ new = [succ EXCEPT ![n] = n]
    BY <1>1, <1>6
  <2>2. new \in [Nodes -> Ends] /\ new[n] = n /\ \A m \in Nodes : m # n => new[m] = succ[m]
    BY <2>1 DEF Ends
  <2>3. more[1] = n /\ first[1] = n /\ Len(more) = 1 /\ Len(first) = 1
    BY <1>2, <1>3, <2>1
  <2>4. Ring(new, n, more) /\ Ring(new, n, first)
    BY <1>1, <1>4, <2>2, <2>3 DEF Ring
  <2> QED BY <1>1, <1>2, <1>3, <1>6, <2>2, <2>4 DEF more, first, RingGrown
<1>7. CASE last # Nil
  <2>1. len > 0 /\ last \in Nodes /\ last # n /\ last = line[len] /\ succ[last] = line[1]
    BY <1>1, <1>5, <1>7
  <2>2. new = [[succ EXCEPT ![n] = succ[last]] EXCEPT ![last] = n]
    BY <1>7
  <2>3. /\ new \in [Nodes -> Ends] /\ new[n] = line[1] /\ new[last] = n
        /\ \A m \in Nodes : m # n /\ m # last => new[m] = succ[m]
    BY <2>1, <2>2 DEF Ends
  <2>4. line[1] \in Nodes
    BY <1>1, <2>1
  <2>5. \A i \in 1..len - 1 : line[i] \in Nodes /\ line[i] # n /\ line[i] # last /\ new[line[i]] = line[i + 1]
    BY <1>1, <1>5, <2>1, <2>3 DEF len
  <2>6. \A i \in 1..len + 1 : new[more[i]] = more[IF i = len + 1 THEN 1 ELSE i + 1]
    BY <1>1, <1>2, <2>1, <2>3, <2>5
  <2>7. \A i \in 1..len + 1 : new[first[i]] = first[IF i = len + 1 THEN 1 ELSE i + 1]
    BY <1>1, <1>3, <2>1, <2>3, <2>5
  <2>8. \A i \in 1..len : line[i] # n
    BY DEF len
  <2>9. \A i, j \in 1..len + 1 : more[i] = more[j] => i = j
    BY <1>1, <1>2, <1>5, <2>8
  <2>10. \A i, j \in 1..len + 1 : first[i] = first[j] => i = j
    BY <1>1, <1>3, <1>5, <2>8
  <2>11. Ring(new, n, more)
    BY <1>1, <1>2, <1>4, <2>6, <2>9 DEF Ring
  <2>12. Ring(new, last, first)
    BY <1>1, <1>3, <1>4, <1>7, <2>1, <2>7, <2>10 DEF Ring
  <2> QED BY <1>1, <1>2, <1>3, <1>7, <2>3, <2>4, <2>11, <2>12 DEF more, first, RingGrown
<1> QED BY <1>6, <1>7

\* The first element is taken.
Shrunk(succ, new, last, line, first) ==
  /\ line # <<>> /\ first \in Nodes /\ first = Head(line) /\ Contains(line, first) /\ Contains(line, last)
  /\ new \in [Nodes -> Ends] /\ new[first] = Nil
  /\ \A m \in Nodes : m # first /\ m # last => new[m] = succ[m]
  /\ Tail(line) \in Seq(Nodes)
  /\ \A m \in Nodes : Contains(Tail(line), m) <=> Contains(line, m) /\ m # first
  /\ Ring(new, IF first = last THEN Nil ELSE last, Tail(line))

LEMMA RingShrinks ==
  ASSUME NEW succ \in [Nodes -> Ends], NEW last \in Nodes, NEW line \in Seq(Nodes), Ring(succ, last, line),
         NEW first, first = succ[last],
         NEW new, new = IF first = last THEN [succ EXCEPT ![last] = Nil]
                        ELSE [succ EXCEPT ![last] = succ[first], ![first] = Nil]
  PROVE  Shrunk(succ, new, last, line, first)
<1>1. /\ Nil \notin Nodes /\ line # <<>> /\ last = line[Len(line)]
      /\ \A i \in 1..Len(line) : succ[line[i]] = line[IF i = Len(line) THEN 1 ELSE i + 1]
      /\ \A i, j \in 1..Len(line) : line[i] = line[j] => i = j
  BY NodesFinite DEF Ring
<1>2. PICK len \in Nat \ {0} : len = Len(line)
  BY <1>1, EmptySeq
<1>3. /\ line \in [1..len -> Nodes] /\ last = line[len]
      /\ \A i \in 1..len : succ[line[i]] = line[IF i = len THEN 1 ELSE i + 1]
      /\ \A i, j \in 1..len : line[i] = line[j] => i = j
  BY <1>1, <1>2, LenProperties
<1>4. PICK rest : rest = Tail(line)
  OBVIOUS
<1>5. /\ rest \in Seq(Nodes) /\ Len(rest) = len - 1
      /\ \A i \in 1..len - 1 : rest[i] = line[i + 1]
  BY <1>1, <1>2, <1>4, HeadTailProperties
<1>6. len \in 1..len /\ 1 \in 1..len /\ Head(line) = line[1]
  BY <1>1, <1>2
<1>7. first = line[1] /\ first \in Nodes
  BY <1>3, <1>6
<1>8. Contains(line, first) /\ Contains(line, last)
  BY <1>2, <1>3, <1>6, <1>7 DEF Contains
<1>9. ASSUME NEW m \in Nodes
      PROVE  Contains(rest, m) <=> Contains(line, m) /\ m # first
  <2>1. ASSUME Contains(rest, m) PROVE Contains(line, m) /\ m # first
    <3>1. PICK i \in 1..len - 1 : rest[i] = m
      BY <1>5, <2>1 DEF Contains
    <3>2. i + 1 \in 1..len /\ line[i + 1] = m /\ i + 1 # 1
      BY <1>2, <1>5, <3>1
    <3> QED BY <1>2, <1>3, <1>6, <1>7, <3>2 DEF Contains
  <2>2. ASSUME Contains(line, m), m # first PROVE Contains(rest, m)
    <3>1. PICK i \in 1..len : line[i] = m
      BY <1>2, <2>2 DEF Contains
    <3>2. i - 1 \in 1..len - 1 /\ rest[i - 1] = m
      BY <1>2, <1>5, <1>7, <2>2, <3>1
    <3> QED BY <1>5, <3>2 DEF Contains
  <2> QED BY <2>1, <2>2
<1>10. CASE first = last
  <2>1. len = 1
    BY <1>3, <1>6, <1>7, <1>10
  <2>2. rest = <<>>
    BY <1>5, <2>1, EmptySeq
  <2>3. /\ new \in [Nodes -> Ends] /\ new[first] = Nil
        /\ \A m \in Nodes : m # first /\ m # last => new[m] = succ[m]
    BY <1>10 DEF Ends
  <2>4. Ring(new, Nil, rest)
    BY <2>2 DEF Ring
  <2> QED BY <1>1, <1>4, <1>5, <1>6, <1>7, <1>8, <1>9, <1>10, <2>3, <2>4 DEF Shrunk
<1>11. CASE first # last
  <2>1. len > 1
    BY <1>2, <1>3, <1>6, <1>7, <1>11
  <2>2. /\ new \in [Nodes -> Ends] /\ new[first] = Nil /\ new[last] = succ[first]
        /\ \A m \in Nodes : m # first /\ m # last => new[m] = succ[m]
    BY <1>7, <1>11 DEF Ends
  <2>3. succ[first] = line[2]
    BY <1>3, <1>6, <1>7, <2>1
  <2>4. \A i \in 1..len - 1 : rest[i] = line[i + 1] /\ i + 1 \in 1..len /\ line[i + 1] # first
    BY <1>2, <1>3, <1>5, <1>6, <1>7
  <2>5. ASSUME NEW i \in 1..len - 1 PROVE new[rest[i]] = rest[IF i = len - 1 THEN 1 ELSE i + 1]
    <3>1. CASE i = len - 1
      <4>1. rest[i] = last /\ rest[1] = line[2]
        BY <1>2, <1>3, <1>5, <2>1, <3>1
      <4> QED BY <2>2, <2>3, <3>1, <4>1
    <3>2. CASE i # len - 1
      <4>1. i + 1 \in 1..len /\ i + 1 # len /\ i + 1 \in 1..len - 1 /\ (i + 1) + 1 = i + 2
        BY <1>2, <3>2
      <4>2. line[i + 1] # last /\ line[i + 1] # first /\ line[i + 1] \in Nodes
        BY <1>3, <1>6, <2>4, <4>1
      <4>3. succ[line[i + 1]] = line[i + 2]
        BY <1>3, <4>1
      <4>4. rest[i] = line[i + 1] /\ rest[i + 1] = line[i + 2]
        BY <1>5, <4>1
      <4> QED BY <2>2, <3>2, <4>2, <4>3, <4>4
    <3> QED BY <3>1, <3>2
  <2>6. \A i, j \in 1..len - 1 : rest[i] = rest[j] => i = j
    BY <1>3, <2>4
  <2>7. rest # <<>> /\ last = rest[len - 1] /\ last # Nil
    BY <1>1, <1>2, <1>3, <1>5, <2>1
  <2>8. Ring(new, last, rest)
    BY <1>5, <2>5, <2>6, <2>7 DEF Ring
  <2> QED BY <1>1, <1>4, <1>5, <1>6, <1>7, <1>8, <1>9, <1>11, <2>2, <2>8 DEF Shrunk
<1> QED BY <1>10, <1>11

\* All queues stand for lines that have no element in common, and what has a successor
\* is in one of them.
Stand(succ, lasts, L) ==
  /\ succ \in [Nodes -> Ends] /\ lasts \in [Heads -> Ends] /\ L \in [Heads -> Seq(Nodes)]
  /\ \A q \in Heads : Ring(succ, lasts[q], L[q])
  /\ \A q, r \in Heads : \A n \in Nodes : Contains(L[q], n) /\ Contains(L[r], n) => q = r
  /\ \A n \in Nodes : succ[n] # Nil => \E q \in Heads : Contains(L[q], n)

\* A ring that is not touched stays.
LEMMA RingRests ==
  ASSUME NEW succ, NEW new, NEW last, NEW line \in Seq(Nodes), Ring(succ, last, line),
         \A n \in Nodes : Contains(line, n) => new[n] = succ[n]
  PROVE  Ring(new, last, line)
<1>1. PICK len \in Nat : len = Len(line)
  BY LenProperties
<1>2. \A i \in 1..len : line[i] \in Nodes /\ Contains(line, line[i])
  BY <1>1, LenProperties DEF Contains
<1>3. \A i \in 1..len : new[line[i]] = succ[line[i]]
  BY <1>2
<1> QED BY <1>1, <1>3 DEF Ring

\* Only the line of q changes, and in it only the place of n.
OnlyMoves(succ, new, L, q, n, line) ==
  /\ \A m \in Nodes : m # n /\ ~Contains(L[q], m) => new[m] = succ[m]
  /\ \A r \in Heads : r # q => ~Contains(L[r], n)
  /\ \A m \in Nodes : m # n => (Contains(line, m) <=> Contains(L[q], m))
  /\ new[n] # Nil => Contains(line, n)

\* One element moves into the line of q or out of it.
LEMMA OneMoves ==
  ASSUME NEW succ, NEW lasts, NEW L, Stand(succ, lasts, L), NEW q \in Heads, NEW n \in Nodes,
         NEW new \in [Nodes -> Ends], NEW last \in Ends, NEW line \in Seq(Nodes), Ring(new, last, line),
         OnlyMoves(succ, new, L, q, n, line)
  PROVE  Stand(new, [lasts EXCEPT ![q] = last], [L EXCEPT ![q] = line])
<1>0. /\ \A m \in Nodes : m # n /\ ~Contains(L[q], m) => new[m] = succ[m]
      /\ \A r \in Heads : r # q => ~Contains(L[r], n)
      /\ \A m \in Nodes : m # n => (Contains(line, m) <=> Contains(L[q], m))
      /\ new[n] # Nil => Contains(line, n)
  BY DEF OnlyMoves
<1>1. PICK M : M = [L EXCEPT ![q] = line]
  OBVIOUS
<1>2. PICK ends : ends = [lasts EXCEPT ![q] = last]
  OBVIOUS
<1>3. /\ M \in [Heads -> Seq(Nodes)] /\ M[q] = line /\ \A r \in Heads : r # q => M[r] = L[r]
      /\ ends \in [Heads -> Ends] /\ ends[q] = last /\ \A r \in Heads : r # q => ends[r] = lasts[r]
  BY <1>1, <1>2 DEF Stand
<1>4. ASSUME NEW r \in Heads PROVE Ring(new, ends[r], M[r])
  <2>1. CASE r = q
    BY <1>3, <2>1
  <2>2. CASE r # q
    <3>1. L[r] \in Seq(Nodes) /\ Ring(succ, lasts[r], L[r])
      BY DEF Stand
    <3>2. ASSUME NEW m \in Nodes, Contains(L[r], m) PROVE new[m] = succ[m]
      <4>1. m # n
        BY <1>0, <2>2, <3>2
      <4>2. ~Contains(L[q], m)
        BY <2>2, <3>2 DEF Stand
      <4> QED BY <1>0, <4>1, <4>2
    <3>3. Ring(new, lasts[r], L[r])
      BY <3>1, <3>2, RingRests
    <3> QED BY <1>3, <2>2, <3>3
  <2> QED BY <2>1, <2>2
<1>5. ASSUME NEW r \in Heads, NEW m \in Nodes, m # n
      PROVE  Contains(M[r], m) <=> Contains(L[r], m)
  BY <1>0, <1>3, <1>5
<1>6. ASSUME NEW p \in Heads, NEW r \in Heads, NEW m \in Nodes, Contains(M[p], m), Contains(M[r], m)
      PROVE  p = r
  <2>1. CASE m = n
    BY <1>0, <1>3, <1>6, <2>1
  <2>2. CASE m # n
    BY <1>5, <1>6, <2>2 DEF Stand
  <2> QED BY <2>1, <2>2
<1>7. ASSUME NEW m \in Nodes, new[m] # Nil PROVE \E r \in Heads : Contains(M[r], m)
  <2>1. CASE m = n
    BY <1>0, <1>3, <1>7, <2>1
  <2>2. CASE m # n
    <3>1. CASE Contains(L[q], m)
      BY <1>5, <2>2, <3>1
    <3>2. CASE ~Contains(L[q], m)
      <4>1. succ[m] # Nil
        BY <1>0, <1>7, <2>2, <3>2
      <4>2. PICK r \in Heads : Contains(L[r], m)
        BY <4>1 DEF Stand
      <4> QED BY <1>5, <2>2, <4>2
    <3> QED BY <3>1, <3>2
  <2> QED BY <2>1, <2>2
<1>8. Stand(new, ends, M)
  BY <1>3, <1>4, <1>6, <1>7 DEF Stand
<1> QED BY <1>1, <1>2, <1>8

LEMMA SameWords ==
  /\ \A E : Promise!SetToSeqs(E) = SetToSeqs(E)
  /\ \A e : Promise!ToSet(e) = ToSet(e)
<1>1. \A E : Promise!SetToSeqs(E) = SetToSeqs(E)
  <2> TAKE E
  <2>1. Promise!Cardinality(E) = Cardinality(E)
    BY Zenon DEF Promise!Cardinality, Cardinality
  <2> QED BY <2>1, Zenon DEF Promise!SetToSeqs, SetToSeqs
<1>2. \A e : Promise!ToSet(e) = ToSet(e)
  <2> TAKE e
  <2> QED BY Zenon DEF Promise!ToSet, ToSet
<1> QED BY <1>1, <1>2

\* The lines are what the rings stand for.
LEMMA LinesAre ==
  ASSUME NEW succ, NEW lasts, NEW L, Stand(succ, lasts, L)
  PROVE  [q \in Heads |-> IF lasts[q] = Nil THEN <<>> ELSE WayTo(succ, lasts[q])] = L
<1>1. L \in [Heads -> Seq(Nodes)] /\ succ \in [Nodes -> Ends]
  BY DEF Stand
<1>2. ASSUME NEW q \in Heads
      PROVE  (IF lasts[q] = Nil THEN <<>> ELSE WayTo(succ, lasts[q])) = L[q]
  <2>1. Ring(succ, lasts[q], L[q]) /\ L[q] \in Seq(Nodes)
    BY <1>1 DEF Stand
  <2>2. CASE lasts[q] = Nil
    BY <2>1, <2>2 DEF Ring
  <2>3. CASE lasts[q] # Nil
    <3>1. L[q] # <<>>
      BY <2>1, <2>3 DEF Ring
    <3>2. WayTo(succ, lasts[q]) = L[q]
      BY <1>1, <2>1, <3>1, WayIsLine
    <3> QED BY <2>3, <3>2
  <2> QED BY <2>2, <2>3
<1> QED BY <1>1, <1>2

\* A task that a thread is about to link is in no queue and with that thread only.
MovedAlone ==
  /\ moving \in [Movers -> Blocks \cup {Nil}]
  /\ \A t \in Movers : moving[t] # Nil => next[moving[t]] = Nil
  /\ \A t, u \in Movers : moving[t] # Nil /\ moving[t] = moving[u] => t = u

RingInv == /\ socket \in [Links -> Sockets] /\ MovedAlone
           /\ Stand(next, tail, lines)

\* Two threads do not link one task at once.
OneMover == ~Twice

LEMMA Standing ==
  ASSUME NEW L, Stand(next, tail, L)
  PROVE  lines = L
BY LinesAre DEF lines, Order

LEMMA StandingNext ==
  ASSUME NEW L, Stand(next', tail', L)
  PROVE  lines' = L
BY LinesAre DEF lines, Order

LEMMA RingStart == RingInit => RingInv /\ Promise!Init
<1> SUFFICES ASSUME RingInit PROVE RingInv /\ Promise!Init
  OBVIOUS
<1>a. PICK size \in Nat \ {0} : size = Cardinality(Links)
  BY RingAssumption, FS_CardinalityType, FS_EmptySet
<1>1. \A n : n \in Links <=> n \in 0..size - 1
  <2>1. Links = 0..size - 1
    BY <1>a, RingAssumption, Zenon
  <2> QED BY <2>1
<1>2. /\ \A n \in Links : n \in Nodes /\ n \notin Blocks
      /\ Nil \notin Nodes /\ Nil \notin Links /\ Nil \in Ends /\ Path \in Heads /\ Nodes \subseteq Ends
  BY RingAssumption, NodesFinite DEF Nodes, Heads, Ends
<1>3. /\ next = [n \in Nodes |-> IF n \in Links THEN (n + 1) % size ELSE Nil]
      /\ tail = [q \in Heads |-> IF q = Path THEN size - 1 ELSE Nil]
      /\ socket = [c \in Links |-> "none"] /\ moving = [t \in Movers |-> Nil]
  BY <1>a DEF RingInit
<1>4. \A n \in 0..size - 1 : (n + 1) % size = IF n = size - 1 THEN 0 ELSE n + 1
  BY <1>1
<1>5. PICK line : line = [i \in 1..size |-> i - 1]
  OBVIOUS
<1>6. line \in Seq(Nodes) /\ Len(line) = size
  <2>1. line \in [1..size -> Nodes]
    BY <1>1, <1>2, <1>5
  <2>2. line \in Seq(Nodes)
    BY <2>1, SeqDef
  <2>3. Len(line) \in Nat /\ 1..Len(line) = 1..size
    BY <2>1, <2>2, LenProperties
  <2> QED BY <2>2, <2>3
<1>7. PICK L : L = [q \in Heads |-> IF q = Path THEN line ELSE <<>>]
  OBVIOUS
<1>8. L \in [Heads -> Seq(Nodes)] /\ L[Path] = line /\ \A q \in Heads : q # Path => L[q] = <<>>
  BY <1>2, <1>6, <1>7
<1>9. next \in [Nodes -> Ends] /\ tail \in [Heads -> Ends]
  <2>1. \A n \in Links : next[n] \in Links
    BY <1>1, <1>2, <1>3, <1>4
  <2>2. size - 1 \in Links
    BY <1>1
  <2> QED BY <1>2, <1>3, <2>1, <2>2
<1>10. Ring(next, size - 1, line)
  <2>1. \A i \in 1..size : line[i] = i - 1 /\ i - 1 \in Links
    BY <1>1, <1>5
  <2>2. \A i \in 1..size : next[i - 1] = IF i = size THEN 0 ELSE i
    BY <1>1, <1>2, <1>3, <1>4
  <2>3. size - 1 # Nil /\ line # <<>> /\ line[size] = size - 1
    BY <1>1, <1>2, <1>6, <2>1, EmptySeq
  <2>4. \A i \in 1..size : next[line[i]] = line[IF i = size THEN 1 ELSE i + 1]
    BY <1>1, <2>1, <2>2
  <2>5. \A i, j \in 1..size : line[i] = line[j] => i = j
    BY <1>1, <2>1
  <2> QED BY <1>6, <2>3, <2>4, <2>5 DEF Ring
<1>11. \A q \in Heads : Ring(next, tail[q], L[q])
  <2>1. Ring(next, Nil, <<>>)
    BY DEF Ring
  <2>2. tail[Path] = size - 1 /\ \A q \in Heads : q # Path => tail[q] = Nil
    BY <1>2, <1>3
  <2> QED BY <1>8, <1>10, <2>1, <2>2
<1>12. \A q \in Heads : \A n \in Nodes : Contains(L[q], n) <=> q = Path /\ n \in Links
  <2>1. \A n \in Nodes : ~Contains(<<>>, n)
    BY EmptySeq DEF Contains
  <2>2. ASSUME NEW n \in Links PROVE Contains(line, n)
    <3>1. n + 1 \in 1..size /\ line[n + 1] = n
      BY <1>1, <1>5
    <3> QED BY <1>6, <3>1 DEF Contains
  <2>3. ASSUME NEW n \in Nodes, Contains(line, n) PROVE n \in Links
    BY <1>1, <1>5, <1>6, <2>3 DEF Contains
  <2> QED BY <1>8, <2>1, <2>2, <2>3
<1>13. Stand(next, tail, L)
  <2>1. \A n \in Nodes : next[n] # Nil => n \in Links
    BY <1>3
  <2> QED BY <1>2, <1>8, <1>9, <1>11, <1>12, <2>1 DEF Stand
<1>14. lines = L
  BY <1>13, Standing
<1>15. RingInv
  <2>1. MovedAlone
    BY <1>3 DEF MovedAlone
  <2>2. socket \in [Links -> Sockets]
    BY <1>3 DEF Sockets
  <2> QED BY <1>13, <1>14, <2>1, <2>2 DEF RingInv
<1>16. Promise!Init
  <2>1. line \in SetToSeqs(Links)
    <3>1. line \in [1..size -> Links] /\ \A i, j \in 1..size : i # j => line[i] # line[j]
      BY <1>1, <1>5
    <3> QED BY <1>a, <3>1 DEF SetToSeqs
  <2>2. <<>> \in SetToSeqs({})
    <3>1. Cardinality({}) = 0
      BY FS_EmptySet
    <3>2. <<>> \in [1..0 -> {}] /\ \A i, j \in 1..0 : i # j => <<>>[i] # <<>>[j]
      OBVIOUS
    <3> QED BY <3>1, <3>2 DEF SetToSeqs
  <2>3. Links \in SUBSET Nodes /\ {} \in SUBSET Nodes
    BY <1>2
  <2>4. ASSUME NEW q \in Heads PROVE lines[q] \in UNION {SetToSeqs(E) : E \in SUBSET Nodes}
    BY <1>8, <1>14, <2>1, <2>2, <2>3
  <2>5. lines \in [Heads -> UNION {SetToSeqs(E) : E \in SUBSET Nodes}]
    <3>1. lines = [q \in Heads |-> lines[q]]
      BY <1>8, <1>14
    <3> QED BY <2>4, <3>1
  <2>6. Latecomers \subseteq Nodes
    BY DEF Latecomers, Nodes
  <2>7. ASSUME NEW q \in Heads, NEW r \in Heads, q # r
        PROVE  ToSet(lines[q]) \cap ToSet(lines[r]) = {}
    <3>1. ToSet(<<>>) = {}
      BY DEF ToSet
    <3>2. lines[q] = <<>> \/ lines[r] = <<>>
      BY <1>8, <1>14, <2>7
    <3> QED BY <3>1, <3>2
  <2> QED BY <2>5, <2>6, <2>7, SameWords DEF Promise!Init
<1> QED BY <1>15, <1>16

LEMMA AppendLast ==
  ASSUME NEW s \in Seq(Nodes), NEW n
  PROVE  \A m : Contains(Append(s, n), m) <=> Contains(s, m) \/ m = n
<1>1. PICK len \in Nat : len = Len(s)
  BY LenProperties
<1>2. Len(Append(s, n)) = len + 1 /\ \A i \in 1..len + 1 : Append(s, n)[i] = IF i = len + 1 THEN n ELSE s[i]
  BY <1>1
<1> QED BY <1>1, <1>2 DEF Contains

LEMMA PutBefore ==
  ASSUME NEW s \in Seq(Nodes), NEW n \in Nodes
  PROVE  \A m : Contains(<<n>> \o s, m) <=> Contains(s, m) \/ m = n
<1>1. PICK len \in Nat : len = Len(s)
  BY LenProperties
<1>2. <<n>> \in Seq(Nodes) /\ Len(<<n>>) = 1 /\ <<n>>[1] = n
  OBVIOUS
<1>3. PICK longer : longer = <<n>> \o s
  OBVIOUS
<1>4. Len(longer) = len + 1 /\ \A i \in 1..len + 1 : longer[i] = IF i = 1 THEN n ELSE s[i - 1]
  BY <1>1, <1>2, <1>3, ConcatProperties
<1>5. ASSUME NEW m, Contains(s, m) PROVE Contains(longer, m)
  <2>1. PICK i \in 1..len : s[i] = m
    BY <1>1, <1>5 DEF Contains
  <2>2. i + 1 \in 1..len + 1 /\ longer[i + 1] = m
    BY <1>4, <2>1
  <2> QED BY <1>4, <2>2 DEF Contains
<1>6. ASSUME NEW m, Contains(longer, m) PROVE Contains(s, m) \/ m = n
  <2>1. PICK i \in 1..len + 1 : longer[i] = m
    BY <1>4, <1>6 DEF Contains
  <2>2. CASE i = 1
    BY <1>4, <2>1, <2>2
  <2>3. CASE i # 1
    <3>1. i - 1 \in 1..len /\ s[i - 1] = m
      BY <1>4, <2>1, <2>3
    <3> QED BY <1>1, <3>1 DEF Contains
  <2> QED BY <2>2, <2>3
<1>7. Contains(longer, n)
  BY <1>4 DEF Contains
<1> QED BY <1>3, <1>5, <1>6, <1>7

\* What has no successor is in no line.
LEMMA OutOfLine ==
  ASSUME NEW succ, NEW lasts, NEW L, Stand(succ, lasts, L), NEW n \in Nodes, succ[n] = Nil
  PROVE  \A r \in Heads : ~Contains(L[r], n)
<1> SUFFICES ASSUME NEW r \in Heads, Contains(L[r], n) PROVE FALSE
  OBVIOUS
<1>1. L[r] \in Seq(Nodes) /\ Ring(succ, lasts[r], L[r])
  BY DEF Stand
<1>2. PICK len \in Nat : len = Len(L[r])
  BY <1>1, LenProperties
<1>3. PICK i \in 1..len : L[r][i] = n
  BY <1>2 DEF Contains
<1>4. succ[n] = L[r][IF i = len THEN 1 ELSE i + 1]
  BY <1>1, <1>2, <1>3 DEF Ring
<1>5. (IF i = len THEN 1 ELSE i + 1) \in 1..len
  BY <1>2, <1>3
<1>6. succ[n] \in Nodes
  BY <1>1, <1>2, <1>4, <1>5, LenProperties
<1> QED BY <1>6, NodesFinite

\* What the steps do to the lines: an element is put at one end of the line of q.
BothEnds(succ, lasts, L, q, n, new) ==
  /\ \A m \in Nodes : m # n /\ succ[m] = Nil => new[m] = Nil
  /\ Stand(new, [lasts EXCEPT ![q] = n], [L EXCEPT ![q] = Append(L[q], n)])
  /\ Stand(new, [lasts EXCEPT ![q] = IF lasts[q] = Nil THEN n ELSE lasts[q]],
           [L EXCEPT ![q] = <<n>> \o L[q]])

LEMMA Put ==
  ASSUME NEW succ, NEW lasts, NEW L, Stand(succ, lasts, L), NEW q \in Heads, NEW n \in Nodes, succ[n] = Nil,
         NEW new, new = IF lasts[q] = Nil THEN [succ EXCEPT ![n] = n]
                        ELSE [[succ EXCEPT ![n] = succ[lasts[q]]] EXCEPT ![lasts[q]] = n]
  PROVE  BothEnds(succ, lasts, L, q, n, new)
<1>1. /\ succ \in [Nodes -> Ends] /\ lasts[q] \in Ends /\ L[q] \in Seq(Nodes) /\ Ring(succ, lasts[q], L[q])
  BY DEF Stand
<1>2. ASSUME NEW r \in Heads PROVE ~Contains(L[r], n)
  BY OutOfLine
<1>3. \A i \in 1..Len(L[q]) : L[q][i] # n
  BY <1>2 DEF Contains
<1>4. /\ new \in [Nodes -> Ends] /\ new[n] # Nil
      /\ \A m \in Nodes : m # n /\ m # lasts[q] => new[m] = succ[m]
      /\ Append(L[q], n) \in Seq(Nodes) /\ Ring(new, n, Append(L[q], n))
      /\ <<n>> \o L[q] \in Seq(Nodes)
      /\ Ring(new, IF lasts[q] = Nil THEN n ELSE lasts[q], <<n>> \o L[q])
  <2>1. PICK last \in Ends : last = lasts[q]
    BY <1>1
  <2>2. PICK line \in Seq(Nodes) : line = L[q]
    BY <1>1
  <2>3. /\ Ring(succ, last, line) /\ \A i \in 1..Len(line) : line[i] # n
        /\ new = IF last = Nil THEN [succ EXCEPT ![n] = n]
                 ELSE [[succ EXCEPT ![n] = succ[last]] EXCEPT ![last] = n]
    BY <1>1, <1>3, <2>1, <2>2
  <2>4. RingGrown(succ, new, last, line, n)
    BY <1>1, <2>3, RingGrows
  <2> QED BY <2>1, <2>2, <2>4 DEF RingGrown
<1>5. lasts[q] = Nil \/ Contains(L[q], lasts[q])
  <2>1. PICK len \in Nat : len = Len(L[q])
    BY <1>1, LenProperties
  <2>2. SUFFICES ASSUME lasts[q] # Nil PROVE Contains(L[q], lasts[q])
    OBVIOUS
  <2>3. len > 0 /\ lasts[q] = L[q][len]
    BY <1>1, <2>1, <2>2, EmptySeq DEF Ring
  <2> QED BY <2>1, <2>3 DEF Contains
<1>6. \A m \in Nodes : m # n /\ ~Contains(L[q], m) => new[m] = succ[m]
  <2>1. Nil \notin Nodes
    BY NodesFinite
  <2> QED BY <1>4, <1>5, <2>1
<1>7. \A m \in Nodes : m # n /\ succ[m] = Nil => new[m] = Nil
  <2>1. \A m \in Nodes : succ[m] = Nil => m # lasts[q]
    <3>1. SUFFICES ASSUME lasts[q] # Nil PROVE succ[lasts[q]] # Nil
      BY NodesFinite
    <3>2. PICK len \in Nat : len = Len(L[q])
      BY <1>1, LenProperties
    <3>3. len > 0 /\ lasts[q] = L[q][len]
      BY <1>1, <3>1, <3>2, EmptySeq DEF Ring
    <3>4. len \in 1..len /\ 1 \in 1..len
      BY <3>3
    <3>5. succ[lasts[q]] = L[q][1]
      BY <1>1, <3>2, <3>3, <3>4 DEF Ring
    <3>6. L[q][1] \in Nodes
      BY <1>1, <3>2, <3>4, LenProperties
    <3> QED BY <3>5, <3>6, NodesFinite
  <2> QED BY <1>4, <2>1
<1>8. n \in Ends /\ (IF lasts[q] = Nil THEN n ELSE lasts[q]) \in Ends
  BY <1>1 DEF Ends
<1>9. Stand(new, [lasts EXCEPT ![q] = n], [L EXCEPT ![q] = Append(L[q], n)])
  <2>1. PICK line : line = Append(L[q], n)
    OBVIOUS
  <2>2. \A m : Contains(line, m) <=> Contains(L[q], m) \/ m = n
    BY <1>1, <2>1, AppendLast
  <2>3. line \in Seq(Nodes) /\ Ring(new, n, line)
    BY <1>4, <2>1
  <2>4. OnlyMoves(succ, new, L, q, n, line)
    BY <1>2, <1>6, <2>2 DEF OnlyMoves
  <2>5. Stand(new, [lasts EXCEPT ![q] = n], [L EXCEPT ![q] = line])
    BY <1>4, <1>8, <2>3, <2>4, OneMoves
  <2> QED BY <2>1, <2>5
<1>10. Stand(new, [lasts EXCEPT ![q] = IF lasts[q] = Nil THEN n ELSE lasts[q]],
             [L EXCEPT ![q] = <<n>> \o L[q]])
  <2>1. PICK line : line = <<n>> \o L[q]
    OBVIOUS
  <2>2. \A m : Contains(line, m) <=> Contains(L[q], m) \/ m = n
    BY <1>1, <2>1, PutBefore
  <2>3. PICK last \in Ends : last = IF lasts[q] = Nil THEN n ELSE lasts[q]
    BY <1>8
  <2>4. line \in Seq(Nodes) /\ Ring(new, last, line)
    BY <1>4, <2>1, <2>3
  <2>5. OnlyMoves(succ, new, L, q, n, line)
    BY <1>2, <1>6, <2>2 DEF OnlyMoves
  <2>6. Stand(new, [lasts EXCEPT ![q] = last], [L EXCEPT ![q] = line])
    BY <1>4, <2>3, <2>4, <2>5, OneMoves
  <2> QED BY <2>1, <2>3, <2>6
<1> QED BY <1>7, <1>9, <1>10 DEF BothEnds

\* Or its first element is taken.
FirstOff(succ, lasts, L, q, n, new) ==
  /\ L[q] # <<>> /\ n \in Nodes /\ n = Head(L[q])
  /\ \A m \in Nodes : succ[m] = Nil => new[m] = Nil
  /\ Stand(new, [lasts EXCEPT ![q] = IF n = lasts[q] THEN Nil ELSE lasts[q]],
           [L EXCEPT ![q] = Tail(L[q])])

LEMMA Take ==
  ASSUME NEW succ, NEW lasts, NEW L, Stand(succ, lasts, L), NEW q \in Heads, lasts[q] # Nil,
         NEW n, n = succ[lasts[q]],
         NEW new, new = IF n = lasts[q] THEN [succ EXCEPT ![lasts[q]] = Nil]
                        ELSE [succ EXCEPT ![lasts[q]] = succ[n], ![n] = Nil]
  PROVE  FirstOff(succ, lasts, L, q, n, new)
<1>1. /\ succ \in [Nodes -> Ends] /\ lasts[q] \in Nodes /\ L[q] \in Seq(Nodes) /\ Ring(succ, lasts[q], L[q])
  BY DEF Stand, Ends
<1>2. PICK line : line = Tail(L[q])
  OBVIOUS
<1>3. PICK last : last = IF n = lasts[q] THEN Nil ELSE lasts[q]
  OBVIOUS
<1>4. /\ L[q] # <<>> /\ n \in Nodes /\ n = Head(L[q]) /\ Contains(L[q], n) /\ Contains(L[q], lasts[q])
      /\ new \in [Nodes -> Ends] /\ new[n] = Nil
      /\ \A m \in Nodes : m # n /\ m # lasts[q] => new[m] = succ[m]
      /\ line \in Seq(Nodes)
      /\ \A m \in Nodes : Contains(line, m) <=> Contains(L[q], m) /\ m # n
      /\ Ring(new, last, line)
  <2>1. PICK end \in Nodes : end = lasts[q]
    BY <1>1
  <2>2. PICK whole \in Seq(Nodes) : whole = L[q]
    BY <1>1
  <2>3. /\ Ring(succ, end, whole) /\ n = succ[end]
        /\ new = IF n = end THEN [succ EXCEPT ![end] = Nil]
                 ELSE [succ EXCEPT ![end] = succ[n], ![n] = Nil]
    BY <1>1, <2>1, <2>2
  <2>4. Shrunk(succ, new, end, whole, n)
    BY <1>1, <2>3, RingShrinks
  <2> QED BY <1>2, <1>3, <2>1, <2>2, <2>4 DEF Shrunk
<1>5. last \in Ends
  BY <1>1, <1>3 DEF Ends
<1>6. \A r \in Heads : r # q => ~Contains(L[r], n)
  BY <1>4 DEF Stand
<1>7. Stand(new, [lasts EXCEPT ![q] = last], [L EXCEPT ![q] = line])
  <2>1. \A m \in Nodes : m # n /\ ~Contains(L[q], m) => new[m] = succ[m]
    BY <1>4
  <2>2. OnlyMoves(succ, new, L, q, n, line)
    BY <1>4, <1>6, <2>1 DEF OnlyMoves
  <2> QED BY <1>4, <1>5, <2>2, OneMoves
<1>8. succ[n] # Nil /\ succ[lasts[q]] # Nil
  <2>1. succ[lasts[q]] \in Nodes
    BY <1>4
  <2>2. PICK len \in Nat : len = Len(L[q])
    BY <1>1, LenProperties
  <2>3. PICK i \in 1..len : L[q][i] = n
    BY <1>4, <2>2 DEF Contains
  <2>4. succ[n] = L[q][IF i = len THEN 1 ELSE i + 1]
    BY <1>1, <2>2, <2>3 DEF Ring
  <2>5. (IF i = len THEN 1 ELSE i + 1) \in 1..len
    BY <2>2, <2>3
  <2>6. succ[n] \in Nodes
    BY <1>1, <2>2, <2>4, <2>5, LenProperties
  <2> QED BY <2>1, <2>6, NodesFinite
<1>9. \A m \in Nodes : succ[m] = Nil => new[m] = Nil
  BY <1>4, <1>8
<1> QED BY <1>2, <1>3, <1>4, <1>7, <1>9 DEF FirstOff

LEMMA RingWhole == RingInv => RingsWhole
<1> SUFFICES ASSUME RingInv PROVE RingsWhole
  OBVIOUS
<1>1. PICK L : L = lines
  OBVIOUS
<1>2. Stand(next, tail, L)
  BY <1>1 DEF RingInv
<1>3. ASSUME NEW q \in Heads, tail[q] # Nil PROVE Last(L[q]) = tail[q]
  <2>1. Ring(next, tail[q], L[q])
    BY <1>2 DEF Stand
  <2> QED BY <1>3, <2>1 DEF Ring, Last
<1>4. ASSUME NEW n \in Nodes
      PROVE  Cardinality({q \in Heads : Contains(L[q], n)}) = IF next[n] = Nil THEN 0 ELSE 1
  <2>1. CASE next[n] = Nil
    <3>1. \A q \in Heads : ~Contains(L[q], n)
      BY <1>2, <2>1, OutOfLine
    <3>2. {q \in Heads : Contains(L[q], n)} = {}
      BY <3>1
    <3> QED BY <2>1, <3>2, FS_EmptySet
  <2>2. CASE next[n] # Nil
    <3>1. PICK r \in Heads : Contains(L[r], n)
      BY <1>2, <2>2 DEF Stand
    <3>2. \A q \in Heads : Contains(L[q], n) => q = r
      BY <1>2, <3>1 DEF Stand
    <3>3. {q \in Heads : Contains(L[q], n)} = {r}
      BY <3>1, <3>2
    <3> QED BY <2>2, <3>3, FS_Singleton
  <2> QED BY <2>1, <2>2
<1> QED BY <1>1, <1>3, <1>4 DEF RingsWhole

LEMMA OutsideIs ==
  ASSUME NEW n \in Nodes, lines \in [Heads -> Seq(Nodes)], \A r \in Heads : ~Contains(lines[r], n)
  PROVE  n \in Promise!Outside
<1>1. ASSUME NEW r \in Heads PROVE n \notin Promise!ToSet(lines[r])
  <2>1. PICK s \in Seq(Nodes) : s = lines[r]
    OBVIOUS
  <2>2. DOMAIN s = 1..Len(s)
    BY LenProperties
  <2>3. n \notin ToSet(s)
    BY <2>1, <2>2 DEF ToSet, Contains
  <2> QED BY <2>1, <2>3, SameWords
<1> QED BY <1>1 DEF Promise!Outside

\* Each step of the rings is a step of the lines.
LEMMA RingStep ==
  OneMover /\ RingInv /\ [RingNext]_ringVars
     => RingInv' /\ [ringVars' # ringVars => Promise!Next]_<<lines, Latecomers>>
<1> SUFFICES ASSUME OneMover, RingInv, [RingNext]_ringVars
             PROVE  RingInv' /\ (Promise!Next \/ UNCHANGED <<lines, Latecomers>>)
  BY Zenon
<1>1. PICK L : L = lines
  OBVIOUS
<1>2. /\ Stand(next, tail, L) /\ socket \in [Links -> Sockets] /\ MovedAlone
      /\ next \in [Nodes -> Ends] /\ tail \in [Heads -> Ends] /\ L \in [Heads -> Seq(Nodes)]
  BY <1>1 DEF RingInv, Stand
<1>3. /\ Blocks \subseteq Nodes /\ Links \subseteq Nodes /\ Lists \subseteq Heads /\ Path \in Heads
      /\ Nil \notin Nodes /\ Blocks \cap Links = {} /\ Blocks \subseteq Latecomers
  BY RingAssumption, NodesFinite DEF Nodes, Heads, Latecomers
<1>4. ASSUME NEW M, Stand(next', tail', M), socket' \in [Links -> Sockets], MovedAlone'
      PROVE  RingInv' /\ lines' = M
  <2>1. lines' = M
    BY <1>4, StandingNext
  <2> QED BY <1>4, <2>1 DEF RingInv
<1>5. ASSUME UNCHANGED moving, \A m \in Blocks : next[m] = Nil => next'[m] = Nil
      PROVE  MovedAlone'
  BY <1>2, <1>5 DEF MovedAlone
<1>6. ASSUME NEW n \in Nodes, next[n] = Nil PROVE n \in Promise!Outside
  BY <1>1, <1>2, <1>6, OutOfLine, OutsideIs
<1>7. ASSUME NEW t \in Movers, NEW n \in Blocks, AddLook(t, n)
      PROVE  RingInv' /\ UNCHANGED <<lines, Latecomers>>
  <2>1. next' = next /\ tail' = tail /\ socket' = socket /\ Latecomers' = Latecomers
    BY <1>7 DEF AddLook, Latecomers
  <2>2. MovedAlone'
    BY <1>2, <1>7 DEF AddLook, OneMover, MovedAlone
  <2>3. Stand(next', tail', L)
    BY <1>2, <2>1
  <2> QED BY <1>1, <1>2, <1>4, <2>1, <2>2, <2>3
<1>8. ASSUME NEW t \in Movers, NEW q \in Lists, AddLink(t, q)
      PROVE  RingInv' /\ Promise!Next
  <2>1. PICK n : n = moving[t]
    OBVIOUS
  <2>2. /\ n \in Blocks /\ n \in Nodes /\ next[n] = Nil /\ next' = Linked(q, n)
        /\ tail' = [tail EXCEPT ![q] = n] /\ moving' = [moving EXCEPT ![t] = Nil] /\ socket' = socket /\ Latecomers' = Latecomers
    BY <1>2, <1>3, <1>8, <2>1 DEF AddLink, MovedAlone, Latecomers
  <2>3. PICK M : M = [L EXCEPT ![q] = Append(L[q], n)]
    OBVIOUS
  <2>4. /\ \A m \in Nodes : m # n /\ next[m] = Nil => next'[m] = Nil
        /\ Stand(next', tail', M)
    <3>1. next' = IF tail[q] = Nil THEN [next EXCEPT ![n] = n]
                  ELSE [[next EXCEPT ![n] = next[tail[q]]] EXCEPT ![tail[q]] = n]
      BY <2>2 DEF Linked
    <3>2. BothEnds(next, tail, L, q, n, next')
      BY <1>2, <1>3, <2>2, <3>1, Put
    <3> QED BY <2>2, <2>3, <3>2 DEF BothEnds
  <2>5. MovedAlone'
    BY <1>2, <1>3, <2>1, <2>2, <2>4 DEF MovedAlone
  <2>6. RingInv' /\ lines' = M
    BY <1>2, <1>4, <2>2, <2>4, <2>5
  <2>7. n \in Promise!Outside
    BY <1>6, <2>2
  <2>8. Promise!PutLast(q, n)
    BY <1>1, <1>3, <2>2, <2>3, <2>6 DEF Promise!PutLast
  <2> QED BY <1>3, <2>6, <2>7, <2>8 DEF Promise!Next
<1>9. ASSUME NEW q \in Lists, Get(q) PROVE RingInv' /\ Promise!Next
  <2>1. q \in Heads /\ tail[q] # Nil /\ tail[q] \in Nodes
    BY <1>2, <1>3, <1>9 DEF Get, Ends
  <2>2. PICK n : n = next[tail[q]]
    OBVIOUS
  <2>3. /\ next' = IF n = tail[q] THEN [next EXCEPT ![tail[q]] = Nil]
                   ELSE [next EXCEPT ![tail[q]] = next[n], ![n] = Nil]
        /\ tail' = [tail EXCEPT ![q] = IF n = tail[q] THEN Nil ELSE tail[q]]
        /\ socket' = socket /\ Latecomers' = Latecomers /\ moving' = moving
    BY <1>2, <1>9, <2>1, <2>2 DEF Get, Unlinked, Latecomers
  <2>4. PICK M : M = [L EXCEPT ![q] = Tail(L[q])]
    OBVIOUS
  <2>5. /\ L[q] # <<>> /\ \A m \in Nodes : next[m] = Nil => next'[m] = Nil
        /\ Stand(next', tail', M)
    <3>1. FirstOff(next, tail, L, q, n, next')
      BY <1>2, <2>1, <2>2, <2>3, Take
    <3> QED BY <2>3, <2>4, <3>1 DEF FirstOff
  <2>6. MovedAlone'
    BY <1>3, <1>5, <2>3, <2>5
  <2>7. RingInv' /\ lines' = M
    BY <1>2, <1>4, <2>3, <2>5, <2>6
  <2>8. Promise!TakeFirst(q)
    BY <1>1, <2>3, <2>4, <2>5, <2>7 DEF Promise!TakeFirst
  <2> QED BY <2>1, <2>7, <2>8 DEF Promise!Next
<1>10. ASSUME NEW n \in Links, GetLink(n) PROVE RingInv' /\ Promise!Next
  <2>1. tail[Path] # Nil /\ tail[Path] \in Nodes /\ n = next[tail[Path]] /\ n \in Nodes
    BY <1>2, <1>3, <1>10 DEF GetLink, Ends
  <2>2. /\ next' = IF n = tail[Path] THEN [next EXCEPT ![tail[Path]] = Nil]
                   ELSE [next EXCEPT ![tail[Path]] = next[n], ![n] = Nil]
        /\ tail' = [tail EXCEPT ![Path] = IF n = tail[Path] THEN Nil ELSE tail[Path]]
        /\ socket' = socket /\ Latecomers' = Latecomers /\ moving' = moving
    BY <1>2, <1>10, <2>1 DEF GetLink, Unlinked, Latecomers
  <2>3. PICK M : M = [L EXCEPT ![Path] = Tail(L[Path])]
    OBVIOUS
  <2>4. /\ L[Path] # <<>> /\ n = Head(L[Path])
        /\ \A m \in Nodes : next[m] = Nil => next'[m] = Nil
        /\ Stand(next', tail', M)
    <3>1. FirstOff(next, tail, L, Path, n, next')
      BY <1>2, <1>3, <2>1, <2>2, Take
    <3> QED BY <2>2, <2>3, <3>1 DEF FirstOff
  <2>5. MovedAlone'
    BY <1>3, <1>5, <2>2, <2>4
  <2>6. RingInv' /\ lines' = M
    BY <1>2, <1>4, <2>2, <2>4, <2>5
  <2>7. Promise!TakeFirst(Path)
    BY <1>1, <2>2, <2>3, <2>4, <2>6 DEF Promise!TakeFirst
  <2> QED BY <1>3, <2>6, <2>7 DEF Promise!Next
<1>11. ASSUME NEW n \in Links, AddConn(n) PROVE RingInv' /\ Promise!Next
  <2>1. /\ n \in Nodes /\ n \notin Blocks /\ next[n] = Nil
        /\ next' = IF tail[Path] = Nil THEN [next EXCEPT ![n] = n]
                   ELSE [[next EXCEPT ![n] = next[tail[Path]]] EXCEPT ![tail[Path]] = n]
        /\ tail' = [tail EXCEPT ![Path] = IF tail[Path] = Nil \/ socket[n] = "none" THEN n ELSE tail[Path]]
        /\ socket' = socket /\ Latecomers' = Latecomers /\ moving' = moving
    BY <1>2, <1>3, <1>11 DEF AddConn, Linked, Latecomers
  <2>2. n \in Promise!Outside
    BY <1>6, <2>1
  <2>3. PICK back : back = [L EXCEPT ![Path] = Append(L[Path], n)]
    OBVIOUS
  <2>4. PICK front : front = [L EXCEPT ![Path] = <<n>> \o L[Path]]
    OBVIOUS
  <2>5. /\ \A m \in Nodes : m # n /\ next[m] = Nil => next'[m] = Nil
        /\ Stand(next', [tail EXCEPT ![Path] = n], back)
        /\ Stand(next', [tail EXCEPT ![Path] = IF tail[Path] = Nil THEN n ELSE tail[Path]], front)
    <3>1. BothEnds(next, tail, L, Path, n, next')
      BY <1>2, <1>3, <2>1, Put
    <3> QED BY <2>3, <2>4, <3>1 DEF BothEnds
  <2>6. MovedAlone'
    BY <1>3, <1>5, <2>1, <2>5
  <2>7. CASE socket[n] = "none"
    <3>1. Stand(next', tail', back)
      BY <2>1, <2>5, <2>7
    <3>2. RingInv' /\ lines' = back
      BY <1>2, <1>4, <2>1, <2>6, <3>1
    <3>3. n \in Latecomers
      BY <2>7 DEF Latecomers
    <3>4. Promise!PutLast(Path, n)
      BY <1>1, <2>1, <2>3, <3>2, <3>3 DEF Promise!PutLast
    <3> QED BY <1>3, <2>2, <3>2, <3>4 DEF Promise!Next
  <2>8. CASE socket[n] # "none"
    <3>1. Stand(next', tail', front)
      BY <2>1, <2>5, <2>8
    <3>2. RingInv' /\ lines' = front
      BY <1>2, <1>4, <2>1, <2>6, <3>1
    <3>3. n \notin Latecomers
      BY <2>1, <2>8 DEF Latecomers
    <3>4. Promise!PutFirst(Path, n)
      BY <1>1, <2>1, <2>4, <3>2, <3>3 DEF Promise!PutFirst
    <3> QED BY <1>3, <2>2, <3>2, <3>4 DEF Promise!Next
  <2> QED BY <2>7, <2>8
<1>13. ASSUME NEW n \in Links, NEW s \in Sockets, socket' = [socket EXCEPT ![n] = s],
              UNCHANGED <<next, tail, moving>>
       PROVE  RingInv' /\ lines' = lines
  <2>1. /\ next' = next /\ tail' = tail /\ socket' \in [Links -> Sockets]
        /\ Stand(next', tail', L) /\ MovedAlone'
    BY <1>2, <1>13 DEF MovedAlone
  <2> QED BY <1>1, <1>4, <2>1
<1>14. ASSUME NEW n \in Links, Hold(n) PROVE RingInv' /\ Promise!Next
  <2>1. PICK s \in Sockets : socket' = [socket EXCEPT ![n] = s]
    BY <1>14 DEF Hold
  <2>2. next[n] = Nil /\ UNCHANGED <<next, tail, moving>>
    BY <1>14 DEF Hold
  <2>3. RingInv' /\ lines' = lines
    BY <1>13, <2>1, <2>2
  <2>4. n \in Nodes /\ n \in Promise!Outside
    BY <1>3, <1>6, <2>2
  <2>5. Latecomers' \cup {n} = Latecomers \cup {n}
    BY <1>2, <2>1 DEF Latecomers
  <2>6. Promise!Change(n)
    BY <2>3, <2>5 DEF Promise!Change
  <2> QED BY <2>3, <2>4, <2>6 DEF Promise!Next
<1>15. ASSUME NEW n \in Links, CheckClose(n) PROVE RingInv' /\ Promise!Next
  <2>1. socket' = [socket EXCEPT ![n] = "none"] /\ UNCHANGED <<next, tail, moving>>
    BY <1>15 DEF CheckClose
  <2>2. RingInv' /\ lines' = lines
    BY <1>13, <2>1 DEF Sockets
  <2>3. Latecomers' = Latecomers \cup {n}
    BY <1>2, <2>1 DEF Latecomers
  <2>4. Promise!BecomeLate(n)
    BY <2>2, <2>3 DEF Promise!BecomeLate
  <2> QED BY <1>3, <2>2, <2>4 DEF Promise!Next
<1>12. CASE UNCHANGED ringVars
  <2>1. next' = next /\ tail' = tail /\ socket' = socket /\ moving' = moving /\ Latecomers' = Latecomers
    BY <1>12 DEF ringVars, Latecomers
  <2>2. Stand(next', tail', L) /\ MovedAlone'
    BY <1>2, <2>1 DEF MovedAlone
  <2> QED BY <1>1, <1>2, <1>4, <2>1, <2>2
<1> QED BY <1>7, <1>8, <1>9, <1>10, <1>11, <1>12, <1>14, <1>15 DEF RingNext

\* The rings of the two pools keep what lines promise, as long as no two threads
\* look at one task before either has linked it (tpool.c:113-152, scpool.c:295-334).
THEOREM RingsAreLines == OneMover /\ RingSpec => ImplementsLines
<1> SUFFICES ASSUME OneMover PROVE RingSpec => ImplementsLines
  OBVIOUS
<1>1. RingInv /\ [RingNext]_ringVars
        => RingInv' /\ [ringVars' # ringVars => Promise!Next]_<<lines, Latecomers>>
  BY RingStep
<1>2. RingInit => RingInv
  BY RingStart
<1>3. RingInit => Promise!Init
  BY RingStart
<1>4. RingInv => RingsWhole
  BY RingWhole
<1> QED BY <1>1, <1>2, <1>3, <1>4, PTL DEF RingSpec, ImplementsLines

-----------------------------------------------------------------------------
(* Patterns. *)

LEMMA LowestIs ==
  ASSUME NEW S \in SUBSET Nat, S # {}
  PROVE  LowestOf(S) \in S /\ \A m \in S : LowestOf(S) <= m
BY LeastNumber DEF LowestOf

LEMMA HighestIs ==
  ASSUME NEW most \in Nat, NEW S \in SUBSET (0 .. most), S # {}
  PROVE  HighestOf(S) \in S /\ \A m \in S : m <= HighestOf(S)
<1> DEFINE T == {most - x : x \in S}
<1>1. PICK y \in T : \A z \in T : y <= z
  <2>1. T \in SUBSET Nat
    OBVIOUS
  <2>2. T # {}
    <3>1. PICK x \in S : TRUE
      OBVIOUS
    <3>2. most - x \in T
      OBVIOUS
    <3> QED BY <3>2
  <2> HIDE DEF T
  <2> QED BY <2>1, <2>2, LeastNumber
<1>2. PICK x \in S : y = most - x
  OBVIOUS
<1>3. ASSUME NEW m \in S PROVE m <= x
  <2>1. most - m \in T
    OBVIOUS
  <2>2. most - x <= most - m
    BY <1>1, <1>2, <2>1
  <2>3. m \in Nat /\ x \in Nat
    OBVIOUS
  <2> QED BY <2>2, <2>3
<1> QED BY <1>3 DEF HighestOf

\* Alignments divide each other.
Alignments == {1, 2, 4, 8, 16}

LEMMA RoundedIs ==
  ASSUME NEW k \in Nat, NEW to \in Alignments
  PROVE  /\ RoundedUp(k, to) \in Nat /\ RoundedUp(k, to) % to = 0
         /\ RoundedUp(k, to) - k \in 0 .. to - 1 /\ RoundedUp(0, to) = 0
<1>1. CASE to = 1
  BY <1>1 DEF RoundedUp
<1>2. CASE to = 2
  BY <1>2 DEF RoundedUp
<1>3. CASE to = 4
  BY <1>3 DEF RoundedUp
<1>4. CASE to = 8
  BY <1>4 DEF RoundedUp
<1>5. CASE to = 16
  BY <1>5 DEF RoundedUp
<1> QED BY <1>1, <1>2, <1>3, <1>4, <1>5 DEF Alignments

LEMMA Divides ==
  ASSUME NEW a \in Alignments, NEW b \in Alignments, a <= b
  PROVE  b % a = 0
<1>1. /\ 1 % 1 = 0 /\ 2 % 1 = 0 /\ 4 % 1 = 0 /\ 8 % 1 = 0 /\ 16 % 1 = 0
      /\ 2 % 2 = 0 /\ 4 % 2 = 0 /\ 8 % 2 = 0 /\ 16 % 2 = 0
      /\ 4 % 4 = 0 /\ 8 % 4 = 0 /\ 16 % 4 = 0 /\ 8 % 8 = 0 /\ 16 % 8 = 0 /\ 16 % 16 = 0
  OBVIOUS
<1>2. a = 1 \/ a = 2 \/ a = 4 \/ a = 8 \/ a = 16
  BY DEF Alignments
<1>3. b = 1 \/ b = 2 \/ b = 4 \/ b = 8 \/ b = 16
  BY DEF Alignments
<1>4. CASE a = 1
  BY <1>1, <1>3, <1>4
<1>5. CASE a = 2
  BY <1>1, <1>3, <1>5
<1>6. CASE a = 4
  BY <1>1, <1>3, <1>6
<1>7. CASE a = 8
  BY <1>1, <1>3, <1>7
<1>8. CASE a = 16
  BY <1>1, <1>3, <1>8
<1> QED BY <1>2, <1>4, <1>5, <1>6, <1>7, <1>8

Fits(o, s, sizes, aligns) ==
  /\ o.size \in Nat /\ o.align \in Alignments
  /\ \A i \in DOMAIN s : o.offsets[i] \in Nat /\ o.offsets[i] % aligns[s[i]] = 0
                         /\ o.align % aligns[s[i]] = 0
  /\ \A i \in DOMAIN s : i > 1 =>
       o.offsets[i] - (o.offsets[i - 1] + sizes[s[i - 1]]) \in 0 .. aligns[s[i]] - 1
  /\ s # <<>> => /\ o.offsets[1] = 0
                 /\ o.size - (o.offsets[Len(s)] + sizes[s[Len(s)]]) \in 0 .. o.align - 1
  /\ o.size % o.align = 0

LEMMA LaidOutIs ==
  ASSUME NEW K, NEW s \in Seq(K), NEW sizes \in [K -> Nat], NEW aligns \in [K -> Alignments]
  PROVE  Fits(LayOut(s, sizes, aligns), s, sizes, aligns)
<1>a. PICK o : o = LayOut(s, sizes, aligns)
  OBVIOUS
<1> DEFINE n == Len(s)
           Is(g) == g = [i \in 0 .. n |->
                      IF i = 0 THEN 0 ELSE RoundedUp(g[i - 1], aligns[s[i]]) + sizes[s[i]]]
           goes == [pair \in Nat \X Nat |->
                      IF pair[1] \in DOMAIN s
                      THEN RoundedUp(pair[2], aligns[s[pair[1]]]) + sizes[s[pair[1]]] ELSE 0]
           found == {aligns[s[i]] : i \in DOMAIN s}
           most == HighestOf({1} \cup found)
<1>0. n \in Nat /\ DOMAIN s = 1 .. n /\ \A i \in 1 .. n : s[i] \in K
  BY LenProperties
<1>1. \A i \in 1 .. n : aligns[s[i]] \in Alignments /\ sizes[s[i]] \in Nat
  BY <1>0
<1>2. \A i \in 1 .. n, k \in Nat : RoundedUp(k, aligns[s[i]]) + sizes[s[i]] \in Nat
  <2> TAKE i \in 1 .. n, k \in Nat
  <2>1. PICK to \in Alignments : to = aligns[s[i]]
    BY <1>1
  <2>2. RoundedUp(k, to) \in Nat
    BY RoundedIs
  <2> QED BY <1>1, <2>1, <2>2
<1>3. PICK h \in [0 .. n -> Nat] : IsRec(h, n, 0, goes)
  <2>1. goes \in [Nat \X Nat -> Nat]
    BY <1>0, <1>2
  <2>2. PICK typ : typ = Nat
    OBVIOUS
  <2>3. goes \in [Nat \X typ -> typ] /\ 0 \in typ
    BY <2>1, <2>2
  <2> HIDE DEF goes
  <2>4. \E h \in [0 .. n -> typ] : IsRec(h, n, 0, goes)
    BY <1>0, <2>3, RecExists
  <2> QED BY <2>2, <2>4
<1>4. Is(h)
  <2>1. \A k \in 1 .. n : h[k] = RoundedUp(h[k - 1], aligns[s[k]]) + sizes[s[k]]
    <3> TAKE k \in 1 .. n
    <3>1. k \in Nat /\ k - 1 \in 0 .. n /\ k \in DOMAIN s
      BY <1>0
    <3>2. h[k - 1] \in Nat
      BY <1>3, <3>1
    <3>3. h[k] = goes[<<k, h[k - 1]>>]
      BY <1>3 DEF IsRec
    <3> QED BY <3>1, <3>2, <3>3
  <2>2. h[0] = 0
    BY <1>3 DEF IsRec
  <2> QED BY <1>0, <2>1, <2>2
<1>5. PICK ends : ends = CHOOSE g : Is(g)
  OBVIOUS
<1>6. Is(ends)
  <2> HIDE DEF Is
  <2> QED BY <1>4, <1>5
<1>7. o = [offsets |-> [i \in DOMAIN s |-> RoundedUp(ends[i - 1], aligns[s[i]])],
           size |-> RoundedUp(ends[n], most), align |-> most]
  BY <1>5, <1>a DEF LayOut
<1>8. ends[0] = 0 /\ \A k \in 1 .. n : ends[k] = RoundedUp(ends[k - 1], aligns[s[k]]) + sizes[s[k]]
  BY <1>0, <1>6
<1> HIDE DEF Is, goes
<1>9. \A k \in 0 .. n : ends[k] \in Nat
  <2> DEFINE S == {k \in 0 .. n : ends[k] \in Nat}
  <2>1. 0 \in S
    BY <1>0, <1>8
  <2>2. ASSUME NEW k \in 0 .. n - 1, k \in S PROVE k + 1 \in S
    <3>1. k + 1 \in 1 .. n /\ (k + 1) - 1 = k
      BY <1>0
    <3>2. ends[k + 1] = RoundedUp(ends[k], aligns[s[k + 1]]) + sizes[s[k + 1]] /\ ends[k] \in Nat
      BY <1>8, <2>2, <3>1
    <3>3. PICK j \in Nat : j = ends[k]
      BY <3>2
    <3>4. ends[k + 1] \in Nat
      BY <1>2, <3>1, <3>2, <3>3
    <3>5. k + 1 \in 0 .. n
      BY <1>0
    <3> QED BY <3>4, <3>5
  <2> HIDE DEF S
  <2>3. \A k \in 0 .. n : k \in S
    BY <1>0, <2>1, <2>2, AllNumbers
  <2> QED BY <2>3 DEF S
<1>10. most \in Alignments /\ \A i \in 1 .. n : most % aligns[s[i]] = 0
  <2>1. {1} \cup found \in SUBSET (0 .. 16) /\ {1} \cup found \subseteq Alignments
    BY <1>0, <1>1 DEF Alignments
  <2>2. most \in {1} \cup found /\ \A m \in {1} \cup found : m <= most
    <3> HIDE DEF found
    <3> QED BY <2>1, HighestIs
  <2>3. \A a, b \in Alignments : a <= b => b % a = 0
    BY Divides
  <2>4. \A i \in 1 .. n : aligns[s[i]] \in found
    BY <1>0
  <2> HIDE DEF most, found
  <2> QED BY <1>1, <2>1, <2>2, <2>3, <2>4
<1>11. ASSUME NEW i \in 1 .. n
       PROVE  /\ o.offsets[i] = RoundedUp(ends[i - 1], aligns[s[i]])
              /\ o.offsets[i] \in Nat /\ o.offsets[i] % aligns[s[i]] = 0
              /\ o.offsets[i] - ends[i - 1] \in 0 .. aligns[s[i]] - 1
              /\ ends[i] = o.offsets[i] + sizes[s[i]]
  <2>1. o.offsets[i] = RoundedUp(ends[i - 1], aligns[s[i]])
    BY <1>0, <1>7
  <2>2. PICK k \in Nat : k = ends[i - 1]
    <3>1. i - 1 \in 0 .. n
      BY <1>0
    <3> QED BY <1>9, <3>1
  <2>3. PICK to \in Alignments : to = aligns[s[i]]
    BY <1>1
  <2> QED BY <1>8, <2>1, <2>2, <2>3, RoundedIs
<1>12. PICK to \in Alignments : to = most
  BY <1>10
<1>13. PICK k \in Nat : k = ends[n]
  BY <1>0, <1>9
<1>14. o.size = RoundedUp(k, to) /\ o.align = to
  BY <1>7, <1>12, <1>13
<1>15. o.size \in Nat /\ o.size % to = 0 /\ o.size - k \in 0 .. to - 1
  BY <1>14, RoundedIs
<1>16. ASSUME NEW i \in DOMAIN s, i > 1
       PROVE  o.offsets[i] - (o.offsets[i - 1] + sizes[s[i - 1]]) \in 0 .. aligns[s[i]] - 1
  <2>1. i \in 1 .. n /\ i - 1 \in 1 .. n
    BY <1>0, <1>16
  <2> QED BY <1>11, <2>1
<1>17. ASSUME s # <<>>
       PROVE  /\ o.offsets[1] = 0
              /\ o.size - (o.offsets[Len(s)] + sizes[s[Len(s)]]) \in 0 .. o.align - 1
  <2>1. 1 \in 1 .. n /\ n \in 1 .. n
    BY <1>0, <1>17, EmptySeq
  <2>2. o.offsets[1] = RoundedUp(0, aligns[s[1]])
    BY <1>8, <1>11, <2>1
  <2>3. o.offsets[1] = 0
    BY <1>1, <2>1, <2>2, RoundedIs
  <2>4. ends[n] = o.offsets[n] + sizes[s[n]]
    BY <1>11, <2>1
  <2> QED BY <1>13, <1>14, <1>15, <2>3, <2>4
<1>18. \A i \in DOMAIN s : o.align % aligns[s[i]] = 0
  BY <1>0, <1>10, <1>12, <1>14
<1>19. Fits(o, s, sizes, aligns)
  BY <1>0, <1>11, <1>12, <1>14, <1>15, <1>16, <1>17, <1>18 DEF Fits
<1> QED BY <1>a, <1>19

LEMMA LaidOutRight == ASSUME kinds \in Seq(Kinds) PROVE LaidOut
<1>1. SUFFICES ASSUME kinds # <<>> PROVE LaidOut
  BY DEF LaidOut
<1> DEFINE Simple == {"tiny", "short", "int", "int64", "ldouble", "bytes"}
<1>2. SizeOf \in [Simple -> Nat] /\ AlignOf \in [Simple -> Alignments]
  BY DEF SizeOf, AlignOf, Alignments
<1>3. Nested.size \in Nat /\ Nested.align \in Alignments
  <2>1. <<"short", "tiny", "int">> \in Seq(Simple)
    OBVIOUS
  <2> HIDE DEF Simple
  <2>2. Fits(Nested, <<"short", "tiny", "int">>, SizeOf, AlignOf)
    BY <1>2, <2>1, LaidOutIs DEF Nested
  <2> QED BY <2>2 DEF Fits
<1>4. KindLen \in [Kinds -> Nat] /\ KindAlign \in [Kinds -> Alignments]
  <2>1. \A kind \in Kinds : kind # "struct" => kind \in Simple
    BY PatternAssumption
  <2> QED BY <1>2, <1>3, <2>1 DEF KindLen, KindAlign
<1>5. PICK o : o = set_offset(kinds)
  OBVIOUS
<1>6. Fits(o, kinds, KindLen, KindAlign)
  BY <1>4, <1>5, LaidOutIs DEF set_offset
<1> QED BY <1>1, <1>5, <1>6 DEF LaidOut, Fits

-----------------------------------------------------------------------------
(* Ranks. *)

LEMMA Split ==
  ASSUME NEW S \in SUBSET Nat, IsFiniteSet(S), NEW c \in S
  PROVE  /\ IsFiniteSet({d \in S : d < c}) /\ IsFiniteSet({d \in S : d > c})
         /\ Cardinality({d \in S : d < c}) \in Nat /\ Cardinality({d \in S : d > c}) \in Nat
         /\ Cardinality(S) = Cardinality({d \in S : d < c}) + 1 + Cardinality({d \in S : d > c})
<1> DEFINE low == {d \in S : d < c}
           high == {d \in S : d > c}
<1>1. IsFiniteSet(low) /\ IsFiniteSet(high)
  BY FS_Subset
<1>2. Cardinality(low) \in Nat /\ Cardinality(high) \in Nat
  BY <1>1, FS_CardinalityType
<1>3. IsFiniteSet(low \cup {c}) /\ Cardinality(low \cup {c}) = Cardinality(low) + 1
  <2>1. c \notin low
    OBVIOUS
  <2> HIDE DEF low
  <2> QED BY <1>1, <2>1, FS_AddElement
<1>4. S = (low \cup {c}) \cup high /\ (low \cup {c}) \cap high = {}
  <2>1. \A d \in S : (d < c \/ d = c \/ d > c) /\ ~(d < c /\ d > c)
    OBVIOUS
  <2>2. ~(c > c)
    OBVIOUS
  <2>3. S \subseteq (low \cup {c}) \cup high
    BY <2>1
  <2>4. (low \cup {c}) \cup high \subseteq S
    OBVIOUS
  <2>5. \A d \in low \cup {c} : d \notin high
    BY <2>1, <2>2
  <2> QED BY <2>3, <2>4, <2>5
<1> HIDE DEF low, high
<1>5. Cardinality({}) = 0
  BY FS_EmptySet
<1>6. Cardinality((low \cup {c}) \cup high) = Cardinality(low \cup {c}) + Cardinality(high) - 0
  <2>1. PICK T : T = low \cup {c}
    OBVIOUS
  <2>2. IsFiniteSet(T) /\ T \cap high = {}
    BY <1>3, <1>4, <2>1
  <2>3. Cardinality(T \cup high) = Cardinality(T) + Cardinality(high) - Cardinality(T \cap high)
    BY <1>1, <2>2, FS_Union
  <2> QED BY <1>5, <2>1, <2>2, <2>3
<1>7. Cardinality(S) = Cardinality(low) + 1 + Cardinality(high)
  BY <1>2, <1>3, <1>4, <1>6
<1> QED BY <1>1, <1>2, <1>7 DEF low, high

\* Some element of a finite set has as many below it as we please.
LEMMA RankLow ==
  ASSUME NEW S \in SUBSET Nat, IsFiniteSet(S), NEW r \in 0 .. Cardinality(S) - 1
  PROVE  \E c \in S : Cardinality({d \in S : d < c}) = r
<1> DEFINE n == Cardinality(S)
           R == {k \in 0 .. n - 1 : \E c \in S : Cardinality({d \in S : d < c}) = k}
<1>1. n \in Nat
  BY FS_CardinalityType
<1>2. 0 <= n - 1
  BY <1>1
<1>3. 0 \in R
  <2>1. S # {}
    BY <1>1, <1>2, FS_EmptySet
  <2>2. PICK c \in S : \A d \in S : c <= d
    BY <2>1, LeastNumber
  <2>3. {d \in S : d < c} = {}
    <3>1. \A d \in S : ~(d < c)
      BY <2>2
    <3> QED BY <3>1
  <2>4. Cardinality({d \in S : d < c}) = 0
    BY <2>3, FS_EmptySet
  <2>5. 0 \in 0 .. n - 1
    BY <1>1, <1>2
  <2> QED BY <2>4, <2>5
<1>4. ASSUME NEW k \in 0 .. (n - 1) - 1, k \in R PROVE k + 1 \in R
  <2>1. PICK c \in S : Cardinality({d \in S : d < c}) = k
    BY <1>4
  <2> DEFINE low == {d \in S : d < c}
             high == {d \in S : d > c}
  <2>2. IsFiniteSet(low) /\ IsFiniteSet(high) /\ Cardinality(high) \in Nat /\ n = k + 1 + Cardinality(high)
    BY <2>1, Split
  <2>3. high # {}
    <3>1. Cardinality(high) # 0
      BY <1>1, <2>2
    <3> HIDE DEF high
    <3> QED BY <3>1, FS_EmptySet
  <2>4. PICK e \in high : \A d \in high : e <= d
    <3>1. high \in SUBSET Nat
      OBVIOUS
    <3> HIDE DEF high
    <3> QED BY <2>3, <3>1, LeastNumber
  <2>5. {d \in S : d < e} = low \cup {c} /\ c \notin low
    <3>1. ASSUME NEW d \in S PROVE d < e <=> (d < c \/ d = c)
      <4>1. d \in Nat /\ c \in Nat /\ e \in Nat /\ e > c
        BY <2>4
      <4>2. d > c => e <= d
        BY <2>4
      <4> QED BY <4>1, <4>2
    <3>2. \A d \in {d \in S : d < e} : d \in low \cup {c}
      BY <3>1
    <3>3. c < e
      BY <3>1
    <3>4. \A d \in low \cup {c} : d \in {x \in S : x < e}
      BY <3>1
    <3>5. c \notin low
      OBVIOUS
    <3> QED BY <3>2, <3>4, <3>5
  <2>6. Cardinality(low \cup {c}) = k + 1
    <3>1. Cardinality(low) = k
      BY <2>1
    <3> HIDE DEF low
    <3> QED BY <2>2, <2>5, <3>1, FS_AddElement
  <2>7. e \in S /\ Cardinality({d \in S : d < e}) = k + 1
    BY <2>4, <2>5, <2>6
  <2>8. k + 1 \in 0 .. n - 1
    BY <1>1
  <2> QED BY <2>7, <2>8
<1>5. r \in R
  <2>1. n - 1 \in Nat
    BY <1>1, <1>2
  <2> HIDE DEF R, n
  <2>2. \A k \in 0 .. n - 1 : k \in R
    BY <1>3, <1>4, <2>1, AllNumbers
  <2> QED BY <2>2 DEF n
<1> QED BY <1>5

LEMMA RankHigh ==
  ASSUME NEW S \in SUBSET Nat, IsFiniteSet(S), NEW r \in 0 .. Cardinality(S) - 1
  PROVE  \E c \in S : Cardinality({d \in S : d > c}) = r
<1>1. Cardinality(S) \in Nat
  BY FS_CardinalityType
<1>2. PICK rest : rest = Cardinality(S) - 1 - r
  OBVIOUS
<1>3. rest \in 0 .. Cardinality(S) - 1
  BY <1>1, <1>2
<1>4. PICK c \in S : Cardinality({d \in S : d < c}) = rest
  BY <1>3, RankLow
<1>5. /\ Cardinality({d \in S : d > c}) \in Nat
      /\ Cardinality(S) = rest + 1 + Cardinality({d \in S : d > c})
  BY <1>4, Split
<1>6. Cardinality({d \in S : d > c}) = r
  <2>1. PICK high : high = Cardinality({d \in S : d > c})
    OBVIOUS
  <2>2. high \in Nat /\ Cardinality(S) = rest + 1 + high
    BY <1>5, <2>1
  <2>3. high = r
    BY <1>1, <1>2, <1>3, <2>2
  <2> QED BY <2>1, <2>3
<1> QED BY <1>6

\* What is larger has fewer above it, and more below it.
LEMMA RankStrict ==
  ASSUME NEW S \in SUBSET Nat, IsFiniteSet(S), NEW a \in S, NEW b \in S, a < b
  PROVE  /\ Cardinality({d \in S : d < a}) < Cardinality({d \in S : d < b})
         /\ Cardinality({d \in S : d > b}) < Cardinality({d \in S : d > a})
<1> DEFINE low(c) == {d \in S : d < c}
<1>1. IsFiniteSet(low(b)) /\ IsFiniteSet(low(a)) /\ Cardinality(low(b)) \in Nat /\ Cardinality(low(a)) \in Nat
  BY Split
<1>2. low(a) \in SUBSET low(b) /\ a \in low(b) /\ a \notin low(a)
  <2>1. a \in Nat /\ b \in Nat /\ \A d \in S : d \in Nat
    OBVIOUS
  <2>2. \A d \in S : d < a => d < b
    BY <2>1
  <2>3. ~(a < a)
    BY <2>1
  <2> QED BY <2>2, <2>3
<1>3. Cardinality(low(a)) <= Cardinality(low(b)) /\ (Cardinality(low(b)) = Cardinality(low(a)) => low(b) = low(a))
  <2>1. PICK A, B : A = low(a) /\ B = low(b)
    OBVIOUS
  <2>2. IsFiniteSet(B) /\ A \in SUBSET B
    BY <1>1, <1>2, <2>1
  <2>3. Cardinality(A) <= Cardinality(B) /\ (Cardinality(B) = Cardinality(A) => B = A)
    BY <2>2, FS_Subset
  <2> QED BY <2>1, <2>3
<1>4. Cardinality(low(a)) < Cardinality(low(b))
  <2>1. low(a) # low(b)
    BY <1>2
  <2> HIDE DEF low
  <2> QED BY <1>1, <1>3, <2>1
<1>5. /\ Cardinality(S) = Cardinality(low(a)) + 1 + Cardinality({d \in S : d > a})
      /\ Cardinality(S) = Cardinality(low(b)) + 1 + Cardinality({d \in S : d > b})
      /\ Cardinality({d \in S : d > a}) \in Nat /\ Cardinality({d \in S : d > b}) \in Nat
  BY Split
<1> HIDE DEF low
<1>6. Cardinality({d \in S : d > b}) < Cardinality({d \in S : d > a})
  BY <1>1, <1>4, <1>5
<1> QED BY <1>4, <1>6 DEF low

-----------------------------------------------------------------------------
(* The index. *)

Searched == names \in Seq(Names) /\ names # <<>> /\ hash_name \in [Names -> 0 .. Len(names) - 1]

LEMMA PlacesAre ==
  ASSUME Searched
  PROVE  /\ Len(names) \in Nat \ {0} /\ Columns \in SUBSET Nat
         /\ IsFiniteSet(Columns) /\ IsFiniteSet(Late) /\ IsFiniteSet(LeftOver)
         /\ Late \subseteq Columns /\ LeftOver \subseteq Columns
         /\ \A c \in Columns : c + 1 \in DOMAIN names /\ names[c + 1] \in Names /\ Home(c) \in Columns
         /\ \A i \in DOMAIN names : i - 1 \in Columns /\ (i - 1) + 1 = i
<1>1. Len(names) \in Nat \ {0} /\ DOMAIN names = 1 .. Len(names)
  BY EmptySeq, LenProperties DEF Searched
<1>2. Columns \in SUBSET Nat /\ IsFiniteSet(Columns)
  BY <1>1, FS_Interval DEF Columns
<1>3. Late \subseteq Columns /\ LeftOver \subseteq Columns
  BY DEF Late, LeftOver
<1>4. IsFiniteSet(Late) /\ IsFiniteSet(LeftOver)
  BY <1>2, <1>3, FS_Subset
<1>5. ASSUME NEW c \in Columns
      PROVE  c + 1 \in DOMAIN names /\ names[c + 1] \in Names /\ Home(c) \in Columns
  <2>1. c + 1 \in 1 .. Len(names)
    BY <1>1 DEF Columns
  <2>2. names[c + 1] \in Names
    BY <1>1, <2>1 DEF Searched
  <2> QED BY <1>1, <2>1, <2>2 DEF Searched, Columns, Home
<1>6. \A i \in DOMAIN names : i - 1 \in Columns /\ (i - 1) + 1 = i
  BY <1>1 DEF Columns
<1> QED BY <1>1, <1>2, <1>3, <1>4, <1>5, <1>6

\* One column of every place that is a home is the first.
LEMMA FirstOf ==
  ASSUME Searched, NEW c \in Columns
  PROVE  \E f \in Columns \ Late : Home(f) = Home(c) /\ f <= c
<1> DEFINE S == {b \in Columns : Home(b) = Home(c)}
<1>1. PICK f \in S : \A b \in S : f <= b
  <2>1. S \in SUBSET Nat /\ c \in S
    BY PlacesAre
  <2> HIDE DEF S
  <2> QED BY <2>1, LeastNumber
<1>2. f \notin Late
  <2>1. SUFFICES ASSUME NEW b \in 0 .. f - 1, Home(b) = Home(f) PROVE FALSE
    BY DEF Late
  <2>2. f \in Nat /\ f \in 0 .. Len(names) - 1 /\ Len(names) \in Nat
    BY <1>1, PlacesAre DEF Columns
  <2>3. b \in Columns
    BY <2>2 DEF Columns
  <2>4. b \in S
    BY <2>1, <2>3
  <2> QED BY <1>1, <2>2, <2>4
<1> QED BY <1>1, <1>2

LEMMA OneFirst ==
  ASSUME Searched, NEW f \in Columns \ Late, NEW g \in Columns \ Late, Home(f) = Home(g)
  PROVE  f = g
<1>1. f \in Nat /\ g \in Nat
  BY PlacesAre
<1>2. ASSUME NEW a \in Columns \ Late, NEW b \in Columns \ Late, Home(a) = Home(b), a < b PROVE FALSE
  <2>1. a \in Nat /\ b \in Nat
    BY PlacesAre
  <2>2. a \in 0 .. b - 1
    BY <1>2, <2>1
  <2> QED BY <1>2, <2>2 DEF Late
<1> QED BY <1>1, <1>2

\* As many places are left over as columns come late.
LEMMA SameMany ==
  ASSUME Searched
  PROVE  Cardinality(Late) = Cardinality(LeftOver)
<1> DEFINE first == Columns \ Late
           homes == {Home(c) : c \in Columns}
           home == [c \in first |-> Home(c)]
<1>1. homes \subseteq Columns /\ IsFiniteSet(homes) /\ IsFiniteSet(first) /\ IsFiniteSet(Columns)
  <2>1. homes \subseteq Columns /\ IsFiniteSet(Columns)
    BY PlacesAre
  <2>2. IsFiniteSet(first)
    BY <2>1, FS_Subset
  <2> HIDE DEF homes
  <2> QED BY <2>1, <2>2, FS_Subset
<1>2. home \in Injection(first, homes)
  <2>1. home \in [first -> homes]
    OBVIOUS
  <2>2. \A a, b \in first : home[a] = home[b] => a = b
    BY OneFirst
  <2> HIDE DEF home, first, homes
  <2> QED BY <2>1, <2>2 DEF Injection, IsInjective
<1>3. home \in Surjection(first, homes)
  <2>1. home \in [first -> homes]
    OBVIOUS
  <2>2. \A h \in homes : \E f \in first : home[f] = h
    <3> TAKE h \in homes
    <3>1. PICK c \in Columns : h = Home(c)
      OBVIOUS
    <3>2. PICK f \in first : Home(f) = Home(c)
      BY FirstOf
    <3> QED BY <3>1, <3>2
  <2> HIDE DEF home, first, homes
  <2> QED BY <2>1, <2>2 DEF Surjection
<1>4. Cardinality(first) = Cardinality(homes)
  <2> HIDE DEF home, first, homes
  <2> QED BY <1>1, <1>2, <1>3, FS_Injection
<1>5. Cardinality(first) = Cardinality(Columns) - Cardinality(Late)
  <2>1. Columns \cap Late = Late
    BY PlacesAre
  <2> QED BY <1>1, <2>1, FS_Difference
<1>6. Cardinality(LeftOver) = Cardinality(Columns) - Cardinality(homes)
  <2>1. Columns \cap homes = homes
    BY <1>1
  <2>2. LeftOver = Columns \ homes
    BY DEF LeftOver
  <2> HIDE DEF homes
  <2> QED BY <1>1, <2>1, <2>2, FS_Difference
<1>7. Cardinality(Columns) \in Nat /\ Cardinality(Late) \in Nat /\ Cardinality(LeftOver) \in Nat
      /\ Cardinality(homes) \in Nat
  <2> HIDE DEF homes
  <2> QED BY <1>1, PlacesAre, FS_CardinalityType
<1> QED BY <1>4, <1>5, <1>6, <1>7

\* The column on top of the stack: as many late ones behind it as places left over
\* before the place.
LEMMA OnTopIs ==
  ASSUME Searched, NEW p \in LeftOver
  PROVE  /\ OnTop(p) \in Late
         /\ Cardinality({d \in Late : d > OnTop(p)}) = Cardinality({q \in LeftOver : q < p})
<1>1. Late \in SUBSET Nat /\ LeftOver \in SUBSET Nat /\ IsFiniteSet(Late) /\ IsFiniteSet(LeftOver)
  BY PlacesAre
<1>2. Cardinality({q \in LeftOver : q < p}) \in 0 .. Cardinality(LeftOver) - 1
  <2>1. PICK low, high : /\ low = Cardinality({q \in LeftOver : q < p})
                         /\ high = Cardinality({q \in LeftOver : q > p})
    OBVIOUS
  <2>2. low \in Nat /\ high \in Nat /\ Cardinality(LeftOver) = low + 1 + high
    BY <1>1, <2>1, Split
  <2> QED BY <2>1, <2>2
<1>3. \E c \in Late : Cardinality({d \in Late : d > c}) = Cardinality({q \in LeftOver : q < p})
  BY <1>1, <1>2, SameMany, RankHigh
<1> QED BY <1>3 DEF OnTop

\* Of two columns one has more behind it.
LEMMA SameRank ==
  ASSUME Searched, NEW a \in Late, NEW b \in Late,
         Cardinality({d \in Late : d > a}) = Cardinality({d \in Late : d > b})
  PROVE  a = b
<1>1. Late \in SUBSET Nat /\ IsFiniteSet(Late)
  BY PlacesAre
<1>2. a \in Nat /\ b \in Nat
  BY <1>1
<1>3. /\ Cardinality({d \in Late : d > a}) \in Nat /\ Cardinality({d \in Late : d > b}) \in Nat
  BY <1>1, Split
<1>4. a < b => Cardinality({d \in Late : d > b}) < Cardinality({d \in Late : d > a})
  BY <1>1, RankStrict
<1>5. b < a => Cardinality({d \in Late : d > a}) < Cardinality({d \in Late : d > b})
  BY <1>1, RankStrict
<1> QED BY <1>2, <1>3, <1>4, <1>5

LEMMA OnTopOver ==
  ASSUME Searched, NEW c \in Late
  PROVE  \E p \in LeftOver : OnTop(p) = c
<1>1. Late \in SUBSET Nat /\ LeftOver \in SUBSET Nat /\ IsFiniteSet(Late) /\ IsFiniteSet(LeftOver)
  BY PlacesAre
<1>2. Cardinality({d \in Late : d > c}) \in 0 .. Cardinality(Late) - 1
  <2>1. PICK low, high : /\ low = Cardinality({d \in Late : d < c})
                         /\ high = Cardinality({d \in Late : d > c})
    OBVIOUS
  <2>2. low \in Nat /\ high \in Nat /\ Cardinality(Late) = low + 1 + high
    BY <1>1, <2>1, Split
  <2> QED BY <2>1, <2>2
<1>3. PICK p \in LeftOver : Cardinality({q \in LeftOver : q < p}) = Cardinality({d \in Late : d > c})
  BY <1>1, <1>2, SameMany, RankLow
<1> QED BY <1>3, OnTopIs, SameRank

LEMMA OnTopFalls ==
  ASSUME Searched, NEW p \in LeftOver, NEW q \in LeftOver, p < q
  PROVE  OnTop(q) < OnTop(p)
<1>1. Late \in SUBSET Nat /\ LeftOver \in SUBSET Nat /\ IsFiniteSet(Late) /\ IsFiniteSet(LeftOver)
  BY PlacesAre
<1>2. PICK a \in Late, b \in Late : a = OnTop(p) /\ b = OnTop(q)
  BY OnTopIs
<1>3. Cardinality({d \in Late : d > a}) < Cardinality({d \in Late : d > b})
  <2>1. Cardinality({x \in LeftOver : x < p}) < Cardinality({x \in LeftOver : x < q})
    BY <1>1, RankStrict
  <2> QED BY <1>2, <2>1, OnTopIs
<1>4. /\ Cardinality({d \in Late : d > a}) \in Nat /\ Cardinality({d \in Late : d > b}) \in Nat
  BY <1>1, Split
<1>5. a < b => Cardinality({d \in Late : d > b}) < Cardinality({d \in Late : d > a})
  BY <1>1, RankStrict
<1>6. a # b
  BY <1>3, <1>4
<1> QED BY <1>1, <1>2, <1>3, <1>4, <1>5, <1>6

\* Every place has a column, a home the first of its columns.
LEMMA ColumnAtIs ==
  ASSUME Searched
  PROVE  /\ ColumnAt \in [Columns -> Columns]
         /\ \A p \in LeftOver : ColumnAt[p] = OnTop(p)
         /\ \A p \in Columns \ LeftOver : ColumnAt[p] \in Columns \ Late /\ Home(ColumnAt[p]) = p
<1>1. ASSUME NEW p \in Columns \ LeftOver PROVE Taken(p) \in Columns \ Late /\ Home(Taken(p)) = p
  <2>1. PICK c \in Columns : Home(c) = p
    BY DEF LeftOver
  <2>2. \E f \in Columns \ Late : Home(f) = p
    BY <2>1, FirstOf
  <2> QED BY <2>2 DEF Taken
<1>2. \A p \in LeftOver : p \in Columns /\ OnTop(p) \in Columns
  BY OnTopIs, PlacesAre
<1> QED BY <1>1, <1>2 DEF ColumnAt

\* Every column has a place.
LEMMA ColumnAtOver ==
  ASSUME Searched, NEW c \in Columns
  PROVE  \/ c \in Late /\ \E p \in LeftOver : ColumnAt[p] = c
         \/ c \notin Late /\ Home(c) \in Columns \ LeftOver /\ ColumnAt[Home(c)] = c
<1>1. CASE c \in Late
  BY <1>1, OnTopOver, ColumnAtIs
<1>2. CASE c \notin Late
  <2>1. Home(c) \in Columns \ LeftOver
    BY PlacesAre DEF LeftOver
  <2>2. ColumnAt[Home(c)] \in Columns \ Late /\ Home(ColumnAt[Home(c)]) = Home(c)
    BY <2>1, ColumnAtIs
  <2>3. ColumnAt[Home(c)] = c
    BY <1>2, <2>2, OneFirst
  <2> QED BY <1>2, <2>1, <2>3
<1> QED BY <1>1, <1>2

\* The places left over that are linked behind p, or below it.
LinkedTo(p) ==
  {q \in LeftOver : Home(ColumnAt[q]) = Home(ColumnAt[p]) /\ (p \in LeftOver => q < p)}

LEMMA LinkIs ==
  ASSUME Searched, NEW p \in Columns, NEW l, l = LinkOf(ColumnAt, p)
  PROVE  /\ l = -1 <=> LinkedTo(p) = {}
         /\ l # -1 => l \in LinkedTo(p) /\ \A q \in LinkedTo(p) : q <= l
<1>1. PICK linked : linked = LinkedTo(p)
  OBVIOUS
<1>2. l = IF linked = {} THEN -1 ELSE HighestOf(linked)
  BY <1>1 DEF LinkOf, LinkedTo
<1>3. linked \in SUBSET Columns
  BY <1>1, PlacesAre DEF LinkedTo
<1>4. linked # {} => HighestOf(linked) \in linked /\ \A q \in linked : q <= HighestOf(linked)
  <2>1. PICK most \in Nat : Columns = 0 .. most
    BY PlacesAre DEF Columns
  <2> QED BY <1>3, <2>1, HighestIs
<1>5. \A q \in linked : q # -1
  BY <1>3, PlacesAre
<1> QED BY <1>1, <1>2, <1>4, <1>5

\* The places from the home of a name.
LEMMA PlacesFromIs ==
  ASSUME Searched, NEW name \in Names, NEW colp, colp = mk_col_idx, NEW place, place = PlacesFrom(colp, name)
  PROVE  /\ place \in [0 .. Len(names) + 1 -> Columns \cup {-1}] /\ place[0] = hash_name[name]
         /\ \A k \in 0 .. Len(names) : place[k] = -1 => place[k + 1] = -1
         /\ \A k \in 0 .. Len(names) : place[k] # -1 => place[k + 1] = LinkOf(ColumnAt, place[k])
<1> DEFINE n == Len(names)
           X == Columns \cup {-1}
           Is(g) == g = [k \in 0 .. n + 1 |->
                           IF k = 0 THEN hash_name[name]
                           ELSE IF g[k - 1] = -1 THEN -1 ELSE colp[g[k - 1]].link]
           goes == [pair \in Nat \X X |-> IF pair[2] = -1 THEN -1 ELSE colp[pair[2]].link]
<1>1. n \in Nat \ {0} /\ hash_name[name] \in X
  BY PlacesAre DEF Searched, Columns
<1>2. \A p \in Columns : colp[p].link = LinkOf(ColumnAt, p) /\ colp[p].colno = ColumnAt[p]
  BY DEF mk_col_idx
<1>3. \A p \in Columns : LinkOf(ColumnAt, p) \in X
  <2> TAKE p \in Columns
  <2>1. \A q \in LinkedTo(p) : q \in Columns
    BY PlacesAre DEF LinkedTo
  <2> QED BY <2>1, LinkIs
<1>4. goes \in [Nat \X X -> X]
  <2>1. ASSUME NEW pair \in Nat \X X PROVE (IF pair[2] = -1 THEN -1 ELSE colp[pair[2]].link) \in X
    <3>1. pair[2] \in X
      OBVIOUS
    <3> QED BY <1>2, <1>3, <3>1
  <2> QED BY <2>1
<1>5. PICK h \in [0 .. n + 1 -> X] : IsRec(h, n + 1, hash_name[name], goes)
  <2>1. n + 1 \in Nat
    BY <1>1
  <2> HIDE DEF goes, X, n
  <2> QED BY <1>1, <1>4, <2>1, RecExists
<1>6. h[0] = hash_name[name]
  BY <1>5 DEF IsRec
<1>7. ASSUME NEW k \in 1 .. n + 1
      PROVE  h[k] = IF h[k - 1] = -1 THEN -1 ELSE colp[h[k - 1]].link
  <2>1. k - 1 \in 0 .. n + 1 /\ k \in Nat
    BY <1>1
  <2>2. h[k - 1] \in X
    BY <1>5, <2>1
  <2>3. h[k] = goes[<<k, h[k - 1]>>]
    BY <1>5 DEF IsRec
  <2> QED BY <2>1, <2>2, <2>3
<1>8. Is(h)
  <2>1. \A k \in 0 .. n + 1 : h[k] = IF k = 0 THEN hash_name[name]
                                     ELSE IF h[k - 1] = -1 THEN -1 ELSE colp[h[k - 1]].link
    <3> TAKE k \in 0 .. n + 1
    <3>1. k = 0 \/ k \in 1 .. n + 1
      BY <1>1
    <3>2. k \in 1 .. n + 1 => k # 0
      BY <1>1
    <3> HIDE DEF goes, X, n
    <3> QED BY <1>6, <1>7, <3>1, <3>2
  <2> HIDE DEF goes, X
  <2> QED BY <2>1
<1>9. place = CHOOSE g : Is(g)
  BY DEF PlacesFrom
<1>10. Is(place)
  <2> HIDE DEF Is
  <2> QED BY <1>8, <1>9
<1>11. place[0] = hash_name[name]
  BY <1>1, <1>10
<1>12. \A k \in 1 .. n + 1 : place[k] = IF place[k - 1] = -1 THEN -1 ELSE colp[place[k - 1]].link
  <2> TAKE k \in 1 .. n + 1
  <2>1. k \in 0 .. n + 1 /\ k # 0
    BY <1>1
  <2> QED BY <1>10, <2>1
<1>13. ASSUME NEW k \in 0 .. n
       PROVE  place[k + 1] = IF place[k] = -1 THEN -1 ELSE colp[place[k]].link
  <2>1. k + 1 \in 1 .. n + 1 /\ (k + 1) - 1 = k
    BY <1>1
  <2> HIDE DEF Is
  <2> QED BY <1>12, <2>1
<1>14. \A k \in 0 .. n + 1 : place[k] \in X
  <2> DEFINE S == {k \in 0 .. n + 1 : place[k] \in X}
  <2>1. 0 \in S
    BY <1>1, <1>11
  <2>2. ASSUME NEW k \in 0 .. (n + 1) - 1, k \in S PROVE k + 1 \in S
    <3>1. k \in 0 .. n /\ k + 1 \in 0 .. n + 1
      BY <1>1
    <3>2. place[k] \in X
      BY <2>2
    <3>3. place[k + 1] \in X
      <4> HIDE DEF Is, S
      <4> QED BY <1>2, <1>3, <1>13, <3>1, <3>2
    <3> QED BY <3>1, <3>3
  <2>3. n + 1 \in Nat
    BY <1>1
  <2> HIDE DEF S
  <2>4. \A k \in 0 .. n + 1 : k \in S
    BY <2>1, <2>2, <2>3, AllNumbers
  <2> QED BY <2>4 DEF S
<1>15. place \in [0 .. n + 1 -> X]
  <2>1. DOMAIN place = 0 .. n + 1 /\ place = [k \in DOMAIN place |-> place[k]]
    BY <1>10
  <2> HIDE DEF Is, X, n
  <2> QED BY <1>14, <2>1
<1>16. \A k \in 0 .. n : place[k] # -1 => place[k + 1] = LinkOf(ColumnAt, place[k])
  <2> TAKE k \in 0 .. n
  <2>1. place[k] \in X
    BY <1>1, <1>14
  <2> HIDE DEF Is
  <2> QED BY <1>2, <1>13, <2>1
<1> HIDE DEF Is
<1> QED BY <1>11, <1>13, <1>15, <1>16

\* Behind the home come places left over, lower and lower.
LEMMA PlacesFall ==
  ASSUME Searched, NEW name \in Names, NEW place, place = PlacesFrom(mk_col_idx, name)
  PROVE  /\ \A k \in 1 .. Len(names) + 1 : place[k] # -1 => place[k] \in LeftOver
         /\ place[Len(names) + 1] = -1
<1> DEFINE n == Len(names)
           S == {j \in 0 .. n : place[j + 1] # -1 =>
                                  place[j + 1] \in LeftOver /\ place[j + 1] <= n - (j + 1)}
<1>1. n \in Nat \ {0} /\ Columns = 0 .. n - 1 /\ LeftOver \subseteq Columns
  BY PlacesAre DEF Columns
<1>2. /\ place[0] = hash_name[name] /\ place[0] \in Columns
      /\ \A k \in 0 .. n : place[k] = -1 => place[k + 1] = -1
      /\ \A k \in 0 .. n : place[k] # -1 => place[k + 1] = LinkOf(ColumnAt, place[k])
  BY <1>1, PlacesFromIs DEF Searched
<1>3. 0 \in S
  <2>1. 0 \in 0 .. n /\ 0 + 1 = 1
    BY <1>1
  <2>2. place[0] # -1
    BY <1>1, <1>2
  <2>3. place[1] = LinkOf(ColumnAt, place[0])
    BY <1>2, <2>1, <2>2
  <2>4. place[1] # -1 => place[1] \in LinkedTo(place[0])
    BY <1>2, <2>3, LinkIs
  <2>5. place[1] # -1 => place[1] \in LeftOver
    BY <2>4 DEF LinkedTo
  <2>6. place[1] # -1 => place[1] <= n - 1
    <3>1. \A q \in LeftOver : q <= n - 1
      BY <1>1
    <3> QED BY <2>5, <3>1
  <2> QED BY <2>1, <2>5, <2>6
<1>4. ASSUME NEW j \in 0 .. n - 1, j \in S PROVE j + 1 \in S
  <2>1. j + 1 \in 0 .. n /\ j \in 0 .. n
    BY <1>1
  <2>2. CASE place[j + 1] = -1
    <3>1. place[(j + 1) + 1] = -1
      BY <1>2, <2>1, <2>2
    <3> QED BY <2>1, <3>1
  <2>3. CASE place[j + 1] # -1
    <3>1. PICK p \in LeftOver : p = place[j + 1] /\ p <= n - (j + 1)
      BY <1>4, <2>3
    <3>2. place[(j + 1) + 1] = LinkOf(ColumnAt, p) /\ p \in Columns
      BY <1>1, <1>2, <2>1, <2>3, <3>1
    <3>3. place[(j + 1) + 1] # -1 => place[(j + 1) + 1] \in LinkedTo(p)
      BY <3>2, LinkIs
    <3>4. place[(j + 1) + 1] # -1 => place[(j + 1) + 1] \in LeftOver /\ place[(j + 1) + 1] < p
      BY <3>1, <3>3 DEF LinkedTo
    <3>5. place[(j + 1) + 1] # -1 => place[(j + 1) + 1] <= n - ((j + 1) + 1)
      <4>1. \A q \in LeftOver : q \in Int /\ (q < p => q <= n - ((j + 1) + 1))
        BY <1>1, <3>1
      <4> QED BY <3>4, <4>1
    <3> QED BY <2>1, <3>4, <3>5
  <2> QED BY <2>2, <2>3
<1>5. \A j \in 0 .. n : j \in S
  <2> HIDE DEF S
  <2> QED BY <1>1, <1>3, <1>4, AllNumbers
<1>6. ASSUME NEW k \in 1 .. n + 1, place[k] # -1 PROVE place[k] \in LeftOver /\ place[k] <= n - k
  <2>1. k - 1 \in 0 .. n /\ (k - 1) + 1 = k
    BY <1>1
  <2> QED BY <1>5, <1>6, <2>1
<1>7. place[n + 1] = -1
  <2>1. n + 1 \in 1 .. n + 1 /\ n - (n + 1) = -1 /\ \A q \in LeftOver : ~(q <= -1)
    BY <1>1
  <2> QED BY <1>6, <2>1
<1> QED BY <1>6, <1>7

\* The first column of a name.
LEMMA PlainIs ==
  ASSUME Searched, NEW name \in Names
  PROVE  \/ /\ index_plain(name) \in Columns /\ names[index_plain(name) + 1] = name
            /\ \A c \in Columns : names[c + 1] = name => index_plain(name) <= c
         \/ index_plain(name) = -1 /\ \A c \in Columns : names[c + 1] # name
<1> DEFINE n == Len(names)
           S == {i \in 0 .. n : i = n \/ names[i + 1] = name}
<1>1. n \in Nat \ {0} /\ Columns = 0 .. n - 1
  BY PlacesAre DEF Columns
<1>2. PICK m \in S : m = pkg_getnum(name) /\ \A i \in S : m <= i
  <2>1. S \in SUBSET Nat /\ n \in S
    BY <1>1
  <2>2. pkg_getnum(name) = LowestOf(S)
    BY DEF pkg_getnum
  <2> HIDE DEF S
  <2> QED BY <2>1, <2>2, LowestIs
<1>3. \A c \in Columns : names[c + 1] = name => m <= c
  BY <1>1, <1>2
<1>4. CASE m = n
  <2>1. \A c \in Columns : c \in Nat /\ ~(n <= c)
    BY <1>1
  <2>2. \A c \in Columns : names[c + 1] # name
    BY <1>3, <1>4, <2>1
  <2> QED BY <1>2, <1>4, <2>2 DEF index_plain
<1>5. CASE m # n
  <2>1. m \in Columns /\ names[m + 1] = name
    BY <1>1, <1>2, <1>5
  <2>2. index_plain(name) = m
    BY <1>2, <1>5 DEF index_plain
  <2> QED BY <1>3, <2>1, <2>2
<1> QED BY <1>4, <1>5

LEMMA IndexIs ==
  ASSUME Searched, NEW name \in Names
  PROVE  index_col(mk_col_idx, name) = index_plain(name)
<1> DEFINE n == Len(names)
<1>1. n \in Nat \ {0} /\ Columns = 0 .. n - 1 /\ LeftOver \subseteq Columns /\ Late \subseteq Columns
  BY PlacesAre DEF Columns
<1>2. PICK place : place = PlacesFrom(mk_col_idx, name)
  OBVIOUS
<1>3. /\ place \in [0 .. n + 1 -> Columns \cup {-1}] /\ place[0] = hash_name[name]
      /\ \A k \in 0 .. n : place[k] # -1 => place[k + 1] = LinkOf(ColumnAt, place[k])
      /\ \A k \in 1 .. n + 1 : place[k] # -1 => place[k] \in LeftOver
      /\ place[n + 1] = -1
  BY <1>2, PlacesFromIs, PlacesFall
<1>4. \A p \in Columns : mk_col_idx[p].colno = ColumnAt[p] /\ ColumnAt[p] \in Columns
  BY ColumnAtIs DEF mk_col_idx
<1> DEFINE stop == {k \in 0 .. n + 1 : place[k] = -1 \/ names[mk_col_idx[place[k]].colno + 1] = name}
<1>5. PICK last \in stop : /\ \A k \in stop : last <= k
                           /\ index_col(mk_col_idx, name) =
                                IF place[last] = -1 THEN -1 ELSE mk_col_idx[place[last]].colno
  <2>1. stop \in SUBSET Nat /\ n + 1 \in stop
    BY <1>1, <1>3
  <2>2. /\ LowestOf(stop) \in stop /\ \A k \in stop : LowestOf(stop) <= k
    <3> HIDE DEF stop
    <3> QED BY <2>1, LowestIs
  <2>3. index_col(mk_col_idx, name) =
          IF place[LowestOf(stop)] = -1 THEN -1 ELSE mk_col_idx[place[LowestOf(stop)]].colno
    BY <1>2 DEF index_col
  <2> HIDE DEF stop
  <2> QED BY <2>2, <2>3
<1>6. last \in 0 .. n + 1 /\ (place[last] = -1 \/ (place[last] \in Columns /\ names[ColumnAt[place[last]] + 1] = name))
  BY <1>3, <1>4, <1>5
<1>7. ASSUME NEW k \in 0 .. n + 1, k < last
      PROVE  place[k] \in Columns /\ names[ColumnAt[place[k]] + 1] # name
  <2>1. k \notin stop
    <3>1. last \in Nat /\ ~(last <= k)
      BY <1>6, <1>7
    <3> HIDE DEF stop
    <3> QED BY <1>5, <3>1
  <2> QED BY <1>3, <1>4, <2>1
<1>8. index_col(mk_col_idx, name) = IF place[last] = -1 THEN -1 ELSE ColumnAt[place[last]]
  BY <1>4, <1>5, <1>6
<1> HIDE DEF stop
<1>9. CASE index_plain(name) = -1
  <2>1. \A c \in Columns : names[c + 1] # name
    BY <1>1, <1>9, PlainIs
  <2>2. place[last] = -1
    BY <1>4, <1>6, <2>1
  <2> QED BY <1>8, <1>9, <2>2
<1>10. CASE index_plain(name) # -1
  <2>1. PICK c \in Columns : /\ c = index_plain(name) /\ names[c + 1] = name
                             /\ \A d \in Columns : names[d + 1] = name => c <= d
    BY <1>10, PlainIs
  <2>2. PICK p \in Columns : p = hash_name[name] /\ p = Home(c) /\ place[0] = p
    BY <1>3, <2>1, PlacesAre DEF Home
  <2>3. p \notin LeftOver /\ ColumnAt[p] \in Columns \ Late /\ Home(ColumnAt[p]) = p
    <3>1. p \notin LeftOver
      BY <2>2 DEF LeftOver
    <3> QED BY <3>1, ColumnAtIs
  <2>4. 0 \in 0 .. n + 1 /\ p # -1 /\ (last = 0 \/ 0 < last)
    BY <1>1, <1>6
  <2>5. CASE c \notin Late
    <3>1. ColumnAt[p] = c
      BY <2>2, <2>3, <2>5, OneFirst
    <3>2. last = 0
      BY <1>7, <2>1, <2>2, <2>4, <3>1
    <3> QED BY <1>8, <2>1, <2>2, <2>4, <3>1, <3>2
  <2>6. CASE c \in Late
    <3>1. PICK q \in LeftOver : ColumnAt[q] = c
      BY <2>6, ColumnAtOver
    <3>2. names[ColumnAt[p] + 1] # name
      <4>1. PICK f \in Columns \ Late : Home(f) = Home(c) /\ f <= c
        BY FirstOf
      <4>2. f = ColumnAt[p]
        BY <2>2, <2>3, <4>1, OneFirst
      <4>3. f \in Nat /\ c \in Nat /\ f # c
        BY <1>1, <2>6, <4>1
      <4> QED BY <2>1, <4>1, <4>2, <4>3
    <3> DEFINE Near(k) == k # 0 => place[k] \in LeftOver /\ Home(ColumnAt[place[k]]) = p /\ q <= place[k]
               S == {k \in 0 .. last : Near(k)}
    <3>3. 0 \in S
      BY <1>6
    <3>4. ASSUME NEW k \in 0 .. last - 1, k \in S PROVE k + 1 \in S
      <4>1. k \in 0 .. n + 1 /\ k < last /\ k \in 0 .. n /\ k + 1 \in 0 .. last /\ k + 1 # 0
        BY <1>1, <1>6
      <4>2. PICK at \in Columns : at = place[k] /\ names[ColumnAt[at] + 1] # name /\ at # -1
        BY <1>1, <1>7, <4>1
      <4>3. Home(ColumnAt[at]) = p
        BY <2>2, <2>3, <3>4, <4>2
      <4>4. q \in LinkedTo(at)
        <5>1. Home(ColumnAt[q]) = Home(ColumnAt[at])
          BY <2>2, <3>1, <4>3
        <5>2. at \in LeftOver => q < at
          <6>1. SUFFICES ASSUME at \in LeftOver PROVE q < at
            OBVIOUS
          <6>2. k # 0
            BY <2>2, <2>3, <4>2, <6>1
          <6>3. q <= at
            BY <3>4, <4>2, <6>2
          <6>4. q # at
            BY <2>1, <3>1, <4>2
          <6>5. q \in Nat /\ at \in Nat
            BY <1>1
          <6> QED BY <6>3, <6>4, <6>5
        <5> QED BY <5>1, <5>2 DEF LinkedTo
      <4>5. place[k + 1] = LinkOf(ColumnAt, at)
        BY <1>3, <4>1, <4>2
      <4>6. place[k + 1] \in LinkedTo(at) /\ q <= place[k + 1]
        BY <4>4, <4>5, LinkIs
      <4>7. Near(k + 1)
        BY <4>3, <4>6 DEF LinkedTo
      <4> QED BY <4>1, <4>7
    <3>5. last \in S
      <4>1. last \in Nat
        BY <1>6
      <4> HIDE DEF S
      <4>2. \A k \in 0 .. last : k \in S
        BY <3>3, <3>4, <4>1, AllNumbers
      <4> QED BY <4>1, <4>2
    <3>6. last # 0
      BY <1>6, <2>2, <2>4, <3>2
    <3>7. place[last] \in LeftOver /\ q <= place[last]
      BY <3>5, <3>6
    <3>8. place[last] # -1 /\ names[ColumnAt[place[last]] + 1] = name
      BY <1>1, <1>6, <3>7
    <3>9. place[last] = q
      <4>1. SUFFICES ASSUME q < place[last] PROVE FALSE
        <5>1. \A x \in LeftOver : x \in Nat
          BY <1>1
        <5>2. q \in Nat /\ place[last] \in Nat
          BY <3>7, <5>1
        <5> QED BY <3>7, <5>2
      <4>2. ColumnAt[place[last]] < c
        BY <3>1, <3>7, <4>1, OnTopFalls, ColumnAtIs
      <4>3. ColumnAt[place[last]] \in Columns
        BY <1>1, <3>7, ColumnAtIs
      <4>4. c <= ColumnAt[place[last]]
        BY <2>1, <3>8, <4>3
      <4> QED BY <1>1, <4>2, <4>3, <4>4
    <3> QED BY <1>8, <2>1, <3>1, <3>8, <3>9
  <2> QED BY <2>5, <2>6
<1> QED BY <1>9, <1>10

-----------------------------------------------------------------------------
(* Lists of columns. *)

Collects(u, s, kept) ==
  /\ u[0] = <<>> /\ Only(s, kept) = u[Len(s)]
  /\ \A k \in 1 .. Len(s) : u[k] = IF k \in kept THEN Append(u[k - 1], s[k]) ELSE u[k - 1]

LEMMA OnlyRec ==
  ASSUME NEW X, NEW s \in Seq(X), NEW kept
  PROVE  \E u \in [0 .. Len(s) -> Seq(X)] : Collects(u, s, kept)
<1> DEFINE n == Len(s)
           Is(g) == g = [i \in 0 .. n |->
                           IF i = 0 THEN <<>>
                           ELSE IF i \in kept THEN Append(g[i - 1], s[i]) ELSE g[i - 1]]
           goes == [pair \in Nat \X Seq(X) |->
                      IF pair[1] \in DOMAIN s /\ pair[1] \in kept
                      THEN Append(pair[2], s[pair[1]]) ELSE pair[2]]
<1>1. n \in Nat /\ DOMAIN s = 1 .. n /\ \A i \in 1 .. n : s[i] \in X
  BY LenProperties
<1>2. goes \in [Nat \X Seq(X) -> Seq(X)]
  <2>1. ASSUME NEW pair \in Nat \X Seq(X)
        PROVE  (IF pair[1] \in DOMAIN s /\ pair[1] \in kept
                THEN Append(pair[2], s[pair[1]]) ELSE pair[2]) \in Seq(X)
    <3>1. pair[2] \in Seq(X)
      OBVIOUS
    <3>2. pair[1] \in DOMAIN s => Append(pair[2], s[pair[1]]) \in Seq(X)
      BY <1>1, <3>1, AppendProperties
    <3> QED BY <3>1, <3>2
  <2> QED BY <2>1
<1>3. PICK h \in [0 .. n -> Seq(X)] : IsRec(h, n, <<>>, goes)
  <2>1. PICK typ : typ = Seq(X)
    OBVIOUS
  <2>2. goes \in [Nat \X typ -> typ] /\ <<>> \in typ
    BY <1>2, <2>1
  <2> HIDE DEF goes, n
  <2> QED BY <1>1, <2>1, <2>2, RecExists
<1>4. h[0] = <<>>
  BY <1>3 DEF IsRec
<1>5. ASSUME NEW k \in 1 .. n
      PROVE  h[k] = IF k \in kept THEN Append(h[k - 1], s[k]) ELSE h[k - 1]
  <2>1. k \in Nat /\ k - 1 \in 0 .. n /\ k \in DOMAIN s
    BY <1>1
  <2>2. h[k - 1] \in Seq(X) /\ h[k] = goes[<<k, h[k - 1]>>]
    BY <1>3, <2>1 DEF IsRec
  <2> QED BY <2>1, <2>2
<1>6. Is(h)
  <2>1. \A k \in 0 .. n : h[k] = IF k = 0 THEN <<>>
                                 ELSE IF k \in kept THEN Append(h[k - 1], s[k]) ELSE h[k - 1]
    <3> TAKE k \in 0 .. n
    <3>1. k = 0 \/ (k \in 1 .. n /\ k # 0)
      BY <1>1
    <3> HIDE DEF goes, n
    <3> QED BY <1>4, <1>5, <3>1
  <2> HIDE DEF goes
  <2> QED BY <2>1
<1>7. PICK u : u = CHOOSE g : Is(g)
  OBVIOUS
<1>8. Only(s, kept) = u[n]
  BY <1>7 DEF Only
<1>9. Is(u)
  <2> HIDE DEF Is
  <2> QED BY <1>6, <1>7
<1>10. u[0] = <<>>
  BY <1>1, <1>9
<1>11. \A k \in 1 .. n : u[k] = IF k \in kept THEN Append(u[k - 1], s[k]) ELSE u[k - 1]
  <2> TAKE k \in 1 .. n
  <2>1. k \in 0 .. n /\ k # 0
    BY <1>1
  <2> QED BY <1>9, <2>1
<1>12. \A k \in 0 .. n : u[k] = h[k]
  <2> DEFINE S == {k \in 0 .. n : u[k] = h[k]}
  <2>1. 0 \in S
    BY <1>1, <1>4, <1>10
  <2>2. ASSUME NEW k \in 0 .. n - 1, k \in S PROVE k + 1 \in S
    <3>1. k + 1 \in 1 .. n /\ (k + 1) - 1 = k /\ k + 1 \in 0 .. n
      BY <1>1
    <3>2. u[k] = h[k]
      BY <2>2
    <3>3. u[k + 1] = h[k + 1]
      <4> HIDE DEF Is, S, goes
      <4> QED BY <1>5, <1>11, <3>1, <3>2
    <3> QED BY <3>1, <3>3
  <2> HIDE DEF S
  <2>3. \A k \in 0 .. n : k \in S
    BY <1>1, <2>1, <2>2, AllNumbers
  <2> QED BY <2>3 DEF S
<1>13. u \in [0 .. n -> Seq(X)]
  <2>1. DOMAIN u = 0 .. n /\ u = [k \in DOMAIN u |-> u[k]]
    BY <1>9
  <2> HIDE DEF Is, goes, n
  <2> QED BY <1>3, <1>12, <2>1
<1> HIDE DEF Is
<1>14. Collects(u, s, kept)
  BY <1>8, <1>10, <1>11 DEF Collects
<1> QED BY <1>13, <1>14

\* The elements at the places, and no others.
LEMMA OnlyHas ==
  ASSUME NEW X, NEW s \in Seq(X), NEW kept
  PROVE  /\ Only(s, kept) \in Seq(X)
         /\ NamesOf(Only(s, kept)) = {s[i] : i \in DOMAIN s \cap kept}
<1> DEFINE n == Len(s)
           Has(k) == {s[i] : i \in 1 .. k \cap kept}
<1>1. n \in Nat /\ DOMAIN s = 1 .. n /\ \A i \in 1 .. n : s[i] \in X
  BY LenProperties
<1>2. PICK u \in [0 .. n -> Seq(X)] :
        /\ u[0] = <<>> /\ Only(s, kept) = u[n]
        /\ \A k \in 1 .. n : u[k] = IF k \in kept THEN Append(u[k - 1], s[k]) ELSE u[k - 1]
  <2>1. PICK g \in [0 .. Len(s) -> Seq(X)] : Collects(g, s, kept)
    BY OnlyRec
  <2> QED BY <2>1 DEF Collects
<1> DEFINE S == {k \in 0 .. n : NamesOf(u[k]) = Has(k)}
<1>3. 0 \in S
  <2>1. NamesOf(<<>>) = {} /\ Has(0) = {}
    BY DEF NamesOf
  <2>2. 0 \in 0 .. n
    BY <1>1
  <2> HIDE DEF Has
  <2> QED BY <1>2, <2>1, <2>2
<1>4. ASSUME NEW k \in 0 .. n - 1, k \in S PROVE k + 1 \in S
  <2>1. k + 1 \in 1 .. n /\ (k + 1) - 1 = k /\ k + 1 \in 0 .. n /\ k \in 0 .. n /\ s[k + 1] \in X
    BY <1>1
  <2>2. PICK l \in Seq(X) : l = u[k] /\ NamesOf(l) = Has(k)
    BY <1>2, <1>4, <2>1
  <2>3. u[k + 1] = IF k + 1 \in kept THEN Append(l, s[k + 1]) ELSE l
    BY <1>2, <2>1, <2>2
  <2>4. \A i \in 1 .. k + 1 : i \in 1 .. k \/ i = k + 1
    BY <1>1
  <2>5. \A i \in 1 .. k : i \in 1 .. k + 1
    BY <1>1
  <2>6. Has(k + 1) = IF k + 1 \in kept THEN Has(k) \cup {s[k + 1]} ELSE Has(k)
    <3>1. Has(k) \subseteq Has(k + 1)
      BY <2>5
    <3>2. k + 1 \in kept => s[k + 1] \in Has(k + 1)
      BY <1>1
    <3>3. ASSUME NEW v \in Has(k + 1) PROVE v \in Has(k) \/ (k + 1 \in kept /\ v = s[k + 1])
      BY <2>4
    <3> HIDE DEF Has
    <3> QED BY <3>1, <3>2, <3>3
  <2>7. NamesOf(Append(l, s[k + 1])) = NamesOf(l) \cup {s[k + 1]}
    <3>1. /\ Len(Append(l, s[k + 1])) = Len(l) + 1 /\ Len(l) \in Nat
          /\ DOMAIN Append(l, s[k + 1]) = 1 .. Len(l) + 1 /\ DOMAIN l = 1 .. Len(l)
          /\ \A i \in 1 .. Len(l) : Append(l, s[k + 1])[i] = l[i]
          /\ Append(l, s[k + 1])[Len(l) + 1] = s[k + 1]
      BY <2>1, AppendProperties, LenProperties
    <3>2. PICK m \in Seq(X) : m = Append(l, s[k + 1])
      BY <2>1, AppendProperties
    <3>3. \A i \in 1 .. Len(l) + 1 : i \in 1 .. Len(l) \/ i = Len(l) + 1
      BY <3>1
    <3>4. \A i \in 1 .. Len(l) : i \in 1 .. Len(l) + 1
      BY <3>1
    <3>5. Len(l) + 1 \in 1 .. Len(l) + 1
      BY <3>1
    <3>6. NamesOf(m) \subseteq NamesOf(l) \cup {s[k + 1]}
      BY <3>1, <3>2, <3>3 DEF NamesOf
    <3>7. NamesOf(l) \cup {s[k + 1]} \subseteq NamesOf(m)
      BY <3>1, <3>2, <3>4, <3>5 DEF NamesOf
    <3> QED BY <3>2, <3>6, <3>7
  <2>8. NamesOf(u[k + 1]) = Has(k + 1)
    <3> HIDE DEF Has
    <3> QED BY <2>2, <2>3, <2>6, <2>7
  <2> HIDE DEF Has
  <2> QED BY <2>1, <2>8
<1>5. n \in S
  <2> HIDE DEF S
  <2>1. \A k \in 0 .. n : k \in S
    BY <1>1, <1>3, <1>4, AllNumbers
  <2> QED BY <1>1, <2>1
<1>6. Only(s, kept) \in Seq(X)
  BY <1>1, <1>2
<1>7. NamesOf(Only(s, kept)) = Has(n)
  BY <1>2, <1>5
<1>8. Has(n) = {s[i] : i \in DOMAIN s \cap kept}
  BY <1>1
<1> QED BY <1>6, <1>7, <1>8

\* What is at some places of a mapped list is the mapped list of what is there.
Mapped(f, s) == [i \in DOMAIN s |-> f[s[i]]]
MappedAt(f, s, t, kept) == Len(t) = Len(s) /\ \A i \in DOMAIN s : i \in kept => t[i] = f[s[i]]

LEMMA OnlyMapped ==
  ASSUME NEW X, NEW Y, NEW s \in Seq(X), NEW t \in Seq(Y), NEW f \in [X -> Y], NEW kept,
         MappedAt(f, s, t, kept)
  PROVE  Only(t, kept) = Mapped(f, Only(s, kept))
<1> USE DEF MappedAt
<1> DEFINE n == Len(s)
           Map(l) == [i \in DOMAIN l |-> f[l[i]]]
<1>1. n \in Nat /\ DOMAIN s = 1 .. n /\ \A i \in 1 .. n : s[i] \in X
  BY LenProperties
<1>2. PICK u \in [0 .. n -> Seq(X)] :
        /\ u[0] = <<>> /\ Only(s, kept) = u[n]
        /\ \A k \in 1 .. n : u[k] = IF k \in kept THEN Append(u[k - 1], s[k]) ELSE u[k - 1]
  <2>1. PICK g \in [0 .. Len(s) -> Seq(X)] : Collects(g, s, kept)
    BY OnlyRec
  <2> QED BY <2>1 DEF Collects
<1>3. PICK v \in [0 .. n -> Seq(Y)] :
        /\ v[0] = <<>> /\ Only(t, kept) = v[n]
        /\ \A k \in 1 .. n : v[k] = IF k \in kept THEN Append(v[k - 1], t[k]) ELSE v[k - 1]
  <2>1. PICK g \in [0 .. Len(t) -> Seq(Y)] : Collects(g, t, kept)
    BY OnlyRec
  <2> QED BY <2>1 DEF Collects
<1>4. ASSUME NEW l \in Seq(X) PROVE Map(l) \in Seq(Y) /\ Len(Map(l)) = Len(l)
  <2>1. Len(l) \in Nat /\ DOMAIN l = 1 .. Len(l) /\ \A i \in 1 .. Len(l) : l[i] \in X
    BY LenProperties
  <2>2. \A i \in 1 .. Len(l) : f[l[i]] \in Y
    BY <2>1
  <2>3. Map(l) = [i \in 1 .. Len(l) |-> f[l[i]]]
    BY <2>1
  <2>4. [i \in 1 .. Len(l) |-> f[l[i]]] \in Seq(Y) /\ Len([i \in 1 .. Len(l) |-> f[l[i]]]) = Len(l)
    BY <2>1, <2>2
  <2> QED BY <2>3, <2>4
<1>5. ASSUME NEW l \in Seq(X), NEW x \in X PROVE Map(Append(l, x)) = Append(Map(l), f[x])
  <2>1. /\ Append(l, x) \in Seq(X) /\ Len(Append(l, x)) = Len(l) + 1 /\ Len(l) \in Nat
        /\ \A i \in 1 .. Len(l) : Append(l, x)[i] = l[i]
        /\ Append(l, x)[Len(l) + 1] = x
    BY AppendProperties, LenProperties
  <2>2. Map(Append(l, x)) \in Seq(Y) /\ Len(Map(Append(l, x))) = Len(l) + 1 /\ Map(l) \in Seq(Y) /\ Len(Map(l)) = Len(l)
    BY <1>4, <2>1
  <2>3. PICK a, b : a = Map(Append(l, x)) /\ b = Append(Map(l), f[x])
    OBVIOUS
  <2>4. f[x] \in Y
    OBVIOUS
  <2>5. b \in Seq(Y) /\ Len(b) = Len(l) + 1 /\ b[Len(l) + 1] = f[x]
        /\ \A i \in 1 .. Len(l) : b[i] = Map(l)[i]
    <3> HIDE DEF Map
    <3> QED BY <2>2, <2>3, <2>4, AppendProperties
  <2>6. \A i \in 1 .. Len(l) + 1 : a[i] = b[i]
    <3> TAKE i \in 1 .. Len(l) + 1
    <3>1. DOMAIN Append(l, x) = 1 .. Len(l) + 1 /\ DOMAIN l = 1 .. Len(l)
      BY <2>1, LenProperties
    <3>2. a[i] = f[Append(l, x)[i]]
      BY <2>3, <3>1
    <3>3. i \in 1 .. Len(l) \/ i = Len(l) + 1
      BY <2>1
    <3>4. i \in 1 .. Len(l) => b[i] = f[l[i]]
      BY <2>5, <3>1
    <3> HIDE DEF Map
    <3> QED BY <2>1, <2>5, <3>2, <3>3, <3>4
  <2>7. a \in Seq(Y) /\ Len(a) = Len(b)
    BY <2>2, <2>3, <2>5
  <2> HIDE DEF Map
  <2> QED BY <2>3, <2>5, <2>6, <2>7, SeqEqual
<1> DEFINE S == {k \in 0 .. n : v[k] = Map(u[k])}
<1>6. 0 \in S
  <2>1. Map(<<>>) = <<>>
    OBVIOUS
  <2> HIDE DEF Map
  <2> QED BY <1>1, <1>2, <1>3, <2>1
<1>7. ASSUME NEW k \in 0 .. n - 1, k \in S PROVE k + 1 \in S
  <2>1. k + 1 \in 1 .. n /\ (k + 1) - 1 = k /\ k + 1 \in 0 .. n /\ k \in 0 .. n /\ s[k + 1] \in X
    BY <1>1
  <2>2. PICK l \in Seq(X) : l = u[k] /\ v[k] = Map(l)
    BY <1>2, <1>7, <2>1
  <2>3. k + 1 \in kept => t[k + 1] = f[s[k + 1]]
    BY <1>1, <2>1
  <2>4. u[k + 1] = IF k + 1 \in kept THEN Append(l, s[k + 1]) ELSE l
    BY <1>2, <2>1, <2>2
  <2>5. v[k + 1] = IF k + 1 \in kept THEN Append(Map(l), t[k + 1]) ELSE Map(l)
    BY <1>3, <2>1, <2>2
  <2>6. v[k + 1] = Map(u[k + 1])
    <3> HIDE DEF Map
    <3> QED BY <1>5, <2>1, <2>3, <2>4, <2>5
  <2> HIDE DEF Map
  <2> QED BY <2>1, <2>6
<1>8. n \in S
  <2> HIDE DEF S
  <2>1. \A k \in 0 .. n : k \in S
    BY <1>1, <1>6, <1>7, AllNumbers
  <2> QED BY <1>1, <2>1
<1>9. v[n] = Map(u[n])
  BY <1>8
<1> QED BY <1>2, <1>3, <1>9 DEF Mapped

-----------------------------------------------------------------------------
(* Objects. *)

\* A null pointer is never added; an object of json-c holds the columns that were.
Copied(c) == ~(names[c + 1] \in Pointers /\ record[c] = "null")
Holds(json, cols) ==
  /\ \A c \in Columns : names[c + 1] \in DOMAIN json <=> (c \in cols /\ Copied(c))
  /\ \A c \in Columns : names[c + 1] \in DOMAIN json => json[names[c + 1]] = Text(c)

LEMMA UniqueNames ==
  ASSUME Searched, Unique, NEW b \in Columns, NEW c \in Columns, names[b + 1] = names[c + 1]
  PROVE  b = c
<1>1. b + 1 \in DOMAIN names /\ c + 1 \in DOMAIN names /\ b \in Nat /\ c \in Nat
  BY PlacesAre
<1>2. b + 1 = c + 1
  BY <1>1 DEF Unique
<1> QED BY <1>1, <1>2

LEMMA AddIs ==
  ASSUME Searched, Unique, NEW json, NEW cols, Holds(json, cols), NEW c \in Columns
  PROVE  Holds(add_json(json, c), cols \cup {c})
<1>1. CASE ~Copied(c)
  <2>1. add_json(json, c) = json
    BY <1>1 DEF add_json, Copied
  <2> QED BY <1>1, <2>1 DEF Holds
<1>2. CASE Copied(c)
  <2>1. PICK name : name = names[c + 1]
    OBVIOUS
  <2>2. PICK more : more = add_json(json, c)
    OBVIOUS
  <2>3. more = [n \in DOMAIN json \cup {name} |-> IF n = name THEN Text(c) ELSE json[n]]
    BY <1>2, <2>1, <2>2 DEF add_json, Copied
  <2>4. ASSUME NEW b \in Columns PROVE names[b + 1] = name <=> b = c
    BY <2>1, UniqueNames
  <2>5. ASSUME NEW b \in Columns
        PROVE  names[b + 1] \in DOMAIN more <=> (b \in cols \cup {c} /\ Copied(b))
    <3>1. names[b + 1] \in DOMAIN more <=> names[b + 1] \in DOMAIN json \/ b = c
      BY <2>3, <2>4
    <3> QED BY <1>2, <3>1 DEF Holds
  <2>6. ASSUME NEW b \in Columns, names[b + 1] \in DOMAIN more
        PROVE  more[names[b + 1]] = Text(b)
    <3>1. more[names[b + 1]] = IF b = c THEN Text(c) ELSE json[names[b + 1]]
      BY <2>3, <2>4, <2>6
    <3>2. b # c => names[b + 1] \in DOMAIN json
      BY <2>3, <2>4, <2>6
    <3> QED BY <3>1, <3>2 DEF Holds
  <2> QED BY <2>2, <2>5, <2>6 DEF Holds
<1> QED BY <1>1, <1>2

LEMMA ObjectIs ==
  ASSUME Searched, Unique, NEW X, NEW cols \in Seq(X), NamesOf(cols) \subseteq Columns
  PROVE  Holds(Object(cols), NamesOf(cols))
<1> DEFINE n == Len(cols)
           none == [name \in {} |-> "null"]
           Is(g) == g = [i \in 0 .. n |-> IF i = 0 THEN none ELSE add_json(g[i - 1], cols[i])]
           values == {Text(c) : c \in Columns}
           Objects == UNION {[known -> values] : known \in SUBSET Names}
           goes == [pair \in Nat \X Objects |->
                      IF pair[1] \in DOMAIN cols THEN add_json(pair[2], cols[pair[1]]) ELSE pair[2]]
<1>1. n \in Nat /\ DOMAIN cols = 1 .. n /\ \A i \in 1 .. n : cols[i] \in Columns
  BY LenProperties DEF NamesOf
<1>2. none \in Objects
  <2>1. none \in [{} -> values]
    OBVIOUS
  <2> HIDE DEF none, values
  <2> QED BY <2>1
<1>3. ASSUME NEW json \in Objects, NEW c \in Columns PROVE add_json(json, c) \in Objects
  <2>1. PICK known \in SUBSET Names : json \in [known -> values]
    OBVIOUS
  <2>2. PICK name \in Names : name = names[c + 1]
    BY PlacesAre
  <2>3. PICK value \in values : value = Text(c)
    OBVIOUS
  <2>4. [m \in known \cup {name} |-> IF m = name THEN value ELSE json[m]] \in [known \cup {name} -> values]
    <3> HIDE DEF values, Objects
    <3> QED BY <2>1, <2>3
  <2>5. known \cup {name} \in SUBSET Names /\ DOMAIN json = known
    BY <2>1, <2>2
  <2>6. [m \in known \cup {name} |-> IF m = name THEN value ELSE json[m]] \in Objects
    <3> HIDE DEF values
    <3> QED BY <2>4, <2>5
  <2> HIDE DEF values, Objects
  <2> QED BY <2>2, <2>3, <2>5, <2>6 DEF add_json
<1>4. goes \in [Nat \X Objects -> Objects]
  <2>1. ASSUME NEW pair \in Nat \X Objects
        PROVE  (IF pair[1] \in DOMAIN cols THEN add_json(pair[2], cols[pair[1]]) ELSE pair[2]) \in Objects
    <3> HIDE DEF Objects
    <3> QED BY <1>1, <1>3
  <2> HIDE DEF Objects
  <2> QED BY <2>1
<1>5. PICK h \in [0 .. n -> Objects] : IsRec(h, n, none, goes)
  <2> HIDE DEF goes, n, none, Objects
  <2> QED BY <1>1, <1>2, <1>4, RecExists
<1> HIDE DEF none, Objects
<1>6. h[0] = none
  BY <1>5 DEF IsRec
<1>7. ASSUME NEW k \in 1 .. n PROVE h[k] = add_json(h[k - 1], cols[k])
  <2>1. k \in Nat /\ k - 1 \in 0 .. n /\ k \in DOMAIN cols
    BY <1>1
  <2>2. h[k - 1] \in Objects /\ h[k] = goes[<<k, h[k - 1]>>]
    BY <1>5, <2>1 DEF IsRec
  <2> QED BY <2>1, <2>2
<1> HIDE DEF goes
<1>8. Is(h)
  <2>1. \A k \in 0 .. n : h[k] = IF k = 0 THEN none ELSE add_json(h[k - 1], cols[k])
    <3> TAKE k \in 0 .. n
    <3>1. k = 0 \/ (k \in 1 .. n /\ k # 0)
      BY <1>1
    <3> HIDE DEF n
    <3> QED BY <1>6, <1>7, <3>1
  <2> QED BY <2>1
<1>9. PICK u : u = CHOOSE g : Is(g)
  OBVIOUS
<1>10. Object(cols) = u[n]
  BY <1>9 DEF Object, none
<1>11. Is(u)
  <2> HIDE DEF Is
  <2> QED BY <1>8, <1>9
<1>12. u[0] = none
  BY <1>1, <1>11
<1>13. \A k \in 1 .. n : u[k] = add_json(u[k - 1], cols[k])
  <2> TAKE k \in 1 .. n
  <2>1. k \in 0 .. n /\ k # 0
    BY <1>1
  <2> QED BY <1>11, <2>1
<1> HIDE DEF Is
<1> DEFINE Has(k) == {cols[i] : i \in 1 .. k}
           S == {k \in 0 .. n : Holds(u[k], Has(k))}
<1>14. 0 \in S
  <2>1. Has(0) = {} /\ DOMAIN none = {}
    BY DEF none
  <2>2. Holds(none, Has(0))
    <3> HIDE DEF Has
    <3> QED BY <2>1 DEF Holds
  <2>3. 0 \in 0 .. n
    BY <1>1
  <2> HIDE DEF Has
  <2> QED BY <1>12, <2>2, <2>3
<1>15. ASSUME NEW k \in 0 .. n - 1, k \in S PROVE k + 1 \in S
  <2>1. k + 1 \in 1 .. n /\ (k + 1) - 1 = k /\ k + 1 \in 0 .. n
    BY <1>1
  <2>2. PICK c \in Columns : c = cols[k + 1]
    BY <1>1, <2>1
  <2>3. u[k + 1] = add_json(u[k], c)
    BY <1>13, <2>1, <2>2
  <2>4. Has(k + 1) = Has(k) \cup {c}
    <3>1. \A i \in 1 .. k + 1 : i \in 1 .. k \/ i = k + 1
      BY <1>1
    <3>2. \A i \in 1 .. k : i \in 1 .. k + 1
      BY <1>1
    <3>3. k + 1 \in 1 .. k + 1
      BY <1>1
    <3>4. Has(k + 1) \subseteq Has(k) \cup {c}
      BY <2>2, <3>1
    <3>5. Has(k) \cup {c} \subseteq Has(k + 1)
      BY <2>2, <3>2, <3>3
    <3> QED BY <3>4, <3>5
  <2>5. Holds(u[k], Has(k))
    BY <1>15
  <2> HIDE DEF Has
  <2>6. Holds(u[k + 1], Has(k + 1))
    BY <2>3, <2>4, <2>5, AddIs
  <2> QED BY <2>1, <2>6
<1>16. n \in S
  <2> HIDE DEF S
  <2>1. \A k \in 0 .. n : k \in S
    BY <1>1, <1>14, <1>15, AllNumbers
  <2> QED BY <1>1, <2>1
<1>17. Has(n) = NamesOf(cols)
  BY <1>1 DEF NamesOf
<1>18. Holds(u[n], Has(n))
  BY <1>16
<1> HIDE DEF Has
<1> QED BY <1>10, <1>17, <1>18

-----------------------------------------------------------------------------
(* Copies. *)

LEMMA AllColumnsAre ==
  ASSUME Searched
  PROVE  /\ AllColumns \in Seq(Columns) /\ Len(AllColumns) = Len(names)
         /\ DOMAIN AllColumns = DOMAIN names /\ \A i \in DOMAIN names : AllColumns[i] = i - 1
         /\ NamesOf(AllColumns) = Columns
<1>1. /\ Len(names) \in Nat /\ DOMAIN names = 1 .. Len(names)
      /\ \A i \in DOMAIN names : i - 1 \in Columns
      /\ \A c \in Columns : c + 1 \in DOMAIN names /\ (c + 1) - 1 = c
  <2>1. \A c \in Columns : (c + 1) - 1 = c
    BY PlacesAre
  <2> QED BY <2>1, PlacesAre, LenProperties DEF Searched
<1>2. AllColumns = [i \in 1 .. Len(names) |-> i - 1]
  BY DEF AllColumns
<1>3. AllColumns \in Seq(Columns) /\ Len(AllColumns) = Len(names)
  BY <1>1, <1>2
<1>4. NamesOf(AllColumns) = Columns
  <2>1. NamesOf(AllColumns) \subseteq Columns
    BY <1>1, <1>2 DEF NamesOf
  <2>2. ASSUME NEW c \in Columns PROVE c \in NamesOf(AllColumns)
    <3>1. c + 1 \in 1 .. Len(names) /\ AllColumns[c + 1] = c
      BY <1>1, <1>2
    <3> QED BY <1>2, <3>1 DEF NamesOf
  <2> QED BY <2>1, <2>2
<1> QED BY <1>1, <1>2, <1>3, <1>4

\* The index as a function of the names.
LEMMA IndexOfName ==
  ASSUME Searched, Unique
  PROVE  /\ \A name \in Names : index_col(mk_col_idx, name) \in Columns \cup {-1}
         /\ \A c \in Columns : index_col(mk_col_idx, names[c + 1]) = c
         /\ \A name \in Names : index_col(mk_col_idx, name) # -1 =>
              names[index_col(mk_col_idx, name) + 1] = name
<1>1. \A name \in Names : index_col(mk_col_idx, name) \in Columns \cup {-1}
  BY IndexIs, PlainIs
<1>2. \A name \in Names : index_col(mk_col_idx, name) # -1 => names[index_col(mk_col_idx, name) + 1] = name
  BY IndexIs, PlainIs
<1>3. ASSUME NEW c \in Columns PROVE index_col(mk_col_idx, names[c + 1]) = c
  <2>1. PICK name \in Names : name = names[c + 1]
    BY PlacesAre
  <2>2. index_col(mk_col_idx, name) # -1
    <3>1. index_plain(name) \in Columns
      BY <2>1, PlainIs
    <3>2. \A d \in Columns : d # -1
      BY PlacesAre
    <3> QED BY <3>1, <3>2, IndexIs
  <2> QED BY <1>1, <1>2, <2>1, <2>2, UniqueNames
<1> QED BY <1>1, <1>2, <1>3

LEMMA ExceptRight == ASSUME Searched, Unique, except_col(choose) # <<>>
                     PROVE  patt_copy_col(except_col(choose)) = Only(AllColumns, Unlisted(choose))
<1>1. PICK f : f = [name \in Names |-> index_col(mk_col_idx, name)]
  OBVIOUS
<1>2. PICK Y : Y = Columns \cup {-1}
  OBVIOUS
<1>3. f \in [Names -> Y]
  BY <1>1, <1>2, IndexOfName
<1>4. PICK list \in Seq(Names) : list = except_col(choose)
  BY OnlyHas DEF except_col, Searched
<1>5. \A i \in DOMAIN names : AllColumns[i] = f[names[i]]
  <2> TAKE i \in DOMAIN names
  <2>1. i - 1 \in Columns /\ (i - 1) + 1 = i
    BY PlacesAre
  <2>2. index_col(mk_col_idx, names[i]) = i - 1 /\ names[i] \in Names
    BY <2>1, IndexOfName, PlacesAre
  <2>3. AllColumns[i] = i - 1
    BY AllColumnsAre
  <2> QED BY <1>1, <2>2, <2>3
<1>6. AllColumns \in Seq(Y) /\ Len(AllColumns) = Len(names)
  <2>1. PICK s : s = AllColumns
    OBVIOUS
  <2>2. s \in Seq(Columns) /\ Columns \subseteq Y
    BY <1>2, <2>1, AllColumnsAre
  <2>3. s \in Seq(Y)
    BY <2>2
  <2> QED BY <2>1, <2>3, AllColumnsAre
<1>7. Only(AllColumns, Unlisted(choose)) = [i \in DOMAIN list |-> f[list[i]]]
  <2>1. PICK t, kept : t = AllColumns /\ kept = Unlisted(choose)
    OBVIOUS
  <2>2. names \in Seq(Names) /\ t \in Seq(Y) /\ Len(t) = Len(names)
        /\ \A i \in DOMAIN names : i \in kept => t[i] = f[names[i]]
    BY <1>5, <1>6, <2>1 DEF Searched
  <2>3. MappedAt(f, names, t, kept)
    BY <2>2 DEF MappedAt
  <2>4. Only(t, kept) = Mapped(f, Only(names, kept))
    BY <1>3, <2>2, <2>3, OnlyMapped
  <2> QED BY <1>4, <2>1, <2>4 DEF except_col, Mapped
<1>8. list # <<>> /\ \A i \in DOMAIN list : f[list[i]] = index_col(mk_col_idx, list[i])
  <2>1. \A i \in DOMAIN list : list[i] \in Names
    BY <1>4, LenProperties
  <2> QED BY <1>1, <1>4, <2>1
<1>9. patt_copy_col(list) = [i \in DOMAIN list |-> index_col(mk_col_idx, list[i])]
  BY <1>8 DEF patt_copy_col
<1> QED BY <1>4, <1>7, <1>8, <1>9

LEMMA ChosenRight == ASSUME Searched, Unique, choose \in Seq(Names) PROVE CopiesChosen
<1>1. SUFFICES ASSUME NEW none \in BOOLEAN, NEW c \in Columns,
                      NEW desc, desc = [d \in Columns |-> "other"]
               PROVE  LET to == SRM_copy(desc, choose, none)
                          Chosen == IF none \/ choose = <<>> THEN Selected(c)
                                    ELSE names[c + 1] \in NamesOf(choose)
                          Null == record[c] = "null"
                                  /\ (names[c + 1] \in Pointers \/ (~none /\ choose = <<>>))
                      IN IF Chosen /\ ~Null
                         THEN CASE names[c + 1] \in Pointers -> to[c] = "freed"
                                [] names[c + 1] \in Raw \ Pointers -> TRUE
                                [] OTHER -> to[c] = record[c]
                         ELSE to[c] = desc[c]
  BY DEF CopiesChosen
<1>2. PICK X : X = Columns \cup {-1}
  OBVIOUS
<1>3. PICK number : number = [i \in DOMAIN choose |-> index_col(mk_col_idx, choose[i])]
  OBVIOUS
<1>4. /\ number \in Seq(X) /\ DOMAIN number = DOMAIN choose
      /\ \A i \in DOMAIN choose : choose[i] \in Names /\ number[i] \in X
  <2>1. /\ Len(choose) \in Nat /\ DOMAIN choose = 1 .. Len(choose)
        /\ \A i \in 1 .. Len(choose) : choose[i] \in Names
    BY LenProperties
  <2>2. \A i \in 1 .. Len(choose) : index_col(mk_col_idx, choose[i]) \in X
    BY <1>2, <2>1, IndexOfName
  <2>3. number = [i \in 1 .. Len(choose) |-> index_col(mk_col_idx, choose[i])]
    BY <1>3, <2>1
  <2> QED BY <2>1, <2>2, <2>3
<1>5. PICK cols : cols = IF none THEN Only(AllColumns, {i \in DOMAIN names : Selected(i - 1)})
            ELSE IF choose = <<>>
            THEN Only(AllColumns, {i \in DOMAIN names : Selected(i - 1) /\ record[i - 1] # "null"})
            ELSE Only(number, {i \in DOMAIN choose : number[i] >= 0})
  OBVIOUS
<1>6. stu_to_json(choose, none) = Object(cols)
  BY <1>3, <1>5 DEF stu_to_json
<1> DEFINE to == SRM_copy(desc, choose, none)
           json == Object(cols)
<1>10. to[c] = IF names[c + 1] \notin DOMAIN json THEN desc[c]
               ELSE IF names[c + 1] \in Pointers THEN "freed" ELSE json[names[c + 1]]
  <2>1. DOMAIN desc = Columns
    BY <1>1
  <2> HIDE DEF json
  <2> QED BY <1>6, <2>1 DEF SRM_copy, json_to_struct, json
<1> HIDE DEF to
<1>11. ASSUME NamesOf(cols) \subseteq Columns, Holds(json, NamesOf(cols))
       PROVE  IF c \in NamesOf(cols) /\ Copied(c)
              THEN CASE names[c + 1] \in Pointers -> to[c] = "freed"
                     [] names[c + 1] \in Raw \ Pointers -> TRUE
                     [] OTHER -> to[c] = record[c]
              ELSE to[c] = desc[c]
  <2>1. /\ names[c + 1] \in DOMAIN json <=> (c \in NamesOf(cols) /\ Copied(c))
        /\ names[c + 1] \in DOMAIN json => json[names[c + 1]] = Text(c)
    BY <1>11 DEF Holds
  <2> HIDE DEF json
  <2> QED BY <1>10, <2>1 DEF Text
\* Of all columns those with a property.
<1>12. ASSUME NEW kept, cols = Only(AllColumns, kept)
       PROVE  /\ Holds(json, NamesOf(cols)) /\ NamesOf(cols) \subseteq Columns
              /\ c \in NamesOf(cols) <=> c + 1 \in kept
  <2>1. cols \in Seq(Columns) /\ NamesOf(cols) = {AllColumns[i] : i \in DOMAIN AllColumns \cap kept}
    BY <1>12, AllColumnsAre, OnlyHas
  <2>2. NamesOf(cols) \subseteq Columns
    BY <2>1, PlacesAre, AllColumnsAre
  <2>3. c + 1 \in DOMAIN names /\ (c + 1) - 1 = c
    BY PlacesAre
  <2>4. c \in NamesOf(cols) <=> c + 1 \in kept
    <3>1. c + 1 \in kept => c \in NamesOf(cols)
      BY <2>1, <2>3, AllColumnsAre
    <3>2. ASSUME c \in NamesOf(cols) PROVE c + 1 \in kept
      <4>1. PICK i \in DOMAIN names : i \in kept /\ c = i - 1
        BY <2>1, <3>2, AllColumnsAre
      <4>2. i \in Int
        BY AllColumnsAre, LenProperties DEF Searched
      <4>3. i = c + 1
        BY <4>1, <4>2
      <4> QED BY <4>1, <4>3
    <3> QED BY <3>1, <3>2
  <2>5. Holds(json, NamesOf(cols))
    BY <2>1, <2>2, ObjectIs
  <2> QED BY <2>2, <2>4, <2>5
<1>13. c + 1 \in DOMAIN names /\ (c + 1) - 1 = c
  BY PlacesAre
<1> HIDE DEF json
<1>7. CASE none
  <2>1. PICK kept : kept = {i \in DOMAIN names : Selected(i - 1)}
    OBVIOUS
  <2>2. Holds(json, NamesOf(cols)) /\ NamesOf(cols) \subseteq Columns /\ (c \in NamesOf(cols) <=> c + 1 \in kept)
    BY <1>5, <1>7, <1>12, <2>1
  <2>3. c \in NamesOf(cols) <=> Selected(c)
    BY <1>13, <2>1, <2>2
  <2> QED BY <1>1, <1>7, <1>11, <2>2, <2>3 DEF Copied, to
<1>8. CASE ~none /\ choose = <<>>
  <2>1. PICK kept : kept = {i \in DOMAIN names : Selected(i - 1) /\ record[i - 1] # "null"}
    OBVIOUS
  <2>2. Holds(json, NamesOf(cols)) /\ NamesOf(cols) \subseteq Columns /\ (c \in NamesOf(cols) <=> c + 1 \in kept)
    BY <1>5, <1>8, <1>12, <2>1
  <2>3. c \in NamesOf(cols) <=> Selected(c) /\ record[c] # "null"
    BY <1>13, <2>1, <2>2
  <2> QED BY <1>1, <1>8, <1>11, <2>2, <2>3 DEF Copied, to
<1>9. CASE ~none /\ choose # <<>>
  <2>1. PICK kept : kept = {i \in DOMAIN choose : number[i] >= 0}
    OBVIOUS
  <2>2. cols = Only(number, kept)
    BY <1>5, <1>9, <2>1
  <2>3. cols \in Seq(X) /\ NamesOf(cols) = {number[i] : i \in DOMAIN number \cap kept}
    BY <1>4, <2>2, OnlyHas
  <2>4. \A x \in X : x >= 0 <=> x \in Columns
    BY <1>2, PlacesAre
  <2>5. NamesOf(cols) \subseteq Columns
    BY <1>4, <2>1, <2>3, <2>4
  <2>6. c \in NamesOf(cols) <=> names[c + 1] \in NamesOf(choose)
    <3>1. ASSUME NEW i \in DOMAIN choose, number[i] = c PROVE names[c + 1] = choose[i]
      <4>1. c # -1
        BY PlacesAre
      <4> QED BY <1>3, <1>4, <3>1, <4>1, IndexOfName
    <3>2. ASSUME NEW i \in DOMAIN choose, names[c + 1] = choose[i] PROVE number[i] = c
      BY <1>3, <3>2, IndexOfName
    <3>3. c \in NamesOf(cols) => names[c + 1] \in NamesOf(choose)
      BY <1>4, <2>3, <3>1 DEF NamesOf
    <3>4. names[c + 1] \in NamesOf(choose) => c \in NamesOf(cols)
      <4>1. c \in X /\ c >= 0
        BY <1>2, PlacesAre
      <4> QED BY <1>4, <2>1, <2>3, <3>2, <4>1 DEF NamesOf
    <3> QED BY <3>3, <3>4
  <2>7. Holds(json, NamesOf(cols))
    BY <2>3, <2>5, ObjectIs DEF json
  <2> QED BY <1>1, <1>9, <1>11, <2>5, <2>6, <2>7 DEF Copied, to
<1> QED BY <1>7, <1>8, <1>9

-----------------------------------------------------------------------------

PatternTypeOK ==
  /\ kinds \in Seq(Kinds) /\ names \in Seq(Names) /\ choose \in Seq(Names)
  /\ names # <<>> => hash_name \in [Names -> 0 .. Len(names) - 1]
  /\ record # <<>> => names # <<>> /\ Unique

LEMMA AgreesAt == PatternTypeOK => PatternAgrees
<1> SUFFICES ASSUME PatternTypeOK PROVE PatternAgrees
  OBVIOUS
<1>1. LaidOut
  BY LaidOutRight DEF PatternTypeOK
<1>2. names # <<>> => Searched
  BY DEF PatternTypeOK, Searched
<1>3. IndexAgrees
  BY <1>2, IndexIs DEF IndexAgrees
<1>4. ExceptCopies
  BY <1>2, ExceptRight DEF ExceptCopies, PatternTypeOK
<1>5. CopiesChosen
  <2>1. record # <<>> => CopiesChosen
    BY <1>2, ChosenRight DEF PatternTypeOK
  <2>2. record = <<>> => CopiesChosen
    BY DEF CopiesChosen
  <2> QED BY <2>1, <2>2
<1> QED BY <1>1, <1>3, <1>4, <1>5 DEF PatternAgrees

LEMMA PatternStart == PatternInit => PatternTypeOK
BY DEF PatternInit, PatternTypeOK

LEMMA PatternStep == PatternTypeOK /\ [PatternNext]_patternVars => PatternTypeOK'
<1> SUFFICES ASSUME PatternTypeOK, [PatternNext]_patternVars PROVE PatternTypeOK'
  OBVIOUS
<1> USE DEF PatternTypeOK
<1>1. CASE GiveKinds
  <2>1. PICK n \in 1 .. MaxColumns : kinds' \in [1 .. n -> Kinds]
    BY <1>1 DEF GiveKinds
  <2>2. kinds' \in Seq(Kinds)
    BY <2>1, PatternAssumption
  <2> QED BY <1>1, <2>2 DEF GiveKinds, Unique
<1>2. CASE GiveNames
  <2>1. PICK n \in 1 .. MaxColumns : names' \in [1 .. n -> Names] /\ hash_name' \in [Names -> 0 .. n - 1]
    BY <1>2 DEF GiveNames
  <2>2. names' \in Seq(Names) /\ Len(names') = n
    BY <2>1, PatternAssumption
  <2>3. record' = <<>>
    BY <1>2 DEF GiveNames, Blank
  <2> QED BY <1>2, <2>1, <2>2, <2>3 DEF GiveNames
<1>3. CASE GiveRecord
  <2>1. PICK n \in 0 .. 2 : choose' \in [1 .. n -> Names]
    BY <1>3 DEF GiveRecord
  <2>2. choose' \in Seq(Names)
    BY <2>1
  <2> QED BY <1>3, <2>2 DEF GiveRecord, Unique
<1>4. CASE UNCHANGED patternVars
  BY <1>4 DEF patternVars, Unique
<1> QED BY <1>1, <1>2, <1>3, <1>4 DEF PatternNext

\* The offsets of any structure are those of the compiler (netvar.c:108-222); the
\* index finds what is found without one, for any hash function and any names
\* (colidx.c:27-105); lists of columns and copies by way of an object change what was
\* chosen, for a pattern of any length (except.c, patt_copy.c, json_pack.c, SRM_json.c).
THEOREM PatternAgreesAlways == PatternSpec => []PatternAgrees
<1>1. PatternSpec => []PatternTypeOK
  BY PatternStart, PatternStep, PTL DEF PatternSpec
<1> QED BY <1>1, AgreesAt, PTL

-----------------------------------------------------------------------------
(* Trees: what is known of the set of them. *)

TreeMost == Cardinality(TreeKeys)
NodesOver(S) == [key : TreeKeys, ld : Nat, rd : Nat, l : S, r : S]
LevelAfter(n, S) == IF n = 0 THEN {Void} ELSE {Void} \cup NodesOver(S)
Levels(g, n) == g = [m \in 0 .. n |-> LevelAfter(m, g[m - 1])]

LEMMA MostIs == TreeMost \in Nat /\ IsFiniteSet(TreeKeys) /\ TreeKeys \subseteq Nat
BY TreeAssumption, FS_CardinalityType DEF TreeMost

LEMMA UpToIs ==
  /\ TreesUpTo[0] = {Void}
  /\ \A n \in 1 .. TreeMost : TreesUpTo[n] = {Void} \cup NodesOver(TreesUpTo[n - 1])
<1> DEFINE S == {m \in Nat : \E g : Levels(g, m)}
<1>1. 0 \in S
  <2>1. PICK g : g = [m \in 0 .. 0 |-> {Void}]
    OBVIOUS
  <2>2. \A m \in 0 .. 0 : g[m] = LevelAfter(m, g[m - 1])
    BY <2>1 DEF LevelAfter
  <2>3. Levels(g, 0)
    BY <2>1, <2>2 DEF Levels, LevelAfter
  <2> QED BY <2>3
<1>2. ASSUME NEW n \in 0 .. TreeMost - 1, n \in S PROVE n + 1 \in S
  <2>1. PICK g : Levels(g, n)
    BY <1>2
  <2>2. PICK h : h = [m \in 0 .. n + 1 |-> LevelAfter(m, g[m - 1])]
    OBVIOUS
  <2>3. \A m \in 0 .. n : m \in 0 .. n + 1 /\ h[m] = g[m]
    BY <2>1, <2>2 DEF Levels
  <2>4. \A m \in 0 .. n + 1 : LevelAfter(m, h[m - 1]) = LevelAfter(m, g[m - 1])
    <3>1. TAKE m \in 0 .. n + 1
    <3>2. m # 0 => m - 1 \in 0 .. n
      OBVIOUS
    <3> QED BY <2>3, <3>2 DEF LevelAfter
  <2>5. Levels(h, n + 1)
    BY <2>2, <2>4 DEF Levels
  <2> QED BY <2>5
<1>3. \E g : Levels(g, TreeMost)
  <2> HIDE DEF S
  <2>1. \A n \in 0 .. TreeMost : n \in S
    BY <1>1, <1>2, MostIs, AllNumbers
  <2>2. TreeMost \in S
    BY <2>1, MostIs
  <2> QED BY <2>2 DEF S
<1>4. TreesUpTo = CHOOSE g : Levels(g, TreeMost)
  BY DEF TreesUpTo, Levels, LevelAfter, NodesOver, TreeMost
<1>5. PICK up : up = TreesUpTo
  OBVIOUS
<1>6. Levels(up, TreeMost)
  BY <1>3, <1>4, <1>5
<1>7. \A m \in 0 .. TreeMost : up[m] = LevelAfter(m, up[m - 1])
  BY <1>6 DEF Levels
<1>8. up[0] = {Void}
  <2>1. 0 \in 0 .. TreeMost
    BY MostIs
  <2> QED BY <1>7, <2>1 DEF LevelAfter
<1>9. \A n \in 1 .. TreeMost : n \in 0 .. TreeMost /\ n # 0
  BY MostIs
<1>10. \A n \in 1 .. TreeMost : up[n] = {Void} \cup NodesOver(up[n - 1])
  BY <1>7, <1>9 DEF LevelAfter
<1> QED BY <1>5, <1>8, <1>10

LEMMA VoidIsNo == \A S : \A n \in NodesOver(S) : n # Void
BY DEF NodesOver, Void

LEMMA UpToGrows == \A m, n \in 0 .. TreeMost : m <= n => TreesUpTo[m] \subseteq TreesUpTo[n]
<1>1. ASSUME NEW n \in 0 .. TreeMost - 1 PROVE TreesUpTo[n] \subseteq TreesUpTo[n + 1]
  <2> DEFINE S == {m \in 0 .. TreeMost - 1 : TreesUpTo[m] \subseteq TreesUpTo[m + 1]}
  <2>0. TreeMost - 1 \in Nat /\ 0 \in 0 .. TreeMost - 1
    BY MostIs
  <2>1. 0 \in S
    <3>1. 1 \in 1 .. TreeMost /\ 0 + 1 = 1
      BY <2>0, MostIs
    <3> QED BY <2>0, <3>1, UpToIs
  <2>2. \A m \in 0 .. (TreeMost - 1) - 1 : m \in S => m + 1 \in S
    <3>1. SUFFICES ASSUME NEW m \in 0 .. (TreeMost - 1) - 1, TreesUpTo[m] \subseteq TreesUpTo[m + 1]
                   PROVE  TreesUpTo[m + 1] \subseteq TreesUpTo[(m + 1) + 1]
      BY <2>0
    <3>2. m + 1 \in 1 .. TreeMost /\ (m + 1) + 1 \in 1 .. TreeMost /\ (m + 1) - 1 = m
          /\ ((m + 1) + 1) - 1 = m + 1
      BY <2>0, MostIs
    <3>3. TreesUpTo[m + 1] = {Void} \cup NodesOver(TreesUpTo[m])
          /\ TreesUpTo[(m + 1) + 1] = {Void} \cup NodesOver(TreesUpTo[m + 1])
      BY <3>2, UpToIs
    <3>4. NodesOver(TreesUpTo[m]) \subseteq NodesOver(TreesUpTo[m + 1])
      BY <3>1 DEF NodesOver
    <3> QED BY <3>3, <3>4
  <2>3. \A m \in 0 .. TreeMost - 1 : m \in S
    <3> HIDE DEF S
    <3> QED BY <2>0, <2>1, <2>2, AllNumbers
  <2> QED BY <2>3
<1>2. SUFFICES ASSUME NEW m \in 0 .. TreeMost
               PROVE  \A n \in 0 .. TreeMost : m <= n => TreesUpTo[m] \subseteq TreesUpTo[n]
  OBVIOUS
<1> DEFINE S == {n \in 0 .. TreeMost : m <= n => TreesUpTo[m] \subseteq TreesUpTo[n]}
<1>3. 0 \in S
  BY MostIs
<1>4. \A n \in 0 .. TreeMost - 1 : n \in S => n + 1 \in S
  <2>1. SUFFICES ASSUME NEW n \in 0 .. TreeMost - 1, n \in S, m <= n + 1
                 PROVE  TreesUpTo[m] \subseteq TreesUpTo[n + 1]
    BY MostIs
  <2>2. CASE m = n + 1
    BY <2>2
  <2>3. CASE m # n + 1
    <3>1. m <= n /\ n \in 0 .. TreeMost
      BY <2>1, <2>3, MostIs
    <3> QED BY <2>1, <3>1, <1>1
  <2> QED BY <2>2, <2>3
<1>5. \A n \in 0 .. TreeMost : n \in S
  <2> HIDE DEF S
  <2> QED BY <1>3, <1>4, MostIs, AllNumbers
<1> QED BY <1>5

LEMMA TreesIs == Trees = TreesUpTo[TreeMost] /\ Void \in Trees
<1>1. Trees = TreesUpTo[TreeMost]
  BY DEF Trees, TreeMost
<1>2. TreesUpTo[0] \subseteq TreesUpTo[TreeMost]
  BY MostIs, UpToGrows
<1> QED BY <1>1, <1>2, UpToIs

\* What a tree is made of.
LEMMA TreeParts ==
  ASSUME NEW t \in Trees, t # Void
  PROVE  /\ t.key \in TreeKeys /\ t.ld \in Nat /\ t.rd \in Nat /\ t.l \in Trees
            /\ t.r \in Trees
         /\ t = [key |-> t.key, ld |-> t.ld, rd |-> t.rd, l |-> t.l, r |-> t.r]
<1>1. TreeMost # 0
  BY TreesIs, UpToIs
<1>2. TreeMost \in 1 .. TreeMost /\ TreeMost - 1 \in 0 .. TreeMost /\ TreeMost - 1 <= TreeMost
  BY <1>1, MostIs
<1>3. t \in NodesOver(TreesUpTo[TreeMost - 1])
  BY <1>2, TreesIs, UpToIs
<1>4. TreesUpTo[TreeMost - 1] \subseteq Trees
  BY <1>2, TreesIs, UpToGrows, MostIs
<1> QED BY <1>3, <1>4 DEF NodesOver

\* Induction over trees, without a formula.
LEMMA AllTrees ==
  ASSUME NEW S, Void \in S, \A t \in Trees : t # Void /\ t.l \in S /\ t.r \in S => t \in S
  PROVE  \A t \in Trees : t \in S
<1> DEFINE Is == {n \in 0 .. TreeMost : TreesUpTo[n] \subseteq S}
<1>1. 0 \in Is
  BY UpToIs, MostIs
<1>2. ASSUME NEW n \in 0 .. TreeMost - 1, n \in Is PROVE n + 1 \in Is
  <2>1. n + 1 \in 1 .. TreeMost /\ n + 1 \in 0 .. TreeMost /\ TreeMost \in 0 .. TreeMost
        /\ (n + 1) - 1 = n /\ n + 1 <= TreeMost
    BY MostIs
  <2>2. TreesUpTo[n + 1] = {Void} \cup NodesOver(TreesUpTo[n])
    BY <2>1, UpToIs
  <2>3. ASSUME NEW t \in NodesOver(TreesUpTo[n]) PROVE t \in S
    <3>1. t \in Trees
      BY <2>1, <2>2, TreesIs, UpToGrows
    <3>2. t.l \in TreesUpTo[n] /\ t.r \in TreesUpTo[n] /\ t # Void
      BY VoidIsNo DEF NodesOver
    <3> QED BY <1>2, <3>1, <3>2
  <2> QED BY <2>1, <2>2, <2>3
<1>3. \A n \in 0 .. TreeMost : n \in Is
  <2> HIDE DEF Is
  <2> QED BY <1>1, <1>2, MostIs, AllNumbers
<1> QED BY <1>3, MostIs, TreesIs

\* Recursion over trees: the function a definition speaks of is there.
TreeRecOver(g, T, base, goes) ==
  \A t \in T : g[t] = IF t = Void THEN base ELSE goes[<<t, g[t.l], g[t.r]>>]

LEMMA TreeRecExists ==
  ASSUME NEW X, NEW base \in X, NEW goes \in [Trees \X X \X X -> X]
  PROVE  \E g \in [Trees -> X] : TreeRecOver(g, Trees, base, goes)
<1> DEFINE Is == {n \in 0 .. TreeMost :
                    \E g \in [TreesUpTo[n] -> X] : TreeRecOver(g, TreesUpTo[n], base, goes)}
<1>1. 0 \in Is
  <2>1. PICK g : g = [t \in TreesUpTo[0] |-> base]
    OBVIOUS
  <2>2. g \in [TreesUpTo[0] -> X] /\ TreeRecOver(g, TreesUpTo[0], base, goes)
    BY <2>1, UpToIs DEF TreeRecOver
  <2> QED BY <2>2, MostIs
<1>2. ASSUME NEW n \in 0 .. TreeMost - 1, n \in Is PROVE n + 1 \in Is
  <2>1. n + 1 \in 1 .. TreeMost /\ n + 1 \in 0 .. TreeMost /\ TreeMost \in 0 .. TreeMost
            /\ n \in 0 .. TreeMost
        /\ (n + 1) - 1 = n /\ n + 1 <= TreeMost /\ n <= n + 1
    BY MostIs
  <2>2. TreesUpTo[n + 1] = {Void} \cup NodesOver(TreesUpTo[n])
    BY <2>1, UpToIs
  <2>3. TreesUpTo[n] \subseteq TreesUpTo[n + 1] /\ TreesUpTo[n + 1] \subseteq Trees
    BY <2>1, UpToGrows, TreesIs
  <2>4. PICK g \in [TreesUpTo[n] -> X] : TreeRecOver(g, TreesUpTo[n], base, goes)
    BY <1>2
  <2>5. PICK h : h = [t \in TreesUpTo[n + 1] |-> IF t = Void THEN base ELSE goes[<<t, g[t.l], g[t.r]>>]]
    OBVIOUS
  <2>6. ASSUME NEW t \in TreesUpTo[n + 1], t # Void
        PROVE  t.l \in TreesUpTo[n] /\ t.r \in TreesUpTo[n] /\ t \in Trees
    BY <2>2, <2>3, <2>6 DEF NodesOver
  <2>7. h \in [TreesUpTo[n + 1] -> X]
    <3>1. ASSUME NEW t \in TreesUpTo[n + 1], t # Void PROVE goes[<<t, g[t.l], g[t.r]>>] \in X
      <4>1. <<t, g[t.l], g[t.r]>> \in Trees \X X \X X
        BY <2>6, <3>1
      <4> QED BY <4>1
    <3> QED BY <2>5, <3>1
  <2>8. \A t \in TreesUpTo[n] : h[t] = g[t]
    BY <2>3, <2>4, <2>5 DEF TreeRecOver
  <2>9. TreeRecOver(h, TreesUpTo[n + 1], base, goes)
    BY <2>5, <2>6, <2>8 DEF TreeRecOver
  <2> QED BY <2>1, <2>7, <2>9
<1>3. \A n \in 0 .. TreeMost : n \in Is
  <2> HIDE DEF Is
  <2> QED BY <1>1, <1>2, MostIs, AllNumbers
<1> QED BY <1>3, MostIs, TreesIs

\* The recursions of the properties and the queries.
\* The recursions of the properties and the queries.
\* The recursions of the properties and the queries.
\* The recursions of the properties and the queries.
\* The recursions of the properties and the queries.
\* The recursions of the properties and the queries.
\* The recursions of the properties and the queries.
\* The recursions of the properties and the queries.
\* The recursions of the properties and the queries.
\* The recursions of the properties and the queries.
\* The recursions of the properties and the queries.
\* The recursions of the properties and the queries.
\* The recursions of the properties and the queries.
\* The recursions of the properties and the queries.
\* The recursions of the properties and the queries.
\* The recursions of the properties and the queries.
\* The recursions of the properties and the queries.
\* The recursions of the properties and the queries.
\* The recursions of the properties and the queries.
\* The recursions of the properties and the queries.
LEMMA HeightRec ==
  /\ Height(Void) = 0
  /\ \A t \in Trees :
       /\ Height(t) \in Nat
       /\ t # Void => Height(t) = Deeper(Height(t.l), Height(t.r)) + 1
<1> DEFINE Is(g) == g = [t \in Trees |-> IF t = Void THEN 0 ELSE Deeper(g[t.l], g[t.r]) + 1]
           goes == [x \in Trees \X Nat \X Nat |->
                      IF x[1] = Void THEN 0 ELSE Deeper(x[2], x[3]) + 1]
<1>1. goes \in [Trees \X Nat \X Nat -> Nat]
  <2>1. SUFFICES ASSUME NEW x \in Trees \X Nat \X Nat PROVE goes[x] \in Nat
    OBVIOUS
  <2>2. x[1] \in Trees /\ x[2] \in Nat /\ x[3] \in Nat
    OBVIOUS
  <2>3. x[1] # Void => x[1].key \in TreeKeys
    BY <2>2, TreeParts
  <2> QED BY <2>2, <2>3, TreesIs DEF Deeper
<1>2. PICK h \in [Trees -> Nat] : TreeRecOver(h, Trees, 0, goes)
  <2>1. PICK X : X = Nat
    OBVIOUS
  <2>2. 0 \in X /\ goes \in [Trees \X X \X X -> X]
    BY <1>1, <2>1, TreesIs
  <2> HIDE DEF goes
  <2>3. \E h \in [Trees -> X] : TreeRecOver(h, Trees, 0, goes)
    BY <2>2, TreeRecExists
  <2> QED BY <2>1, <2>3
<1>3. Is(h)
  <2>1. ASSUME NEW t \in Trees, t # Void PROVE h[t] = Deeper(h[t.l], h[t.r]) + 1
    <3>1. t.l \in Trees /\ t.r \in Trees
      BY <2>1, TreeParts
    <3>2. h[t] = goes[<<t, h[t.l], h[t.r]>>]
      BY <1>2, <2>1 DEF TreeRecOver
    <3> QED BY <2>1, <3>1, <3>2
  <2>2. \A t \in Trees : h[t] = IF t = Void THEN 0 ELSE Deeper(h[t.l], h[t.r]) + 1
    BY <1>2, <2>1 DEF TreeRecOver
  <2> QED BY <2>2
<1>4. PICK f : f = CHOOSE g : Is(g)
  OBVIOUS
<1>5. Is(f)
  <2> HIDE DEF Is
  <2> QED BY <1>3, <1>4
<1>6. \A t : Height(t) = f[t]
  BY <1>4 DEF Height
<1>7. \A t \in Trees : f[t] = IF t = Void THEN 0 ELSE Deeper(f[t.l], f[t.r]) + 1
  BY <1>5
<1> HIDE DEF Is
<1>8. \A t \in Trees : f[t] \in Nat
  <2> DEFINE S == {t \in Trees : f[t] \in Nat}
  <2>1. Void \in S
    BY <1>7, TreesIs
  <2>2. \A t \in Trees : t # Void /\ t.l \in S /\ t.r \in S => t \in S
    BY <1>7, TreeParts DEF Deeper
  <2> HIDE DEF S
  <2>3. \A t \in Trees : t \in S
    BY <2>1, <2>2, AllTrees
  <2> QED BY <2>3 DEF S
<1> QED BY <1>6, <1>7, <1>8, TreesIs, TreeParts

LEMMA LevelRec ==
  ASSUME NEW k PROVE
  /\ Level(Void, k) = 0
  /\ \A t \in Trees :
       /\ Level(t, k) \in Nat
       /\ t # Void => Level(t, k) = IF t.key = k THEN 1 ELSE
                 LET n == Level(IF k < t.key THEN t.l ELSE t.r, k)
                 IN IF n = 0 THEN 0 ELSE n + 1
<1> DEFINE Is(g) == g = [t \in Trees |-> IF t = Void THEN 0 ELSE IF t.key = k THEN 1 ELSE
          LET n == g[IF k < t.key THEN t.l ELSE t.r] IN IF n = 0 THEN 0 ELSE n + 1]
           goes == [x \in Trees \X Nat \X Nat |->
                      IF x[1] = Void THEN 0 ELSE IF x[1].key = k THEN 1 ELSE
                                LET n == IF k < x[1].key THEN x[2] ELSE x[3]
                                IN IF n = 0 THEN 0 ELSE n + 1]
<1>1. goes \in [Trees \X Nat \X Nat -> Nat]
  <2>1. SUFFICES ASSUME NEW x \in Trees \X Nat \X Nat PROVE goes[x] \in Nat
    OBVIOUS
  <2>2. x[1] \in Trees /\ x[2] \in Nat /\ x[3] \in Nat
    OBVIOUS
  <2>3. x[1] # Void => x[1].key \in TreeKeys
    BY <2>2, TreeParts
  <2> QED BY <2>2, <2>3, TreesIs
<1>2. PICK h \in [Trees -> Nat] : TreeRecOver(h, Trees, 0, goes)
  <2>1. PICK X : X = Nat
    OBVIOUS
  <2>2. 0 \in X /\ goes \in [Trees \X X \X X -> X]
    BY <1>1, <2>1, TreesIs
  <2> HIDE DEF goes
  <2>3. \E h \in [Trees -> X] : TreeRecOver(h, Trees, 0, goes)
    BY <2>2, TreeRecExists
  <2> QED BY <2>1, <2>3
<1>3. Is(h)
  <2>1. ASSUME NEW t \in Trees, t # Void PROVE h[t] = IF t.key = k THEN 1 ELSE
            LET n == h[IF k < t.key THEN t.l ELSE t.r] IN IF n = 0 THEN 0 ELSE n + 1
    <3>1. t.l \in Trees /\ t.r \in Trees
      BY <2>1, TreeParts
    <3>2. h[t] = goes[<<t, h[t.l], h[t.r]>>]
      BY <1>2, <2>1 DEF TreeRecOver
    <3> QED BY <2>1, <3>1, <3>2
  <2>2. \A t \in Trees : h[t] = IF t = Void THEN 0 ELSE IF t.key = k THEN 1 ELSE
            LET n == h[IF k < t.key THEN t.l ELSE t.r] IN IF n = 0 THEN 0 ELSE n + 1
    BY <1>2, <2>1 DEF TreeRecOver
  <2> QED BY <2>2
<1>4. PICK f : f = CHOOSE g : Is(g)
  OBVIOUS
<1>5. Is(f)
  <2> HIDE DEF Is
  <2> QED BY <1>3, <1>4
<1>6. \A t : Level(t, k) = f[t]
  BY <1>4 DEF Level
<1>7. \A t \in Trees : f[t] = IF t = Void THEN 0 ELSE IF t.key = k THEN 1 ELSE
          LET n == f[IF k < t.key THEN t.l ELSE t.r] IN IF n = 0 THEN 0 ELSE n + 1
  BY <1>5
<1> HIDE DEF Is
<1>8. \A t \in Trees : f[t] \in Nat
  <2> DEFINE S == {t \in Trees : f[t] \in Nat}
  <2>1. Void \in S
    BY <1>7, TreesIs
  <2>2. \A t \in Trees : t # Void /\ t.l \in S /\ t.r \in S => t \in S
    BY <1>7, TreeParts
  <2> HIDE DEF S
  <2>3. \A t \in Trees : t \in S
    BY <2>1, <2>2, AllTrees
  <2> QED BY <2>3 DEF S
<1> QED BY <1>6, <1>7, <1>8, TreesIs, TreeParts

LEMMA CountRec ==
  /\ BB_Tree_Count(Void) = 0
  /\ \A t \in Trees :
       /\ BB_Tree_Count(t) \in Nat
       /\ t # Void => BB_Tree_Count(t) = BB_Tree_Count(t.l) + 1 + BB_Tree_Count(t.r)
<1> DEFINE Is(g) == g = [t \in Trees |-> IF t = Void THEN 0 ELSE g[t.l] + 1 + g[t.r]]
           goes == [x \in Trees \X Nat \X Nat |->
                      IF x[1] = Void THEN 0 ELSE x[2] + 1 + x[3]]
<1>1. goes \in [Trees \X Nat \X Nat -> Nat]
  <2>1. SUFFICES ASSUME NEW x \in Trees \X Nat \X Nat PROVE goes[x] \in Nat
    OBVIOUS
  <2>2. x[1] \in Trees /\ x[2] \in Nat /\ x[3] \in Nat
    OBVIOUS
  <2>3. x[1] # Void => x[1].key \in TreeKeys
    BY <2>2, TreeParts
  <2> QED BY <2>2, <2>3, TreesIs
<1>2. PICK h \in [Trees -> Nat] : TreeRecOver(h, Trees, 0, goes)
  <2>1. PICK X : X = Nat
    OBVIOUS
  <2>2. 0 \in X /\ goes \in [Trees \X X \X X -> X]
    BY <1>1, <2>1, TreesIs
  <2> HIDE DEF goes
  <2>3. \E h \in [Trees -> X] : TreeRecOver(h, Trees, 0, goes)
    BY <2>2, TreeRecExists
  <2> QED BY <2>1, <2>3
<1>3. Is(h)
  <2>1. ASSUME NEW t \in Trees, t # Void PROVE h[t] = h[t.l] + 1 + h[t.r]
    <3>1. t.l \in Trees /\ t.r \in Trees
      BY <2>1, TreeParts
    <3>2. h[t] = goes[<<t, h[t.l], h[t.r]>>]
      BY <1>2, <2>1 DEF TreeRecOver
    <3> QED BY <2>1, <3>1, <3>2
  <2>2. \A t \in Trees : h[t] = IF t = Void THEN 0 ELSE h[t.l] + 1 + h[t.r]
    BY <1>2, <2>1 DEF TreeRecOver
  <2> QED BY <2>2
<1>4. PICK f : f = CHOOSE g : Is(g)
  OBVIOUS
<1>5. Is(f)
  <2> HIDE DEF Is
  <2> QED BY <1>3, <1>4
<1>6. \A t : BB_Tree_Count(t) = f[t]
  BY <1>4 DEF BB_Tree_Count
<1>7. \A t \in Trees : f[t] = IF t = Void THEN 0 ELSE f[t.l] + 1 + f[t.r]
  BY <1>5
<1> HIDE DEF Is
<1>8. \A t \in Trees : f[t] \in Nat
  <2> DEFINE S == {t \in Trees : f[t] \in Nat}
  <2>1. Void \in S
    BY <1>7, TreesIs
  <2>2. \A t \in Trees : t # Void /\ t.l \in S /\ t.r \in S => t \in S
    BY <1>7, TreeParts
  <2> HIDE DEF S
  <2>3. \A t \in Trees : t \in S
    BY <2>1, <2>2, AllTrees
  <2> QED BY <2>3 DEF S
<1> QED BY <1>6, <1>7, <1>8, TreesIs, TreeParts

LEMMA ScanRec ==
  /\ BB_Tree_Scan(Void) = <<>>
  /\ \A t \in Trees :
       /\ BB_Tree_Scan(t) \in Seq(TreeKeys)
       /\ t # Void => BB_Tree_Scan(t) = BB_Tree_Scan(t.l) \o <<t.key>> \o BB_Tree_Scan(t.r)
<1> DEFINE Is(g) == g = [t \in Trees |-> IF t = Void THEN <<>> ELSE g[t.l] \o <<t.key>> \o g[t.r]]
           goes == [x \in Trees \X Seq(TreeKeys) \X Seq(TreeKeys) |->
                      IF x[1] = Void THEN <<>> ELSE x[2] \o <<x[1].key>> \o x[3]]
<1>1. goes \in [Trees \X Seq(TreeKeys) \X Seq(TreeKeys) -> Seq(TreeKeys)]
  <2>1. SUFFICES ASSUME NEW x \in Trees \X Seq(TreeKeys) \X Seq(TreeKeys)
            PROVE goes[x] \in Seq(TreeKeys)
    OBVIOUS
  <2>2. x[1] \in Trees /\ x[2] \in Seq(TreeKeys) /\ x[3] \in Seq(TreeKeys)
    OBVIOUS
  <2>3. x[1] # Void => x[1].key \in TreeKeys
    BY <2>2, TreeParts
  <2> QED BY <2>2, <2>3, TreesIs
<1>2. PICK h \in [Trees -> Seq(TreeKeys)] : TreeRecOver(h, Trees, <<>>, goes)
  <2>1. PICK X : X = Seq(TreeKeys)
    OBVIOUS
  <2>2. <<>> \in X /\ goes \in [Trees \X X \X X -> X]
    BY <1>1, <2>1, TreesIs
  <2> HIDE DEF goes
  <2>3. \E h \in [Trees -> X] : TreeRecOver(h, Trees, <<>>, goes)
    BY <2>2, TreeRecExists
  <2> QED BY <2>1, <2>3
<1>3. Is(h)
  <2>1. ASSUME NEW t \in Trees, t # Void PROVE h[t] = h[t.l] \o <<t.key>> \o h[t.r]
    <3>1. t.l \in Trees /\ t.r \in Trees
      BY <2>1, TreeParts
    <3>2. h[t] = goes[<<t, h[t.l], h[t.r]>>]
      BY <1>2, <2>1 DEF TreeRecOver
    <3> QED BY <2>1, <3>1, <3>2
  <2>2. \A t \in Trees : h[t] = IF t = Void THEN <<>> ELSE h[t.l] \o <<t.key>> \o h[t.r]
    BY <1>2, <2>1 DEF TreeRecOver
  <2> QED BY <2>2
<1>4. PICK f : f = CHOOSE g : Is(g)
  OBVIOUS
<1>5. Is(f)
  <2> HIDE DEF Is
  <2> QED BY <1>3, <1>4
<1>6. \A t : BB_Tree_Scan(t) = f[t]
  BY <1>4 DEF BB_Tree_Scan
<1>7. \A t \in Trees : f[t] = IF t = Void THEN <<>> ELSE f[t.l] \o <<t.key>> \o f[t.r]
  BY <1>5
<1> HIDE DEF Is
<1>8. \A t \in Trees : f[t] \in Seq(TreeKeys)
  <2> DEFINE S == {t \in Trees : f[t] \in Seq(TreeKeys)}
  <2>0. <<>> \in Seq(TreeKeys)
    OBVIOUS
  <2>1. Void \in S
    BY <1>7, <2>0, TreesIs
  <2>2. \A t \in Trees : t # Void /\ t.l \in S /\ t.r \in S => t \in S
    <3>1. SUFFICES ASSUME NEW t \in Trees, t # Void, t.l \in S, t.r \in S
              PROVE f[t] \in Seq(TreeKeys)
      OBVIOUS
    <3>2. PICK a, b, c : a = f[t.l] /\ b = f[t.r] /\ c = <<t.key>>
      OBVIOUS
    <3>3. a \in Seq(TreeKeys) /\ b \in Seq(TreeKeys) /\ c \in Seq(TreeKeys)
      BY <3>1, <3>2, TreeParts
    <3>4. f[t] = a \o c \o b
      BY <1>7, <3>1, <3>2
    <3> QED BY <3>3, <3>4
  <2> HIDE DEF S
  <2>3. \A t \in Trees : t \in S
    BY <2>1, <2>2, AllTrees
  <2> QED BY <2>3 DEF S
<1> QED BY <1>6, <1>7, <1>8, TreesIs, TreeParts

LEMMA SubtreesRec ==
  /\ Subtrees(Void) = {}
  /\ \A t \in Trees :
       /\ Subtrees(t) \in SUBSET Trees
       /\ t # Void => Subtrees(t) = {t} \cup Subtrees(t.l) \cup Subtrees(t.r)
<1> DEFINE Is(g) == g = [t \in Trees |-> IF t = Void THEN {} ELSE {t} \cup g[t.l] \cup g[t.r]]
           goes == [x \in Trees \X (SUBSET Trees) \X (SUBSET Trees) |->
                      IF x[1] = Void THEN {} ELSE {x[1]} \cup x[2] \cup x[3]]
<1>1. goes \in [Trees \X (SUBSET Trees) \X (SUBSET Trees) -> (SUBSET Trees)]
  <2>1. SUFFICES ASSUME NEW x \in Trees \X (SUBSET Trees) \X (SUBSET Trees)
            PROVE goes[x] \in (SUBSET Trees)
    OBVIOUS
  <2>2. x[1] \in Trees /\ x[2] \in (SUBSET Trees) /\ x[3] \in (SUBSET Trees)
    OBVIOUS
  <2>3. x[1] # Void => x[1].key \in TreeKeys
    BY <2>2, TreeParts
  <2> QED BY <2>2, <2>3, TreesIs
<1>2. PICK h \in [Trees -> SUBSET Trees] : TreeRecOver(h, Trees, {}, goes)
  <2>1. PICK X : X = SUBSET Trees
    OBVIOUS
  <2>2. {} \in X /\ goes \in [Trees \X X \X X -> X]
    BY <1>1, <2>1, TreesIs
  <2> HIDE DEF goes
  <2>3. \E h \in [Trees -> X] : TreeRecOver(h, Trees, {}, goes)
    BY <2>2, TreeRecExists
  <2> QED BY <2>1, <2>3
<1>3. Is(h)
  <2>1. ASSUME NEW t \in Trees, t # Void PROVE h[t] = {t} \cup h[t.l] \cup h[t.r]
    <3>1. t.l \in Trees /\ t.r \in Trees
      BY <2>1, TreeParts
    <3>2. h[t] = goes[<<t, h[t.l], h[t.r]>>]
      BY <1>2, <2>1 DEF TreeRecOver
    <3> QED BY <2>1, <3>1, <3>2
  <2>2. \A t \in Trees : h[t] = IF t = Void THEN {} ELSE {t} \cup h[t.l] \cup h[t.r]
    BY <1>2, <2>1 DEF TreeRecOver
  <2> QED BY <2>2
<1>4. PICK f : f = CHOOSE g : Is(g)
  OBVIOUS
<1>5. Is(f)
  <2> HIDE DEF Is
  <2> QED BY <1>3, <1>4
<1>6. \A t : Subtrees(t) = f[t]
  BY <1>4 DEF Subtrees
<1>7. \A t \in Trees : f[t] = IF t = Void THEN {} ELSE {t} \cup f[t.l] \cup f[t.r]
  BY <1>5
<1> HIDE DEF Is
<1>8. \A t \in Trees : f[t] \in SUBSET Trees
  <2> DEFINE S == {t \in Trees : f[t] \in SUBSET Trees}
  <2>1. Void \in S
    BY <1>7, TreesIs
  <2>2. \A t \in Trees : t # Void /\ t.l \in S /\ t.r \in S => t \in S
    BY <1>7, TreeParts
  <2> HIDE DEF S
  <2>3. \A t \in Trees : t \in S
    BY <2>1, <2>2, AllTrees
  <2> QED BY <2>3 DEF S
<1> QED BY <1>6, <1>7, <1>8, TreesIs, TreeParts

LEMMA MAXRec ==
  /\ BB_Tree_MAX(Void) = Void
  /\ \A t \in Trees :
       /\ BB_Tree_MAX(t) \in Trees
       /\ t # Void => BB_Tree_MAX(t) = IF BB_Tree_MAX(t.r) # Void THEN BB_Tree_MAX(t.r) ELSE t
<1> DEFINE Is(g) == g = [t \in Trees |-> IF t = Void THEN Void
          ELSE IF g[t.r] # Void THEN g[t.r] ELSE t]
           goes == [x \in Trees \X Trees \X Trees |->
                      IF x[1] = Void THEN Void ELSE IF x[3] # Void THEN x[3] ELSE x[1]]
<1>1. goes \in [Trees \X Trees \X Trees -> Trees]
  <2>1. SUFFICES ASSUME NEW x \in Trees \X Trees \X Trees PROVE goes[x] \in Trees
    OBVIOUS
  <2>2. x[1] \in Trees /\ x[2] \in Trees /\ x[3] \in Trees
    OBVIOUS
  <2>3. x[1] # Void => x[1].key \in TreeKeys
    BY <2>2, TreeParts
  <2> QED BY <2>2, <2>3, TreesIs
<1>2. PICK h \in [Trees -> Trees] : TreeRecOver(h, Trees, Void, goes)
  <2>1. PICK X : X = Trees
    OBVIOUS
  <2>2. Void \in X /\ goes \in [Trees \X X \X X -> X]
    BY <1>1, <2>1, TreesIs
  <2> HIDE DEF goes
  <2>3. \E h \in [Trees -> X] : TreeRecOver(h, Trees, Void, goes)
    BY <2>2, TreeRecExists
  <2> QED BY <2>1, <2>3
<1>3. Is(h)
  <2>1. ASSUME NEW t \in Trees, t # Void PROVE h[t] = IF h[t.r] # Void THEN h[t.r] ELSE t
    <3>1. t.l \in Trees /\ t.r \in Trees
      BY <2>1, TreeParts
    <3>2. h[t] = goes[<<t, h[t.l], h[t.r]>>]
      BY <1>2, <2>1 DEF TreeRecOver
    <3> QED BY <2>1, <3>1, <3>2
  <2>2. \A t \in Trees : h[t] = IF t = Void THEN Void ELSE IF h[t.r] # Void THEN h[t.r] ELSE t
    BY <1>2, <2>1 DEF TreeRecOver
  <2> QED BY <2>2
<1>4. PICK f : f = CHOOSE g : Is(g)
  OBVIOUS
<1>5. Is(f)
  <2> HIDE DEF Is
  <2> QED BY <1>3, <1>4
<1>6. \A t : BB_Tree_MAX(t) = f[t]
  BY <1>4 DEF BB_Tree_MAX
<1>7. \A t \in Trees : f[t] = IF t = Void THEN Void ELSE IF f[t.r] # Void THEN f[t.r] ELSE t
  BY <1>5
<1> HIDE DEF Is
<1>8. \A t \in Trees : f[t] \in Trees
  <2> DEFINE S == {t \in Trees : f[t] \in Trees}
  <2>1. Void \in S
    BY <1>7, TreesIs
  <2>2. \A t \in Trees : t # Void /\ t.l \in S /\ t.r \in S => t \in S
    BY <1>7, TreeParts
  <2> HIDE DEF S
  <2>3. \A t \in Trees : t \in S
    BY <2>1, <2>2, AllTrees
  <2> QED BY <2>3 DEF S
<1> QED BY <1>6, <1>7, <1>8, TreesIs, TreeParts

LEMMA MINRec ==
  /\ BB_Tree_MIN(Void) = Void
  /\ \A t \in Trees :
       /\ BB_Tree_MIN(t) \in Trees
       /\ t # Void => BB_Tree_MIN(t) = IF BB_Tree_MIN(t.l) # Void THEN BB_Tree_MIN(t.l) ELSE t
<1> DEFINE Is(g) == g = [t \in Trees |-> IF t = Void THEN Void
          ELSE IF g[t.l] # Void THEN g[t.l] ELSE t]
           goes == [x \in Trees \X Trees \X Trees |->
                      IF x[1] = Void THEN Void ELSE IF x[2] # Void THEN x[2] ELSE x[1]]
<1>1. goes \in [Trees \X Trees \X Trees -> Trees]
  <2>1. SUFFICES ASSUME NEW x \in Trees \X Trees \X Trees PROVE goes[x] \in Trees
    OBVIOUS
  <2>2. x[1] \in Trees /\ x[2] \in Trees /\ x[3] \in Trees
    OBVIOUS
  <2>3. x[1] # Void => x[1].key \in TreeKeys
    BY <2>2, TreeParts
  <2> QED BY <2>2, <2>3, TreesIs
<1>2. PICK h \in [Trees -> Trees] : TreeRecOver(h, Trees, Void, goes)
  <2>1. PICK X : X = Trees
    OBVIOUS
  <2>2. Void \in X /\ goes \in [Trees \X X \X X -> X]
    BY <1>1, <2>1, TreesIs
  <2> HIDE DEF goes
  <2>3. \E h \in [Trees -> X] : TreeRecOver(h, Trees, Void, goes)
    BY <2>2, TreeRecExists
  <2> QED BY <2>1, <2>3
<1>3. Is(h)
  <2>1. ASSUME NEW t \in Trees, t # Void PROVE h[t] = IF h[t.l] # Void THEN h[t.l] ELSE t
    <3>1. t.l \in Trees /\ t.r \in Trees
      BY <2>1, TreeParts
    <3>2. h[t] = goes[<<t, h[t.l], h[t.r]>>]
      BY <1>2, <2>1 DEF TreeRecOver
    <3> QED BY <2>1, <3>1, <3>2
  <2>2. \A t \in Trees : h[t] = IF t = Void THEN Void ELSE IF h[t.l] # Void THEN h[t.l] ELSE t
    BY <1>2, <2>1 DEF TreeRecOver
  <2> QED BY <2>2
<1>4. PICK f : f = CHOOSE g : Is(g)
  OBVIOUS
<1>5. Is(f)
  <2> HIDE DEF Is
  <2> QED BY <1>3, <1>4
<1>6. \A t : BB_Tree_MIN(t) = f[t]
  BY <1>4 DEF BB_Tree_MIN
<1>7. \A t \in Trees : f[t] = IF t = Void THEN Void ELSE IF f[t.l] # Void THEN f[t.l] ELSE t
  BY <1>5
<1> HIDE DEF Is
<1>8. \A t \in Trees : f[t] \in Trees
  <2> DEFINE S == {t \in Trees : f[t] \in Trees}
  <2>1. Void \in S
    BY <1>7, TreesIs
  <2>2. \A t \in Trees : t # Void /\ t.l \in S /\ t.r \in S => t \in S
    BY <1>7, TreeParts
  <2> HIDE DEF S
  <2>3. \A t \in Trees : t \in S
    BY <2>1, <2>2, AllTrees
  <2> QED BY <2>3 DEF S
<1> QED BY <1>6, <1>7, <1>8, TreesIs, TreeParts

\* Where the loop of the queries ends, from u on and with t remembered.
SoughtBy(f, k, stops, rights, keeps) ==
  \A u, t \in Trees :
    f[u][t] = IF u = Void THEN t
              ELSE IF Tree_Cmp(u.key, k) \in stops THEN u
              ELSE f[IF Tree_Cmp(u.key, k) \in rights THEN u.r ELSE u.l]
                    [IF Tree_Cmp(u.key, k) \in keeps THEN u ELSE t]

LEMMA SeekRec ==
  ASSUME NEW k, NEW stops, NEW rights, NEW keeps
  PROVE  \E f \in [Trees -> [Trees -> Trees]] :
           /\ \A t \in Trees : Seek(t, k, stops, rights, keeps) = f[t][Void]
           /\ SoughtBy(f, k, stops, rights, keeps)
<1> DEFINE Next(g, u, t) == IF Tree_Cmp(u.key, k) \in stops THEN u
                            ELSE g[IF Tree_Cmp(u.key, k) \in rights THEN u.r ELSE u.l]
                                  [IF Tree_Cmp(u.key, k) \in keeps THEN u ELSE t]
           Is(g) == g = [u \in Trees |-> [t \in Trees |-> IF u = Void THEN t ELSE Next(g, u, t)]]
           XX == [Trees -> Trees]
           base == [t \in Trees |-> t]
           Moved(x, t) == IF Tree_Cmp(x[1].key, k) \in stops THEN x[1]
                          ELSE (IF Tree_Cmp(x[1].key, k) \in rights THEN x[3] ELSE x[2])
                                 [IF Tree_Cmp(x[1].key, k) \in keeps THEN x[1] ELSE t]
           goes == [x \in Trees \X XX \X XX |-> [t \in Trees |-> Moved(x, t)]]
<1>1. goes \in [Trees \X XX \X XX -> XX]
  <2>1. SUFFICES ASSUME NEW x \in Trees \X XX \X XX, NEW t \in Trees
            PROVE Moved(x, t) \in Trees
    OBVIOUS
  <2>2. x[1] \in Trees /\ x[2] \in XX /\ x[3] \in XX
    OBVIOUS
  <2> QED BY <2>2
<1>2. PICK h \in [Trees -> XX] : TreeRecOver(h, Trees, base, goes)
  <2>1. PICK X, b : X = XX /\ b = base
    OBVIOUS
  <2>2. b \in X /\ goes \in [Trees \X X \X X -> X]
    BY <1>1, <2>1
  <2> HIDE DEF goes, base, XX
  <2>3. \E h \in [Trees -> X] : TreeRecOver(h, Trees, b, goes)
    BY <2>2, TreeRecExists
  <2> QED BY <2>1, <2>3
<1>3. Is(h)
  <2>1. ASSUME NEW u \in Trees
        PROVE  h[u] = [t \in Trees |-> IF u = Void THEN t ELSE Next(h, u, t)]
    <3>1. CASE u = Void
      BY <1>2, <3>1 DEF TreeRecOver
    <3>2. CASE u # Void
      <4>1. u.l \in Trees /\ u.r \in Trees
        BY <3>2, TreeParts
      <4>2. h[u] = goes[<<u, h[u.l], h[u.r]>>]
        BY <1>2, <3>2 DEF TreeRecOver
      <4>3. h[u] = [t \in Trees |-> Moved(<<u, h[u.l], h[u.r]>>, t)]
        BY <4>1, <4>2
      <4>4. ASSUME NEW t \in Trees PROVE Moved(<<u, h[u.l], h[u.r]>>, t) = Next(h, u, t)
        OBVIOUS
      <4> HIDE DEF Moved, Next, goes
      <4> QED BY <3>2, <4>3, <4>4
    <3> QED BY <3>1, <3>2
  <2> HIDE DEF Next
  <2> QED BY <2>1
<1>4. PICK f : f = CHOOSE g : Is(g)
  OBVIOUS
<1>5. Is(f)
  <2> HIDE DEF Is
  <2> QED BY <1>3, <1>4
<1>6. \A t : Seek(t, k, stops, rights, keeps) = f[t][Void]
  BY <1>4 DEF Seek
<1>7. \A u \in Trees : f[u] = [t \in Trees |-> IF u = Void THEN t ELSE Next(f, u, t)]
  <2> HIDE DEF Next
  <2> QED BY <1>5
<1>8. \A u \in Trees : \A t \in Trees : f[u][t] = IF u = Void THEN t ELSE Next(f, u, t)
  <2> HIDE DEF Next, Is
  <2> QED BY <1>7
<1> HIDE DEF Is
<1>9. \A u \in Trees : f[u] \in XX
  <2> DEFINE S == {u \in Trees : f[u] \in XX}
  <2>1. Void \in S
    <3>1. f[Void] = [t \in Trees |-> t]
      <4> HIDE DEF Next
      <4> QED BY <1>7, TreesIs
    <3> QED BY <3>1, TreesIs
  <2>2. ASSUME NEW u \in Trees, u # Void, u.l \in S, u.r \in S PROVE u \in S
    <3>1. ASSUME NEW t \in Trees PROVE Next(f, u, t) \in Trees
      BY <2>2
    <3>2. f[u] = [t \in Trees |-> Next(f, u, t)]
      <4> HIDE DEF Next
      <4> QED BY <1>7, <2>2
    <3> HIDE DEF Next
    <3> QED BY <3>1, <3>2
  <2> HIDE DEF S
  <2>3. \A u \in Trees : u \in S
    BY <2>1, <2>2, AllTrees
  <2> QED BY <2>3 DEF S
<1>10. f \in [Trees -> XX]
  <2> HIDE DEF XX
  <2>1. f = [u \in Trees |-> [t \in Trees |-> IF u = Void THEN t ELSE Next(f, u, t)]]
    BY <1>5 DEF Is
  <2> HIDE DEF Next
  <2> QED BY <1>9, <2>1
<1>11. SoughtBy(f, k, stops, rights, keeps)
  BY <1>8 DEF SoughtBy
<1> QED BY <1>6, <1>10, <1>11

\* Insertion and deletion: what they make of a tree and of what they made of its sides.
AddOf(t, k, a, b) ==
  IF t = Void THEN Leaf(k)
  ELSE IF t.key > k
  THEN LET s == WithLeft(t, a) IN IF s.ld - s.rd <= 1 THEN s ELSE RaiseLeft(s)
  ELSE IF t.key < k
  THEN LET s == WithRight(t, b) IN IF s.rd - s.ld <= 1 THEN s ELSE RaiseRight(s)
  ELSE t

AddOver(g, k, T) == g = [t \in T |-> AddOf(t, k, g[t.l], g[t.r])]

LEMMA AddRec ==
  ASSUME NEW k PROVE \A t \in Trees : BB_Tree_Add(t, k) = AddOf(t, k, BB_Tree_Add(t.l, k), BB_Tree_Add(t.r, k))
<1> DEFINE Is == {n \in 0 .. TreeMost : \E g : AddOver(g, k, TreesUpTo[n])}
<1>1. 0 \in Is
  <2>1. PICK g : g = [t \in TreesUpTo[0] |-> AddOf(Void, k, Void, Void)]
    OBVIOUS
  <2>2. ASSUME NEW t \in TreesUpTo[0]
        PROVE  AddOf(t, k, g[t.l], g[t.r]) = AddOf(Void, k, Void, Void)
    <3>1. t = Void
      BY UpToIs
    <3> QED BY <3>1 DEF AddOf
  <2>3. AddOver(g, k, TreesUpTo[0])
    BY <2>1, <2>2 DEF AddOver
  <2> QED BY <2>3, MostIs
<1>2. ASSUME NEW n \in 0 .. TreeMost - 1, n \in Is PROVE n + 1 \in Is
  <2>1. n + 1 \in 1 .. TreeMost /\ n + 1 \in 0 .. TreeMost /\ n \in 0 .. TreeMost
        /\ (n + 1) - 1 = n /\ n <= n + 1
    BY MostIs
  <2>2. TreesUpTo[n + 1] = {Void} \cup NodesOver(TreesUpTo[n])
    BY <2>1, UpToIs
  <2>3. TreesUpTo[n] \subseteq TreesUpTo[n + 1]
    BY <2>1, UpToGrows
  <2>4. PICK g : AddOver(g, k, TreesUpTo[n])
    BY <1>2
  <2>5. PICK h : h = [t \in TreesUpTo[n + 1] |-> AddOf(t, k, g[t.l], g[t.r])]
    OBVIOUS
  <2>6. \A t \in TreesUpTo[n] : h[t] = g[t]
    BY <2>3, <2>4, <2>5 DEF AddOver
  <2>7. ASSUME NEW t \in TreesUpTo[n + 1]
        PROVE  AddOf(t, k, g[t.l], g[t.r]) = AddOf(t, k, h[t.l], h[t.r])
    <3>1. CASE t = Void
      BY <3>1 DEF AddOf
    <3>2. CASE t # Void
      <4>1. t.l \in TreesUpTo[n] /\ t.r \in TreesUpTo[n]
        BY <2>2, <3>2 DEF NodesOver
      <4>2. h[t.l] = g[t.l] /\ h[t.r] = g[t.r]
        BY <2>6, <4>1
      <4> QED BY <4>2
    <3> QED BY <3>1, <3>2
  <2>8. AddOver(h, k, TreesUpTo[n + 1])
    BY <2>5, <2>7 DEF AddOver
  <2> QED BY <2>1, <2>8
<1>3. \E g : AddOver(g, k, Trees)
  <2>1. \A n \in 0 .. TreeMost : n \in Is
    <3> HIDE DEF Is
    <3> QED BY <1>1, <1>2, MostIs, AllNumbers
  <2> QED BY <2>1, MostIs, TreesIs
<1>4. PICK f : f = CHOOSE g : AddOver(g, k, Trees)
  OBVIOUS
<1>5. AddOver(f, k, Trees)
  BY <1>3, <1>4
<1>6. \A t : BB_Tree_Add(t, k) = f[t]
  BY <1>4 DEF BB_Tree_Add, AddOver, AddOf
<1>7. \A t \in Trees : f[t] = AddOf(t, k, f[t.l], f[t.r])
  BY <1>5 DEF AddOver
<1> QED BY <1>6, <1>7

RightOf(t, d) ==
  IF t.r = Void THEN [took |-> t, rest |-> t]
  ELSE LET s == IF d.took = t.r
                THEN [t EXCEPT !.r = d.took.l, !.rd = d.took.ld]
                ELSE [t EXCEPT !.r = d.rest, !.rd = Deeper(d.rest.rd, d.rest.ld) + 1]
       IN [took |-> d.took, rest |-> IF s.ld - s.rd > 1 THEN L_blc(s) ELSE s]

RightmostOver(g, T) == g = [t \in T \ {Void} |-> RightOf(t, g[t.r])]

LEMMA RightOutRec ==
  \A t \in Trees \ {Void} : t_r(t) = RightOf(t, t_r(t.r))
<1> DEFINE Is == {n \in 0 .. TreeMost : \E g : RightmostOver(g, TreesUpTo[n])}
<1>1. 0 \in Is
  <2>1. PICK g : g = [t \in TreesUpTo[0] \ {Void} |-> RightOf(Void, Void)]
    OBVIOUS
  <2>2. ASSUME NEW t \in TreesUpTo[0] \ {Void}
        PROVE  RightOf(t, g[t.r]) = RightOf(Void, Void)
    <3>1. t = Void
      BY UpToIs
    <3> QED BY <3>1 DEF RightOf
  <2>3. RightmostOver(g, TreesUpTo[0])
    BY <2>1, <2>2 DEF RightmostOver
  <2> QED BY <2>3, MostIs
<1>2. ASSUME NEW n \in 0 .. TreeMost - 1, n \in Is PROVE n + 1 \in Is
  <2>1. n + 1 \in 1 .. TreeMost /\ n + 1 \in 0 .. TreeMost /\ n \in 0 .. TreeMost
        /\ (n + 1) - 1 = n /\ n <= n + 1
    BY MostIs
  <2>2. TreesUpTo[n + 1] = {Void} \cup NodesOver(TreesUpTo[n])
    BY <2>1, UpToIs
  <2>3. TreesUpTo[n] \subseteq TreesUpTo[n + 1]
    BY <2>1, UpToGrows
  <2>4. PICK g : RightmostOver(g, TreesUpTo[n])
    BY <1>2
  <2>5. PICK h : h = [t \in TreesUpTo[n + 1] \ {Void} |-> RightOf(t, g[t.r])]
    OBVIOUS
  <2>6. \A t \in TreesUpTo[n] \ {Void} : h[t] = g[t]
    BY <2>3, <2>4, <2>5 DEF RightmostOver
  <2>7. ASSUME NEW t \in TreesUpTo[n + 1] \ {Void}
        PROVE  RightOf(t, g[t.r]) = RightOf(t, h[t.r])
    <3>1. CASE t.r = Void
      BY <3>1 DEF RightOf
    <3>2. CASE t.r # Void
      <4>1. t.r \in TreesUpTo[n] \ {Void}
        BY <2>2, <3>2 DEF NodesOver
      <4>2. h[t.r] = g[t.r]
        BY <2>6, <4>1
      <4> QED BY <4>2
    <3> QED BY <3>1, <3>2
  <2>8. RightmostOver(h, TreesUpTo[n + 1])
    BY <2>5, <2>7 DEF RightmostOver
  <2> QED BY <2>1, <2>8
<1>3. \E g : RightmostOver(g, Trees)
  <2>1. \A n \in 0 .. TreeMost : n \in Is
    <3> HIDE DEF Is
    <3> QED BY <1>1, <1>2, MostIs, AllNumbers
  <2> QED BY <2>1, MostIs, TreesIs
<1>4. PICK f : f = CHOOSE g : RightmostOver(g, Trees)
  OBVIOUS
<1>5. RightmostOver(f, Trees)
  BY <1>3, <1>4
<1>6. \A t : t_r(t) = f[t]
  BY <1>4 DEF t_r, RightmostOver, RightOf
<1>7. \A t \in Trees \ {Void} : f[t] = RightOf(t, f[t.r])
  BY <1>5 DEF RightmostOver
<1> QED BY <1>6, <1>7

LeftOf(t, d) ==
  IF t.l = Void THEN [took |-> t, rest |-> t]
  ELSE LET s == IF d.took = t.l
                THEN [t EXCEPT !.l = d.took.r, !.ld = d.took.rd]
                ELSE [t EXCEPT !.l = d.rest, !.ld = Deeper(d.rest.rd, d.rest.ld) + 1]
       IN [took |-> d.took, rest |-> IF s.rd - s.ld > 1 THEN R_blc(s) ELSE s]

LeftmostOver(g, T) == g = [t \in T \ {Void} |-> LeftOf(t, g[t.l])]

LEMMA LeftOutRec ==
  \A t \in Trees \ {Void} : t_l(t) = LeftOf(t, t_l(t.l))
<1> DEFINE Is == {n \in 0 .. TreeMost : \E g : LeftmostOver(g, TreesUpTo[n])}
<1>1. 0 \in Is
  <2>1. PICK g : g = [t \in TreesUpTo[0] \ {Void} |-> LeftOf(Void, Void)]
    OBVIOUS
  <2>2. ASSUME NEW t \in TreesUpTo[0] \ {Void}
        PROVE  LeftOf(t, g[t.l]) = LeftOf(Void, Void)
    <3>1. t = Void
      BY UpToIs
    <3> QED BY <3>1 DEF LeftOf
  <2>3. LeftmostOver(g, TreesUpTo[0])
    BY <2>1, <2>2 DEF LeftmostOver
  <2> QED BY <2>3, MostIs
<1>2. ASSUME NEW n \in 0 .. TreeMost - 1, n \in Is PROVE n + 1 \in Is
  <2>1. n + 1 \in 1 .. TreeMost /\ n + 1 \in 0 .. TreeMost /\ n \in 0 .. TreeMost
        /\ (n + 1) - 1 = n /\ n <= n + 1
    BY MostIs
  <2>2. TreesUpTo[n + 1] = {Void} \cup NodesOver(TreesUpTo[n])
    BY <2>1, UpToIs
  <2>3. TreesUpTo[n] \subseteq TreesUpTo[n + 1]
    BY <2>1, UpToGrows
  <2>4. PICK g : LeftmostOver(g, TreesUpTo[n])
    BY <1>2
  <2>5. PICK h : h = [t \in TreesUpTo[n + 1] \ {Void} |-> LeftOf(t, g[t.l])]
    OBVIOUS
  <2>6. \A t \in TreesUpTo[n] \ {Void} : h[t] = g[t]
    BY <2>3, <2>4, <2>5 DEF LeftmostOver
  <2>7. ASSUME NEW t \in TreesUpTo[n + 1] \ {Void}
        PROVE  LeftOf(t, g[t.l]) = LeftOf(t, h[t.l])
    <3>1. CASE t.l = Void
      BY <3>1 DEF LeftOf
    <3>2. CASE t.l # Void
      <4>1. t.l \in TreesUpTo[n] \ {Void}
        BY <2>2, <3>2 DEF NodesOver
      <4>2. h[t.l] = g[t.l]
        BY <2>6, <4>1
      <4> QED BY <4>2
    <3> QED BY <3>1, <3>2
  <2>8. LeftmostOver(h, TreesUpTo[n + 1])
    BY <2>5, <2>7 DEF LeftmostOver
  <2> QED BY <2>1, <2>8
<1>3. \E g : LeftmostOver(g, Trees)
  <2>1. \A n \in 0 .. TreeMost : n \in Is
    <3> HIDE DEF Is
    <3> QED BY <1>1, <1>2, MostIs, AllNumbers
  <2> QED BY <2>1, MostIs, TreesIs
<1>4. PICK f : f = CHOOSE g : LeftmostOver(g, Trees)
  OBVIOUS
<1>5. LeftmostOver(f, Trees)
  BY <1>3, <1>4
<1>6. \A t : t_l(t) = f[t]
  BY <1>4 DEF t_l, LeftmostOver, LeftOf
<1>7. \A t \in Trees \ {Void} : f[t] = LeftOf(t, f[t.l])
  BY <1>5 DEF LeftmostOver
<1> QED BY <1>6, <1>7

DelOf(t, k, a, b) ==
  IF t = Void THEN [root |-> t, flg |-> 0]
  ELSE IF t.key = k
  THEN IF k \in Kept THEN [root |-> t, flg |-> 0] ELSE [root |-> t_delete(t), flg |-> 1]
  ELSE IF t.key > k
  THEN LET s == WithLeft(t, a.root)
       IN IF a.flg = 0 THEN [root |-> t, flg |-> 0]
          ELSE [root |-> IF s.rd - s.ld > 1 THEN R_blc(s) ELSE s, flg |-> a.flg + 1]
  ELSE LET s == WithRight(t, b.root)
       IN IF b.flg = 0 THEN [root |-> t, flg |-> 0]
          ELSE [root |-> IF s.ld - s.rd > 1 THEN L_blc(s) ELSE s, flg |-> b.flg + 1]

DelOver(g, k, T) == g = [t \in T |-> DelOf(t, k, g[t.l], g[t.r])]

LEMMA DelRec ==
  ASSUME NEW k PROVE \A t \in Trees : BB_Tree_Del(t, k) = DelOf(t, k, BB_Tree_Del(t.l, k), BB_Tree_Del(t.r, k))
<1> DEFINE Is == {n \in 0 .. TreeMost : \E g : DelOver(g, k, TreesUpTo[n])}
<1>1. 0 \in Is
  <2>1. PICK g : g = [t \in TreesUpTo[0] |-> DelOf(Void, k, Void, Void)]
    OBVIOUS
  <2>2. ASSUME NEW t \in TreesUpTo[0]
        PROVE  DelOf(t, k, g[t.l], g[t.r]) = DelOf(Void, k, Void, Void)
    <3>1. t = Void
      BY UpToIs
    <3> QED BY <3>1 DEF DelOf
  <2>3. DelOver(g, k, TreesUpTo[0])
    BY <2>1, <2>2 DEF DelOver
  <2> QED BY <2>3, MostIs
<1>2. ASSUME NEW n \in 0 .. TreeMost - 1, n \in Is PROVE n + 1 \in Is
  <2>1. n + 1 \in 1 .. TreeMost /\ n + 1 \in 0 .. TreeMost /\ n \in 0 .. TreeMost
        /\ (n + 1) - 1 = n /\ n <= n + 1
    BY MostIs
  <2>2. TreesUpTo[n + 1] = {Void} \cup NodesOver(TreesUpTo[n])
    BY <2>1, UpToIs
  <2>3. TreesUpTo[n] \subseteq TreesUpTo[n + 1]
    BY <2>1, UpToGrows
  <2>4. PICK g : DelOver(g, k, TreesUpTo[n])
    BY <1>2
  <2>5. PICK h : h = [t \in TreesUpTo[n + 1] |-> DelOf(t, k, g[t.l], g[t.r])]
    OBVIOUS
  <2>6. \A t \in TreesUpTo[n] : h[t] = g[t]
    BY <2>3, <2>4, <2>5 DEF DelOver
  <2>7. ASSUME NEW t \in TreesUpTo[n + 1]
        PROVE  DelOf(t, k, g[t.l], g[t.r]) = DelOf(t, k, h[t.l], h[t.r])
    <3>1. CASE t = Void
      BY <3>1 DEF DelOf
    <3>2. CASE t # Void
      <4>1. t.l \in TreesUpTo[n] /\ t.r \in TreesUpTo[n]
        BY <2>2, <3>2 DEF NodesOver
      <4>2. h[t.l] = g[t.l] /\ h[t.r] = g[t.r]
        BY <2>6, <4>1
      <4> QED BY <4>2
    <3> QED BY <3>1, <3>2
  <2>8. DelOver(h, k, TreesUpTo[n + 1])
    BY <2>5, <2>7 DEF DelOver
  <2> QED BY <2>1, <2>8
<1>3. \E g : DelOver(g, k, Trees)
  <2>1. \A n \in 0 .. TreeMost : n \in Is
    <3> HIDE DEF Is
    <3> QED BY <1>1, <1>2, MostIs, AllNumbers
  <2> QED BY <2>1, MostIs, TreesIs
<1>4. PICK f : f = CHOOSE g : DelOver(g, k, Trees)
  OBVIOUS
<1>5. DelOver(f, k, Trees)
  BY <1>3, <1>4
<1>6. \A t : BB_Tree_Del(t, k) = f[t]
  BY <1>4 DEF BB_Tree_Del, DelOver, DelOf
<1>7. \A t \in Trees : f[t] = DelOf(t, k, f[t.l], f[t.r])
  BY <1>5 DEF DelOver
<1> QED BY <1>6, <1>7

-----------------------------------------------------------------------------
(* Sound trees: in order, with true depths. *)

Keys(t) == {u.key : u \in Subtrees(t)}
Node(k, l, r) == [key |-> k, ld |-> Depth(l), rd |-> Depth(r), l |-> l, r |-> r]
Splits(l, k, r) == (\A a \in Keys(l) : a < k) /\ (\A b \in Keys(r) : k < b)
SoundAt(u) == u.ld = Depth(u.l) /\ u.rd = Depth(u.r) /\ Splits(u.l, u.key, u.r)
Sound(t) == t \in Trees /\ \A u \in Subtrees(t) : SoundAt(u)
Flat(t) == \A u \in Subtrees(t) : u.ld - u.rd \in -1 .. 1

LEMMA SubtreesAre ==
  ASSUME NEW t \in Trees
  PROVE  Subtrees(t) \subseteq Trees /\ Void \notin Subtrees(t)
            /\ (t # Void => t \in Subtrees(t))
<1> DEFINE S == {u \in Trees : Void \notin Subtrees(u)}
<1>1. Void \in S
  BY TreesIs, SubtreesRec
<1>2. \A u \in Trees : u # Void /\ u.l \in S /\ u.r \in S => u \in S
  BY SubtreesRec
<1>3. \A u \in Trees : u \in S
  <2> HIDE DEF S
  <2> QED BY <1>1, <1>2, AllTrees
<1> QED BY <1>3, SubtreesRec

LEMMA KeysAre ==
  /\ Keys(Void) = {}
  /\ \A t \in Trees :
       /\ Keys(t) \subseteq TreeKeys
       /\ t # Void => Keys(t) = Keys(t.l) \cup {t.key} \cup Keys(t.r)
<1>1. Keys(Void) = {}
  BY SubtreesRec DEF Keys
<1>2. ASSUME NEW t \in Trees, NEW u \in Subtrees(t) PROVE u.key \in TreeKeys
  BY SubtreesAre, TreeParts
<1>3. ASSUME NEW t \in Trees, t # Void PROVE Keys(t) = Keys(t.l) \cup {t.key} \cup Keys(t.r)
  <2>1. Subtrees(t) = {t} \cup Subtrees(t.l) \cup Subtrees(t.r)
    BY <1>3, SubtreesRec
  <2> QED BY <2>1 DEF Keys
<1>4. ASSUME NEW t \in Trees PROVE Keys(t) \subseteq TreeKeys
  BY <1>2 DEF Keys
<1> QED BY <1>1, <1>3, <1>4

LEMMA SoundParts ==
  ASSUME NEW t, Sound(t), t # Void
  PROVE  /\ t \in Trees /\ Sound(t.l) /\ Sound(t.r) /\ SoundAt(t) /\ t = Node(t.key, t.l, t.r)
         /\ t.key \in TreeKeys /\ t.key \in Nat /\ t.ld \in Nat /\ t.rd \in Nat
         /\ Keys(t) = Keys(t.l) \cup {t.key} \cup Keys(t.r) /\ Splits(t.l, t.key, t.r)
         /\ Depth(t) = Deeper(t.ld, t.rd) + 1 /\ t.ld = Depth(t.l) /\ t.rd = Depth(t.r)
<1>1. t \in Trees /\ t.l \in Trees /\ t.r \in Trees
  BY TreeParts DEF Sound
<1>2. Subtrees(t) = {t} \cup Subtrees(t.l) \cup Subtrees(t.r)
  BY <1>1, SubtreesRec
<1>3. Sound(t.l) /\ Sound(t.r) /\ SoundAt(t)
  BY <1>1, <1>2 DEF Sound
<1>4. t = [key |-> t.key, ld |-> t.ld, rd |-> t.rd, l |-> t.l, r |-> t.r]
      /\ t.key \in TreeKeys /\ t.key \in Nat /\ t.ld \in Nat /\ t.rd \in Nat
  BY <1>1, TreeParts, MostIs
<1>5. t.ld = Depth(t.l) /\ t.rd = Depth(t.r) /\ Splits(t.l, t.key, t.r)
  BY <1>3 DEF SoundAt
<1>6. t = Node(t.key, t.l, t.r)
  BY <1>4, <1>5 DEF Node
<1>7. Keys(t) = Keys(t.l) \cup {t.key} \cup Keys(t.r)
  BY <1>1, KeysAre
<1> QED BY <1>1, <1>3, <1>4, <1>5, <1>6, <1>7 DEF Depth

LEMMA VoidIs == Sound(Void) /\ Keys(Void) = {} /\ Depth(Void) = 0 /\ Flat(Void)
BY TreesIs, SubtreesRec, KeysAre DEF Sound, Depth, Flat

LEMMA DepthIs ==
  ASSUME NEW t, Sound(t)
  PROVE  Depth(t) \in Nat /\ (Depth(t) = 0 <=> t = Void)
<1>1. CASE t = Void
  BY <1>1, VoidIs
<1>2. CASE t # Void
  <2>1. Depth(t) = Deeper(t.ld, t.rd) + 1 /\ t.ld \in Nat /\ t.rd \in Nat
    BY <1>2, SoundParts
  <2> QED BY <1>2, <2>1 DEF Deeper
<1> QED BY <1>1, <1>2

LEMMA HeightIs == \A t \in Trees : Sound(t) => Height(t) = Depth(t)
<1> DEFINE S == {t \in Trees : Sound(t) => Height(t) = Depth(t)}
<1>1. Void \in S
  BY VoidIs, HeightRec, TreesIs
<1>2. ASSUME NEW t \in Trees, t # Void, t.l \in S, t.r \in S PROVE t \in S
  <2>1. SUFFICES ASSUME Sound(t) PROVE Height(t) = Depth(t)
    OBVIOUS
  <2>2. Height(t.l) = Depth(t.l) /\ Height(t.r) = Depth(t.r)
    BY <1>2, <2>1, SoundParts
  <2>3. Depth(t) = Deeper(t.ld, t.rd) + 1 /\ t.ld = Depth(t.l) /\ t.rd = Depth(t.r)
    BY <1>2, <2>1, SoundParts
  <2>4. Height(t) = Deeper(Height(t.l), Height(t.r)) + 1
    BY <1>2, HeightRec
  <2> QED BY <2>2, <2>3, <2>4
<1>3. \A t \in Trees : t \in S
  <2> HIDE DEF S
  <2> QED BY <1>1, <1>2, AllTrees
<1> QED BY <1>3

LEMMA CountIs ==
  ASSUME NEW t, Sound(t)
  PROVE  /\ IsFiniteSet(Keys(t)) /\ BB_Tree_Count(t) = Cardinality(Keys(t))
         /\ Height(t) <= Cardinality(Keys(t))
<1> DEFINE Is(u) == /\ IsFiniteSet(Keys(u)) /\ BB_Tree_Count(u) = Cardinality(Keys(u))
                    /\ Height(u) <= Cardinality(Keys(u))
           S == {u \in Trees : Sound(u) => Is(u)}
<1>1. Void \in S
  BY VoidIs, HeightRec, CountRec, TreesIs, FS_EmptySet
<1>2. ASSUME NEW u \in Trees, u # Void, u.l \in S, u.r \in S PROVE u \in S
  <2>1. SUFFICES ASSUME Sound(u) PROVE Is(u)
    OBVIOUS
  <2>2. PICK A, B, k : A = Keys(u.l) /\ B = Keys(u.r) /\ k = u.key
    OBVIOUS
  <2>3. Sound(u.l) /\ Sound(u.r) /\ Splits(u.l, u.key, u.r) /\ u.key \in Nat
        /\ Keys(u) = Keys(u.l) \cup {u.key} \cup Keys(u.r)
    BY <1>2, <2>1, SoundParts
  <2>4. IsFiniteSet(A) /\ IsFiniteSet(B) /\ Is(u.l) /\ Is(u.r)
    BY <1>2, <2>2, <2>3
  <2>5. u.l \in Trees /\ u.r \in Trees /\ A \subseteq Nat /\ B \subseteq Nat
    BY <1>2, <2>2, TreeParts, KeysAre, MostIs
  <2>6. k \notin A /\ A \cap B = {} /\ k \notin B /\ k \in Nat
    BY <2>2, <2>3, <2>5 DEF Splits
  <2>7. IsFiniteSet(A \cup {k}) /\ Cardinality(A \cup {k}) = Cardinality(A) + 1
    BY <2>4, <2>6, FS_AddElement
  <2>8. (A \cup {k}) \cap B = {}
    BY <2>6
  <2>9. IsFiniteSet((A \cup {k}) \cup B)
        /\ Cardinality((A \cup {k}) \cup B) = Cardinality(A \cup {k}) + Cardinality(B) - Cardinality((A \cup {k}) \cap B)
    BY <2>4, <2>7, FS_Union
  <2>10. Cardinality(A) \in Nat /\ Cardinality(B) \in Nat
    BY <2>4, FS_CardinalityType
  <2>11. Cardinality((A \cup {k}) \cup B) = Cardinality(A) + 1 + Cardinality(B)
    <3>1. Cardinality((A \cup {k}) \cap B) = 0
      BY <2>8, FS_EmptySet
    <3> QED BY <2>7, <2>9, <2>10, <3>1
  <2>12. Keys(u) = (A \cup {k}) \cup B
    BY <2>2, <2>3
  <2>13. BB_Tree_Count(u) = BB_Tree_Count(u.l) + 1 + BB_Tree_Count(u.r)
         /\ Height(u) = Deeper(Height(u.l), Height(u.r)) + 1
    BY <1>2, CountRec, HeightRec
  <2>14. Height(u.l) \in Nat /\ Height(u.r) \in Nat
    BY <2>5, HeightRec
  <2>15. BB_Tree_Count(u) = Cardinality(A) + 1 + Cardinality(B)
    BY <2>2, <2>4, <2>13
  <2>16. Height(u) <= Cardinality(A) + 1 + Cardinality(B)
    BY <2>2, <2>4, <2>10, <2>13, <2>14 DEF Deeper
  <2> QED BY <2>9, <2>11, <2>12, <2>15, <2>16
<1>3. \A u \in Trees : u \in S
  <2> HIDE DEF S
  <2> QED BY <1>1, <1>2, AllTrees
<1> QED BY <1>3 DEF Sound

LEMMA LevelOf == \A t \in Trees : \A n \in 0 .. TreeMost : Height(t) <= n => t \in TreesUpTo[n]
<1> DEFINE S == {t \in Trees : \A n \in 0 .. TreeMost : Height(t) <= n => t \in TreesUpTo[n]}
<1>1. Void \in S
  <2>1. ASSUME NEW n \in 0 .. TreeMost PROVE Void \in TreesUpTo[n]
    <3>1. TreesUpTo[0] \subseteq TreesUpTo[n]
      BY MostIs, UpToGrows
    <3> QED BY <3>1, UpToIs
  <2> QED BY <2>1, TreesIs
<1>2. ASSUME NEW t \in Trees, t # Void, t.l \in S, t.r \in S PROVE t \in S
  <2>1. SUFFICES ASSUME NEW n \in 0 .. TreeMost, Height(t) <= n PROVE t \in TreesUpTo[n]
    OBVIOUS
  <2>2. t.l \in Trees /\ t.r \in Trees /\ t.key \in TreeKeys /\ t.ld \in Nat /\ t.rd \in Nat
        /\ t = [key |-> t.key, ld |-> t.ld, rd |-> t.rd, l |-> t.l, r |-> t.r]
    BY <1>2, TreeParts
  <2>3. Height(t) = Deeper(Height(t.l), Height(t.r)) + 1 /\ Height(t.l) \in Nat
            /\ Height(t.r) \in Nat
    BY <1>2, <2>2, HeightRec
  <2>4. n \in 1 .. TreeMost /\ n - 1 \in 0 .. TreeMost /\ Height(t.l) <= n - 1
            /\ Height(t.r) <= n - 1
    BY <2>1, <2>3, MostIs DEF Deeper
  <2>5. t.l \in TreesUpTo[n - 1] /\ t.r \in TreesUpTo[n - 1]
    BY <1>2, <2>4
  <2>6. t \in NodesOver(TreesUpTo[n - 1])
    BY <2>2, <2>5 DEF NodesOver
  <2> QED BY <2>4, <2>6, UpToIs
<1>3. \A t \in Trees : t \in S
  <2> HIDE DEF S
  <2> QED BY <1>1, <1>2, AllTrees
<1> QED BY <1>3

\* A node over two sound trees that its key lies between.
Made(n, k, l, r) ==
  /\ Sound(n) /\ n # Void /\ n.key = k /\ n.l = l /\ n.r = r /\ n.ld = Depth(l)
            /\ n.rd = Depth(r)
  /\ Keys(n) = Keys(l) \cup {k} \cup Keys(r) /\ Depth(n) = Deeper(Depth(l), Depth(r)) + 1
  /\ Flat(n) <=> Flat(l) /\ Flat(r) /\ Depth(l) - Depth(r) \in -1 .. 1

LEMMA MakeNode ==
  ASSUME NEW l, NEW r, Sound(l), Sound(r), NEW k \in TreeKeys, Splits(l, k, r)
  PROVE  Made(Node(k, l, r), k, l, r)
<1>1. PICK n : n = Node(k, l, r)
  OBVIOUS
<1>2. l \in Trees /\ r \in Trees /\ Depth(l) \in Nat /\ Depth(r) \in Nat
  BY DepthIs DEF Sound
<1>3. PICK A, B : A = Keys(l) /\ B = Keys(r)
  OBVIOUS
<1>4. A \subseteq TreeKeys \ {k} /\ B \subseteq TreeKeys \ {k}
  BY <1>2, <1>3, KeysAre, MostIs DEF Splits
<1>5. IsFiniteSet(TreeKeys \ {k}) /\ Cardinality(TreeKeys \ {k}) = TreeMost - 1
  BY MostIs, FS_RemoveElement DEF TreeMost
<1>6. Cardinality(A) <= TreeMost - 1 /\ Cardinality(B) <= TreeMost - 1
  BY <1>4, <1>5, FS_Subset
<1>7. Height(l) <= Cardinality(A) /\ Height(r) <= Cardinality(B) /\ Height(l) \in Nat
          /\ Height(r) \in Nat
      /\ Cardinality(A) \in Nat /\ Cardinality(B) \in Nat
  BY <1>2, <1>3, CountIs, HeightRec, FS_CardinalityType
<1>8. TreeMost \in 1 .. TreeMost /\ TreeMost - 1 \in 0 .. TreeMost
  BY <1>6, <1>7, MostIs
<1>9. l \in TreesUpTo[TreeMost - 1] /\ r \in TreesUpTo[TreeMost - 1]
  BY <1>2, <1>6, <1>7, <1>8, LevelOf
<1>10. n \in NodesOver(TreesUpTo[TreeMost - 1])
  BY <1>1, <1>2, <1>9 DEF Node, NodesOver
<1>11. n \in Trees /\ n # Void
  BY <1>8, <1>10, TreesIs, UpToIs, VoidIsNo
<1>12. n.key = k /\ n.l = l /\ n.r = r /\ n.ld = Depth(l) /\ n.rd = Depth(r)
  BY <1>1 DEF Node
<1>13. Subtrees(n) = {n} \cup Subtrees(l) \cup Subtrees(r)
  BY <1>11, <1>12, SubtreesRec
<1>14. SoundAt(n)
  BY <1>12 DEF SoundAt
<1>15. Sound(n)
  BY <1>11, <1>13, <1>14 DEF Sound
<1>16. Keys(n) = Keys(l) \cup {k} \cup Keys(r)
  BY <1>11, <1>12, KeysAre
<1>17. Depth(n) = Deeper(Depth(l), Depth(r)) + 1
  BY <1>11, <1>12 DEF Depth
<1>18. Flat(n) <=> Flat(l) /\ Flat(r) /\ Depth(l) - Depth(r) \in -1 .. 1
  BY <1>12, <1>13 DEF Flat
<1> QED BY <1>1, <1>11, <1>12, <1>15, <1>16, <1>17, <1>18 DEF Made

-----------------------------------------------------------------------------
(* Rotations keep a tree sound and its keys. *)

Kin(n, t) == Sound(n) /\ n # Void /\ Keys(n) = Keys(t)

LEMMA KeysNat == ASSUME NEW t, Sound(t) PROVE Keys(t) \subseteq TreeKeys
          /\ Keys(t) \subseteq Nat
BY KeysAre, MostIs DEF Sound

LEMMA DeeperIs ==
  ASSUME NEW a \in Nat, NEW b \in Nat
  PROVE  Deeper(a, b) \in Nat /\ Deeper(a, b) = Deeper(b, a) /\ Deeper(a, b) >= a
            /\ Deeper(a, b) >= b
BY DEF Deeper

LEMMA WithIs ==
  ASSUME NEW t, Sound(t), t # Void, NEW x
  PROVE  WithLeft(t, x) = Node(t.key, x, t.r) /\ WithRight(t, x) = Node(t.key, t.l, x)
<1>1. PICK k, l, r : k = t.key /\ l = t.l /\ r = t.r
  OBVIOUS
<1>2. t = [key |-> k, ld |-> Depth(l), rd |-> Depth(r), l |-> l, r |-> r]
  BY <1>1, SoundParts DEF Node
<1>3. WithLeft(t, x) = Node(k, x, r) /\ WithRight(t, x) = Node(k, l, x)
  <2>1. PICK a, b, c : a = Depth(l) /\ b = Depth(r) /\ c = Depth(x)
    OBVIOUS
  <2>2. t = [key |-> k, ld |-> a, rd |-> b, l |-> l, r |-> r]
    BY <1>2, <2>1
  <2>3. t \in [key : {k}, ld : {a}, rd : {b}, l : {l}, r : {r}]
    BY <2>2
  <2>4. PICK p, q : p = [t EXCEPT !.l = x, !.ld = c] /\ q = [t EXCEPT !.r = x, !.rd = c]
    OBVIOUS
  <2>5. p \in [key : {k}, ld : {c}, rd : {b}, l : {x}, r : {r}]
    BY <2>3, <2>4
  <2>6. q \in [key : {k}, ld : {a}, rd : {c}, l : {l}, r : {x}]
    BY <2>3, <2>4
  <2>7. p = [key |-> k, ld |-> c, rd |-> b, l |-> x, r |-> r]
    BY <2>5
  <2>8. q = [key |-> k, ld |-> a, rd |-> c, l |-> l, r |-> x]
    BY <2>6
  <2> QED BY <2>1, <2>4, <2>7, <2>8 DEF WithLeft, WithRight, Node
<1> QED BY <1>1, <1>3

\* The same, where the code copies a depth instead of asking for it.
LEMMA HungIs ==
  ASSUME NEW t, Sound(t), t # Void, NEW x, NEW d, d = Depth(x)
  PROVE  /\ [t EXCEPT !.l = x, !.ld = d] = Node(t.key, x, t.r)
         /\ [t EXCEPT !.r = x, !.rd = d] = Node(t.key, t.l, x)
BY WithIs DEF WithLeft, WithRight

\* Three trees and the two keys between them, in the two shapes.
Between(a, x, b, y, c) ==
  /\ Sound(a) /\ Sound(b) /\ Sound(c) /\ x \in TreeKeys /\ y \in TreeKeys
  /\ Splits(a, x, b) /\ Splits(b, y, c) /\ x < y

OneOverRight(a, x, b, y, c) == Made(Node(y, b, c), y, b, c)
          /\ Made(Node(x, a, Node(y, b, c)), x, a, Node(y, b, c))
OneOverLeft(a, x, b, y, c) == Made(Node(x, a, b), x, a, b)
          /\ Made(Node(y, Node(x, a, b), c), y, Node(x, a, b), c)

LEMMA OverOne ==
  ASSUME NEW a, NEW x, NEW b, NEW y, NEW c, Between(a, x, b, y, c)
  PROVE  OneOverRight(a, x, b, y, c) /\ OneOverLeft(a, x, b, y, c)
<1>1. Sound(a) /\ Sound(b) /\ Sound(c) /\ x \in TreeKeys /\ y \in TreeKeys /\ x \in Nat
          /\ y \in Nat
      /\ Splits(a, x, b) /\ Splits(b, y, c) /\ x < y
  BY MostIs DEF Between
<1>2. Keys(a) \subseteq Nat /\ Keys(b) \subseteq Nat /\ Keys(c) \subseteq Nat
  BY <1>1, KeysNat
<1>3. PICK i, j : i = Node(y, b, c) /\ j = Node(x, a, b)
  OBVIOUS
<1>4. Made(i, y, b, c) /\ Made(j, x, a, b)
  BY <1>1, <1>3, MakeNode
<1>5. Sound(i) /\ Sound(j) /\ Keys(i) = Keys(b) \cup {y} \cup Keys(c)
          /\ Keys(j) = Keys(a) \cup {x} \cup Keys(b)
  BY <1>4 DEF Made
<1>6. Splits(a, x, i) /\ Splits(j, y, c)
  BY <1>1, <1>2, <1>5 DEF Splits
<1>7. Made(Node(x, a, i), x, a, i) /\ Made(Node(y, j, c), y, j, c)
  BY <1>1, <1>5, <1>6, MakeNode
<1> QED BY <1>3, <1>4, <1>7 DEF OneOverRight, OneOverLeft

LEMMA LeftParts ==
  ASSUME NEW t, Sound(t), t # Void, t.l # Void
  PROVE  /\ Between(t.l.l, t.l.key, t.l.r, t.key, t.r)
         /\ Keys(t) = Keys(t.l.l) \cup {t.l.key} \cup Keys(t.l.r) \cup {t.key} \cup Keys(t.r)
<1>1. Sound(t.l) /\ Sound(t.r) /\ Splits(t.l, t.key, t.r) /\ t.key \in TreeKeys
      /\ Keys(t) = Keys(t.l) \cup {t.key} \cup Keys(t.r)
  BY SoundParts
<1>2. PICK p : p = t.l
  OBVIOUS
<1>3. Sound(p.l) /\ Sound(p.r) /\ Splits(p.l, p.key, p.r) /\ p.key \in TreeKeys
      /\ Keys(p) = Keys(p.l) \cup {p.key} \cup Keys(p.r)
  BY <1>1, <1>2, SoundParts
<1>4. Splits(p.r, t.key, t.r) /\ p.key < t.key
  BY <1>1, <1>2, <1>3 DEF Splits
<1> QED BY <1>1, <1>2, <1>3, <1>4 DEF Between

LEMMA RightParts ==
  ASSUME NEW t, Sound(t), t # Void, t.r # Void
  PROVE  /\ Between(t.l, t.key, t.r.l, t.r.key, t.r.r)
         /\ Keys(t) = Keys(t.l) \cup {t.key} \cup Keys(t.r.l) \cup {t.r.key} \cup Keys(t.r.r)
<1>1. Sound(t.l) /\ Sound(t.r) /\ Splits(t.l, t.key, t.r) /\ t.key \in TreeKeys
      /\ Keys(t) = Keys(t.l) \cup {t.key} \cup Keys(t.r)
  BY SoundParts
<1>2. PICK p : p = t.r
  OBVIOUS
<1>3. Sound(p.l) /\ Sound(p.r) /\ Splits(p.l, p.key, p.r) /\ p.key \in TreeKeys
      /\ Keys(p) = Keys(p.l) \cup {p.key} \cup Keys(p.r)
  BY <1>1, <1>2, SoundParts
<1>4. Splits(t.l, t.key, p.l) /\ t.key < p.key
  BY <1>1, <1>2, <1>3 DEF Splits
<1> QED BY <1>1, <1>2, <1>3, <1>4 DEF Between

\* A rotation.
LEMMA R_rotIs ==
  ASSUME NEW t, Sound(t), t # Void, t.l # Void
  PROVE  R_rot(t) = Node(t.l.key, t.l.l, Node(t.key, t.l.r, t.r)) /\ Kin(R_rot(t), t)
<1>1. PICK p : p = t.l
  OBVIOUS
<1>2. Sound(p) /\ p # Void /\ p.rd = Depth(p.r)
  BY <1>1, SoundParts
<1>3. PICK s : s = [t EXCEPT !.l = p.r, !.ld = p.rd]
  OBVIOUS
<1>4. s = Node(t.key, p.r, t.r)
  BY <1>2, <1>3, HungIs
<1>5. OneOverRight(p.l, p.key, p.r, t.key, t.r)
  BY <1>1, LeftParts, OverOne
<1>6. Made(s, t.key, p.r, t.r) /\ Made(Node(p.key, p.l, s), p.key, p.l, s)
  BY <1>4, <1>5 DEF OneOverRight
<1>7. s.ld \in Nat /\ s.rd \in Nat /\ Depth(s) = Deeper(s.ld, s.rd) + 1 /\ Sound(s)
  BY <1>6, SoundParts DEF Made
<1>8. Deeper(s.rd, s.ld) + 1 = Depth(s)
  BY <1>7, DeeperIs
<1>9. PICK d : d = Deeper(s.rd, s.ld) + 1
  OBVIOUS
<1>10. [p EXCEPT !.r = s, !.rd = d] = Node(p.key, p.l, s)
  BY <1>2, <1>8, <1>9, HungIs
<1>11. R_rot(t) = Node(p.key, p.l, s)
  BY <1>1, <1>3, <1>9, <1>10 DEF R_rot
<1>12. Keys(t) = Keys(p.l) \cup {p.key} \cup Keys(p.r) \cup {t.key} \cup Keys(t.r)
  BY <1>1, LeftParts
<1>13. Keys(Node(p.key, p.l, s)) = Keys(t)
  BY <1>6, <1>12 DEF Made
<1> QED BY <1>1, <1>4, <1>6, <1>11, <1>13 DEF Kin, Made

LEMMA L_rotIs ==
  ASSUME NEW t, Sound(t), t # Void, t.r # Void
  PROVE  L_rot(t) = Node(t.r.key, Node(t.key, t.l, t.r.l), t.r.r) /\ Kin(L_rot(t), t)
<1>1. PICK p : p = t.r
  OBVIOUS
<1>2. Sound(p) /\ p # Void /\ p.ld = Depth(p.l)
  BY <1>1, SoundParts
<1>3. PICK s : s = [t EXCEPT !.r = p.l, !.rd = p.ld]
  OBVIOUS
<1>4. s = Node(t.key, t.l, p.l)
  BY <1>2, <1>3, HungIs
<1>5. OneOverLeft(t.l, t.key, p.l, p.key, p.r)
  BY <1>1, RightParts, OverOne
<1>6. Made(s, t.key, t.l, p.l) /\ Made(Node(p.key, s, p.r), p.key, s, p.r)
  BY <1>4, <1>5 DEF OneOverLeft
<1>7. s.ld \in Nat /\ s.rd \in Nat /\ Depth(s) = Deeper(s.ld, s.rd) + 1 /\ Sound(s)
  BY <1>6, SoundParts DEF Made
<1>8. Deeper(s.rd, s.ld) + 1 = Depth(s)
  BY <1>7, DeeperIs
<1>9. PICK d : d = Deeper(s.rd, s.ld) + 1
  OBVIOUS
<1>10. [p EXCEPT !.l = s, !.ld = d] = Node(p.key, s, p.r)
  BY <1>2, <1>8, <1>9, HungIs
<1>11. L_rot(t) = Node(p.key, s, p.r)
  BY <1>1, <1>3, <1>9, <1>10 DEF L_rot
<1>12. Keys(t) = Keys(t.l) \cup {t.key} \cup Keys(p.l) \cup {p.key} \cup Keys(p.r)
  BY <1>1, RightParts
<1>13. Keys(Node(p.key, s, p.r)) = Keys(t)
  BY <1>6, <1>12 DEF Made
<1> QED BY <1>1, <1>4, <1>6, <1>11, <1>13 DEF Kin, Made

\* What comes up in the place of t has the keys of the side it came from; t goes down.
LEMMA GoLeftIs ==
  ASSUME NEW t, Sound(t), t # Void, NEW p, Kin(p, t.r)
  PROVE  Kin(GoLeft(t, p), t)
<1>1. /\ Sound(t.l) /\ Sound(t.r) /\ Splits(t.l, t.key, t.r) /\ t.key \in TreeKeys
      /\ Keys(t) = Keys(t.l) \cup {t.key} \cup Keys(t.r)
  BY SoundParts
<1>2. /\ Sound(p) /\ p # Void /\ Sound(p.l) /\ Sound(p.r) /\ Splits(p.l, p.key, p.r)
          /\ p.key \in TreeKeys
      /\ Keys(t.r) = Keys(p.l) \cup {p.key} \cup Keys(p.r) /\ p.ld = Depth(p.l)
  BY SoundParts DEF Kin
<1>3. Splits(t.l, t.key, p.l) /\ t.key < p.key
  BY <1>1, <1>2 DEF Splits
<1>4. PICK s : s = [t EXCEPT !.r = p.l, !.rd = p.ld]
  OBVIOUS
<1>5. s = Node(t.key, t.l, p.l)
  BY <1>2, <1>4, HungIs
<1>6. Made(s, t.key, t.l, p.l)
  BY <1>1, <1>2, <1>3, <1>5, MakeNode
<1>7. Sound(s) /\ s # Void /\ s.ld = Depth(s.l) /\ s.ld \in Nat /\ s.rd \in Nat /\ Sound(s.l)
      /\ Keys(s) = Keys(t.l) \cup {t.key} \cup Keys(p.l)
  BY <1>6, SoundParts DEF Made
<1>8. PICK u : u = IF s.ld - s.rd > 1 THEN R_rot(s) ELSE s
  OBVIOUS
<1>9. Kin(u, s)
  <2>1. CASE s.ld - s.rd > 1
    <3>1. s.l # Void
      BY <1>7, <2>1, DepthIs
    <3> QED BY <1>7, <1>8, <2>1, <3>1, R_rotIs
  <2>2. CASE ~(s.ld - s.rd > 1)
    BY <1>7, <1>8, <2>2 DEF Kin
  <2> QED BY <2>1, <2>2
<1>10. Sound(u) /\ u # Void /\ Keys(u) = Keys(t.l) \cup {t.key} \cup Keys(p.l)
  BY <1>7, <1>9 DEF Kin
<1>11. Depth(u) = Deeper(u.rd, u.ld) + 1
  BY <1>10, SoundParts, DeeperIs
<1>12. PICK d : d = Deeper(u.rd, u.ld) + 1
  OBVIOUS
<1>13. [p EXCEPT !.l = u, !.ld = d] = Node(p.key, u, p.r)
  BY <1>2, <1>11, <1>12, HungIs
<1>14. GoLeft(t, p) = Node(p.key, u, p.r)
  BY <1>4, <1>8, <1>12, <1>13 DEF GoLeft
<1>15. Splits(u, p.key, p.r)
  <2>1. Keys(t.l) \subseteq Nat /\ t.key \in Nat /\ p.key \in Nat
    BY <1>1, <1>2, KeysNat, MostIs
  <2>2. \A a \in Keys(t.l) : a < p.key
    BY <1>1, <1>3, <2>1 DEF Splits
  <2> QED BY <1>2, <1>3, <1>10, <2>2 DEF Splits
<1>16. Made(Node(p.key, u, p.r), p.key, u, p.r)
  BY <1>2, <1>10, <1>15, MakeNode
<1>17. Keys(Node(p.key, u, p.r)) = Keys(t)
  BY <1>1, <1>2, <1>10, <1>16 DEF Made
<1> QED BY <1>14, <1>16, <1>17 DEF Kin, Made

LEMMA GoRightIs ==
  ASSUME NEW t, Sound(t), t # Void, NEW p, Kin(p, t.l)
  PROVE  Kin(GoRight(t, p), t)
<1>1. /\ Sound(t.l) /\ Sound(t.r) /\ Splits(t.l, t.key, t.r) /\ t.key \in TreeKeys
      /\ Keys(t) = Keys(t.l) \cup {t.key} \cup Keys(t.r)
  BY SoundParts
<1>2. /\ Sound(p) /\ p # Void /\ Sound(p.l) /\ Sound(p.r) /\ Splits(p.l, p.key, p.r)
          /\ p.key \in TreeKeys
      /\ Keys(t.l) = Keys(p.l) \cup {p.key} \cup Keys(p.r) /\ p.rd = Depth(p.r)
  BY SoundParts DEF Kin
<1>3. Splits(p.r, t.key, t.r) /\ p.key < t.key
  BY <1>1, <1>2 DEF Splits
<1>4. PICK s : s = [t EXCEPT !.l = p.r, !.ld = p.rd]
  OBVIOUS
<1>5. s = Node(t.key, p.r, t.r)
  BY <1>2, <1>4, HungIs
<1>6. Made(s, t.key, p.r, t.r)
  BY <1>1, <1>2, <1>3, <1>5, MakeNode
<1>7. Sound(s) /\ s # Void /\ s.rd = Depth(s.r) /\ s.ld \in Nat /\ s.rd \in Nat /\ Sound(s.r)
      /\ Keys(s) = Keys(p.r) \cup {t.key} \cup Keys(t.r)
  BY <1>6, SoundParts DEF Made
<1>8. PICK u : u = IF s.rd - s.ld > 1 THEN L_rot(s) ELSE s
  OBVIOUS
<1>9. Kin(u, s)
  <2>1. CASE s.rd - s.ld > 1
    <3>1. s.r # Void
      BY <1>7, <2>1, DepthIs
    <3> QED BY <1>7, <1>8, <2>1, <3>1, L_rotIs
  <2>2. CASE ~(s.rd - s.ld > 1)
    BY <1>7, <1>8, <2>2 DEF Kin
  <2> QED BY <2>1, <2>2
<1>10. Sound(u) /\ u # Void /\ Keys(u) = Keys(p.r) \cup {t.key} \cup Keys(t.r)
  BY <1>7, <1>9 DEF Kin
<1>11. Depth(u) = Deeper(u.rd, u.ld) + 1
  BY <1>10, SoundParts, DeeperIs
<1>12. PICK d : d = Deeper(u.rd, u.ld) + 1
  OBVIOUS
<1>13. [p EXCEPT !.r = u, !.rd = d] = Node(p.key, p.l, u)
  BY <1>2, <1>11, <1>12, HungIs
<1>14. GoRight(t, p) = Node(p.key, p.l, u)
  BY <1>4, <1>8, <1>12, <1>13 DEF GoRight
<1>15. Splits(p.l, p.key, u)
  <2>1. Keys(t.r) \subseteq Nat /\ t.key \in Nat /\ p.key \in Nat
    BY <1>1, <1>2, KeysNat, MostIs
  <2>2. \A b \in Keys(t.r) : p.key < b
    BY <1>1, <1>3, <2>1 DEF Splits
  <2> QED BY <1>2, <1>3, <1>10, <2>2 DEF Splits
<1>16. Made(Node(p.key, p.l, u), p.key, p.l, u)
  BY <1>2, <1>10, <1>15, MakeNode
<1>17. Keys(Node(p.key, p.l, u)) = Keys(t)
  BY <1>1, <1>2, <1>10, <1>16 DEF Made
<1> QED BY <1>14, <1>16, <1>17 DEF Kin, Made

LEMMA R_blcIs ==
  ASSUME NEW t, Sound(t), t # Void, t.r # Void
  PROVE  Kin(R_blc(t), t)
<1>1. PICK f, p : f = t.r /\ p = IF f.l = Void THEN f ELSE GoRight(f, f.l)
  OBVIOUS
<1>2. Sound(f) /\ f # Void
  BY <1>1, SoundParts
<1>3. Kin(p, f)
  <2>1. CASE f.l = Void
    BY <1>1, <1>2, <2>1 DEF Kin
  <2>2. CASE f.l # Void
    <3>1. Kin(f.l, f.l)
      BY <1>2, <2>2, SoundParts DEF Kin
    <3> QED BY <1>1, <1>2, <2>2, <3>1, GoRightIs
  <2> QED BY <2>1, <2>2
<1>4. R_blc(t) = GoLeft(t, p)
  BY <1>1 DEF R_blc
<1> QED BY <1>1, <1>3, <1>4, GoLeftIs

LEMMA L_blcIs ==
  ASSUME NEW t, Sound(t), t # Void, t.l # Void
  PROVE  Kin(L_blc(t), t)
<1>1. PICK f, p : f = t.l /\ p = IF f.r = Void THEN f ELSE GoLeft(f, f.r)
  OBVIOUS
<1>2. Sound(f) /\ f # Void
  BY <1>1, SoundParts
<1>3. Kin(p, f)
  <2>1. CASE f.r = Void
    BY <1>1, <1>2, <2>1 DEF Kin
  <2>2. CASE f.r # Void
    <3>1. Kin(f.r, f.r)
      BY <1>2, <2>2, SoundParts DEF Kin
    <3> QED BY <1>1, <1>2, <2>2, <3>1, GoLeftIs
  <2> QED BY <2>1, <2>2
<1>4. L_blc(t) = GoRight(t, p)
  BY <1>1 DEF L_blc
<1> QED BY <1>1, <1>3, <1>4, GoRightIs

-----------------------------------------------------------------------------
(* BB_Tree_Add: the key is added, and what was flat stays so. *)

LEMMA FlatParts ==
  ASSUME NEW t, Sound(t), t # Void
  PROVE  Flat(t) <=> Flat(t.l) /\ Flat(t.r) /\ t.ld - t.rd \in -1 .. 1
<1>1. Subtrees(t) = {t} \cup Subtrees(t.l) \cup Subtrees(t.r)
  BY SubtreesRec DEF Sound
<1> QED BY <1>1 DEF Flat

\* Four trees and three keys.
OneOverTwo(a, x, b, y, c, z, d) ==
  LET j == Node(x, a, b)
      i == Node(z, c, d)
  IN  /\ Made(j, x, a, b) /\ Made(i, z, c, d)
      /\ Made(Node(y, j, c), y, j, c) /\ Made(Node(y, b, i), y, b, i)
                /\ Made(Node(y, j, i), y, j, i)

LEMMA OverTwo ==
  ASSUME NEW a, NEW x, NEW b, NEW y, NEW c, NEW z, NEW d,
         Between(a, x, b, y, c), Between(b, y, c, z, d)
  PROVE  OneOverTwo(a, x, b, y, c, z, d)
<1>1. PICK i, j : i = Node(z, c, d) /\ j = Node(x, a, b)
  OBVIOUS
<1>2. Made(j, x, a, b) /\ Made(Node(y, j, c), y, j, c) /\ Made(i, z, c, d)
          /\ Made(Node(y, b, i), y, b, i)
  BY <1>1, OverOne DEF OneOverLeft, OneOverRight
<1>3. /\ Sound(a) /\ Sound(b) /\ Sound(c) /\ Sound(d) /\ x \in Nat /\ y \in Nat /\ z \in Nat
          /\ y \in TreeKeys
      /\ Splits(a, x, b) /\ Splits(b, y, c) /\ Splits(c, z, d) /\ x < y /\ y < z
  BY MostIs DEF Between
<1>4. Sound(i) /\ Sound(j) /\ Keys(i) = Keys(c) \cup {z} \cup Keys(d)
          /\ Keys(j) = Keys(a) \cup {x} \cup Keys(b)
  BY <1>2 DEF Made
<1>5. Keys(a) \subseteq Nat /\ Keys(d) \subseteq Nat
  BY <1>3, KeysNat
<1>6. Splits(j, y, i)
  <2>1. (\A k \in Keys(a) : k < y) /\ (\A k \in Keys(d) : y < k)
    BY <1>3, <1>5 DEF Splits
  <2> QED BY <1>3, <1>4, <2>1 DEF Splits
<1>7. Made(Node(y, j, i), y, j, i)
  BY <1>3, <1>4, <1>6, MakeNode
<1> QED BY <1>1, <1>2, <1>7 DEF OneOverTwo

\* One side is two levels deeper than the other and both are flat.
Raised(n, t, low) == Kin(n, t) /\ (Flat(t.l) /\ Flat(t.r) => Flat(n)
          /\ Depth(n) \in low + 2 .. low + 3)

LEMMA RaiseLeftIs ==
  ASSUME NEW t, Sound(t), t # Void, t.l # Void
  PROVE  Kin(RaiseLeft(t), t) /\ (t.ld = t.rd + 2 => Raised(RaiseLeft(t), t, t.rd))
<1>1. PICK p : p = t.l
  OBVIOUS
<1>2. /\ Sound(t.r) /\ Sound(p) /\ p # Void /\ Sound(p.l) /\ Sound(p.r) /\ t.ld = Depth(p)
          /\ t.rd = Depth(t.r)
      /\ p.ld = Depth(p.l) /\ p.rd = Depth(p.r) /\ p.ld \in Nat /\ p.rd \in Nat /\ t.rd \in Nat
      /\ Depth(p) = Deeper(p.ld, p.rd) + 1
  BY <1>1, SoundParts
<1>3. Flat(p) => Flat(p.l) /\ Flat(p.r) /\ p.ld - p.rd \in -1 .. 1
  BY <1>2, FlatParts
<1>4. CASE p.ld >= p.rd
  <2>1. PICK i, n : i = Node(t.key, p.r, t.r) /\ n = Node(p.key, p.l, i)
    OBVIOUS
  <2>2. RaiseLeft(t) = n
    BY <1>1, <1>2, <1>4, <2>1, WithIs DEF RaiseLeft
  <2>3. Kin(n, t)
    BY <1>1, <2>1, R_rotIs
  <2>4. Made(i, t.key, p.r, t.r) /\ Made(n, p.key, p.l, i)
    BY <1>1, <2>1, LeftParts, OverOne DEF OneOverRight
  <2>5. /\ Flat(i) <=> Flat(p.r) /\ Flat(t.r) /\ Depth(p.r) - Depth(t.r) \in -1 .. 1
        /\ Flat(n) <=> Flat(p.l) /\ Flat(i) /\ Depth(p.l) - Depth(i) \in -1 .. 1
        /\ Depth(i) = Deeper(Depth(p.r), Depth(t.r)) + 1
                  /\ Depth(n) = Deeper(Depth(p.l), Depth(i)) + 1
    BY <2>4 DEF Made
  <2>6. ASSUME t.ld = t.rd + 2, Flat(p), Flat(t.r) PROVE Flat(n)
            /\ Depth(n) \in t.rd + 2 .. t.rd + 3
    <3>1. p.ld = t.rd + 1 /\ p.rd \in t.rd .. t.rd + 1
      BY <1>2, <1>3, <1>4, <2>6 DEF Deeper
    <3>2. Depth(i) = p.rd + 1
      BY <1>2, <2>5, <3>1 DEF Deeper
    <3>3. Depth(p.r) - Depth(t.r) \in -1 .. 1 /\ Depth(p.l) - Depth(i) \in -1 .. 1
      BY <1>2, <3>1, <3>2
    <3>4. Depth(n) \in t.rd + 2 .. t.rd + 3
      BY <1>2, <2>5, <3>1, <3>2 DEF Deeper
    <3> QED BY <1>3, <2>5, <2>6, <3>3, <3>4
  <2> QED BY <1>1, <2>2, <2>3, <2>6 DEF Raised
<1>5. CASE ~(p.ld >= p.rd)
  <2>1. PICK q : q = p.r
    OBVIOUS
  <2>2. q # Void
    BY <1>2, <1>5, <2>1, DepthIs
  <2>3. /\ Sound(q) /\ Sound(q.l) /\ Sound(q.r) /\ q.ld = Depth(q.l) /\ q.rd = Depth(q.r)
            /\ q.ld \in Nat /\ q.rd \in Nat
        /\ Depth(q) = Deeper(q.ld, q.rd) + 1 /\ Keys(q) = Keys(q.l) \cup {q.key} \cup Keys(q.r)
    BY <1>2, <2>1, <2>2, SoundParts
  <2>4. Between(p.l, p.key, q.l, q.key, q.r)
    BY <1>2, <2>1, <2>2, RightParts
  <2>5. Between(q.l, q.key, q.r, t.key, t.r)
    <3>1. Between(p.l, p.key, q, t.key, t.r)
      BY <1>1, <2>1, LeftParts
    <3> QED BY <2>3, <2>4, <3>1 DEF Between, Splits
  <2>6. PICK j, i, n : j = Node(p.key, p.l, q.l) /\ i = Node(t.key, q.r, t.r)
            /\ n = Node(q.key, j, i)
    OBVIOUS
  <2>7. /\ Made(j, p.key, p.l, q.l) /\ Made(i, t.key, q.r, t.r) /\ Made(n, q.key, j, i)
        /\ Made(Node(q.key, j, q.r), q.key, j, q.r)
    BY <2>4, <2>5, <2>6, OverTwo DEF OneOverTwo
  <2>8. RaiseLeft(t) = n
    <3>1. PICK m : m = Node(q.key, j, q.r)
      OBVIOUS
    <3>2. WithRight(p, q.l) = j /\ WithLeft(t, q.r) = i /\ WithLeft(q, j) = m
      BY <1>2, <2>2, <2>3, <2>6, <3>1, WithIs
    <3>3. Sound(m) /\ m # Void /\ m.key = q.key /\ m.l = j
      BY <2>7, <3>1 DEF Made
    <3>4. WithRight(m, i) = n
      BY <2>6, <3>3, WithIs
    <3> QED BY <1>1, <1>5, <2>1, <3>2, <3>4 DEF RaiseLeft
  <2>9. Keys(n) = Keys(t)
    <3>1. Keys(t) = Keys(p.l) \cup {p.key} \cup Keys(q) \cup {t.key} \cup Keys(t.r)
      BY <1>1, <2>1, LeftParts
    <3>2. Keys(n) = (Keys(p.l) \cup {p.key} \cup Keys(q.l)) \cup {q.key} \cup (Keys(q.r) \cup {t.key} \cup Keys(t.r))
      BY <2>7 DEF Made
    <3> QED BY <2>3, <3>1, <3>2
  <2>10. Kin(n, t)
    BY <2>7, <2>9 DEF Made, Kin
  <2>11. /\ Flat(j) <=> Flat(p.l) /\ Flat(q.l) /\ Depth(p.l) - Depth(q.l) \in -1 .. 1
         /\ Flat(i) <=> Flat(q.r) /\ Flat(t.r) /\ Depth(q.r) - Depth(t.r) \in -1 .. 1
         /\ Flat(n) <=> Flat(j) /\ Flat(i) /\ Depth(j) - Depth(i) \in -1 .. 1
         /\ Depth(j) = Deeper(Depth(p.l), Depth(q.l)) + 1
                   /\ Depth(i) = Deeper(Depth(q.r), Depth(t.r)) + 1
         /\ Depth(n) = Deeper(Depth(j), Depth(i)) + 1
    BY <2>7 DEF Made
  <2>12. ASSUME t.ld = t.rd + 2, Flat(p), Flat(t.r) PROVE Flat(n)
            /\ Depth(n) \in t.rd + 2 .. t.rd + 3
    <3>1. Flat(q) => Flat(q.l) /\ Flat(q.r) /\ q.ld - q.rd \in -1 .. 1
      BY <2>2, <2>3, FlatParts
    <3>2. Flat(q.l) /\ Flat(q.r) /\ q.ld - q.rd \in -1 .. 1
      BY <1>3, <2>1, <2>12, <3>1
    <3>3. p.rd = t.rd + 1 /\ p.ld = t.rd
      BY <1>2, <1>3, <1>5, <2>12 DEF Deeper
    <3>4. Depth(q) = t.rd + 1
      BY <1>2, <2>1, <3>3
    <3>5. q.ld \in t.rd - 1 .. t.rd /\ q.rd \in t.rd - 1 .. t.rd
      BY <1>2, <2>3, <3>2, <3>4 DEF Deeper
    <3>6. Depth(j) = t.rd + 1 /\ Depth(i) = t.rd + 1
      BY <1>2, <2>3, <2>11, <3>3, <3>5 DEF Deeper
    <3>7. Depth(p.l) - Depth(q.l) \in -1 .. 1 /\ Depth(q.r) - Depth(t.r) \in -1 .. 1
          /\ Depth(j) - Depth(i) \in -1 .. 1
      BY <1>2, <2>3, <3>3, <3>5, <3>6
    <3>8. Depth(n) \in t.rd + 2 .. t.rd + 3
      BY <1>2, <2>11, <3>6 DEF Deeper
    <3> QED BY <1>3, <2>11, <2>12, <3>2, <3>7, <3>8
  <2> QED BY <1>1, <2>8, <2>10, <2>12 DEF Raised
<1> QED BY <1>4, <1>5

LEMMA RaiseRightIs ==
  ASSUME NEW t, Sound(t), t # Void, t.r # Void
  PROVE  Kin(RaiseRight(t), t) /\ (t.rd = t.ld + 2 => Raised(RaiseRight(t), t, t.ld))
<1>1. PICK p : p = t.r
  OBVIOUS
<1>2. /\ Sound(t.l) /\ Sound(p) /\ p # Void /\ Sound(p.l) /\ Sound(p.r) /\ t.rd = Depth(p)
          /\ t.ld = Depth(t.l)
      /\ p.ld = Depth(p.l) /\ p.rd = Depth(p.r) /\ p.ld \in Nat /\ p.rd \in Nat /\ t.ld \in Nat
      /\ Depth(p) = Deeper(p.ld, p.rd) + 1
  BY <1>1, SoundParts
<1>3. Flat(p) => Flat(p.l) /\ Flat(p.r) /\ p.ld - p.rd \in -1 .. 1
  BY <1>2, FlatParts
<1>4. CASE p.rd >= p.ld
  <2>1. PICK i, n : i = Node(t.key, t.l, p.l) /\ n = Node(p.key, i, p.r)
    OBVIOUS
  <2>2. RaiseRight(t) = n
    BY <1>1, <1>2, <1>4, <2>1, WithIs DEF RaiseRight
  <2>3. Kin(n, t)
    BY <1>1, <2>1, L_rotIs
  <2>4. Made(i, t.key, t.l, p.l) /\ Made(n, p.key, i, p.r)
    BY <1>1, <2>1, RightParts, OverOne DEF OneOverLeft
  <2>5. /\ Flat(i) <=> Flat(t.l) /\ Flat(p.l) /\ Depth(t.l) - Depth(p.l) \in -1 .. 1
        /\ Flat(n) <=> Flat(i) /\ Flat(p.r) /\ Depth(i) - Depth(p.r) \in -1 .. 1
        /\ Depth(i) = Deeper(Depth(t.l), Depth(p.l)) + 1
                  /\ Depth(n) = Deeper(Depth(i), Depth(p.r)) + 1
    BY <2>4 DEF Made
  <2>6. ASSUME t.rd = t.ld + 2, Flat(p), Flat(t.l) PROVE Flat(n)
            /\ Depth(n) \in t.ld + 2 .. t.ld + 3
    <3>1. p.rd = t.ld + 1 /\ p.ld \in t.ld .. t.ld + 1
      BY <1>2, <1>3, <1>4, <2>6 DEF Deeper
    <3>2. Depth(i) = p.ld + 1
      BY <1>2, <2>5, <3>1 DEF Deeper
    <3>3. Depth(t.l) - Depth(p.l) \in -1 .. 1 /\ Depth(i) - Depth(p.r) \in -1 .. 1
      BY <1>2, <3>1, <3>2
    <3>4. Depth(n) \in t.ld + 2 .. t.ld + 3
      BY <1>2, <2>5, <3>1, <3>2 DEF Deeper
    <3> QED BY <1>3, <2>5, <2>6, <3>3, <3>4
  <2> QED BY <1>1, <2>2, <2>3, <2>6 DEF Raised
<1>5. CASE ~(p.rd >= p.ld)
  <2>1. PICK q : q = p.l
    OBVIOUS
  <2>2. q # Void
    BY <1>2, <1>5, <2>1, DepthIs
  <2>3. /\ Sound(q) /\ Sound(q.l) /\ Sound(q.r) /\ q.ld = Depth(q.l) /\ q.rd = Depth(q.r)
            /\ q.ld \in Nat /\ q.rd \in Nat
        /\ Depth(q) = Deeper(q.ld, q.rd) + 1 /\ Keys(q) = Keys(q.l) \cup {q.key} \cup Keys(q.r)
    BY <1>2, <2>1, <2>2, SoundParts
  <2>4. Between(q.l, q.key, q.r, p.key, p.r)
    BY <1>2, <2>1, <2>2, LeftParts
  <2>5. Between(t.l, t.key, q.l, q.key, q.r)
    <3>1. Between(t.l, t.key, q, p.key, p.r)
      BY <1>1, <2>1, RightParts
    <3> QED BY <2>3, <2>4, <3>1 DEF Between, Splits
  <2>6. PICK j, i, n : j = Node(p.key, q.r, p.r) /\ i = Node(t.key, t.l, q.l)
            /\ n = Node(q.key, i, j)
    OBVIOUS
  <2>7. /\ Made(j, p.key, q.r, p.r) /\ Made(i, t.key, t.l, q.l) /\ Made(n, q.key, i, j)
        /\ Made(Node(q.key, q.l, j), q.key, q.l, j)
    BY <2>4, <2>5, <2>6, OverTwo DEF OneOverTwo
  <2>8. RaiseRight(t) = n
    <3>1. PICK m : m = Node(q.key, q.l, j)
      OBVIOUS
    <3>2. WithLeft(p, q.r) = j /\ WithRight(t, q.l) = i /\ WithRight(q, j) = m
      BY <1>2, <2>2, <2>3, <2>6, <3>1, WithIs
    <3>3. Sound(m) /\ m # Void /\ m.key = q.key /\ m.r = j
      BY <2>7, <3>1 DEF Made
    <3>4. WithLeft(m, i) = n
      BY <2>6, <3>3, WithIs
    <3> QED BY <1>1, <1>5, <2>1, <3>2, <3>4 DEF RaiseRight
  <2>9. Keys(n) = Keys(t)
    <3>1. Keys(t) = Keys(t.l) \cup {t.key} \cup Keys(q) \cup {p.key} \cup Keys(p.r)
      BY <1>1, <2>1, RightParts
    <3>2. Keys(n) = (Keys(t.l) \cup {t.key} \cup Keys(q.l)) \cup {q.key} \cup (Keys(q.r) \cup {p.key} \cup Keys(p.r))
      BY <2>7 DEF Made
    <3> QED BY <2>3, <3>1, <3>2
  <2>10. Kin(n, t)
    BY <2>7, <2>9 DEF Made, Kin
  <2>11. /\ Flat(j) <=> Flat(q.r) /\ Flat(p.r) /\ Depth(q.r) - Depth(p.r) \in -1 .. 1
         /\ Flat(i) <=> Flat(t.l) /\ Flat(q.l) /\ Depth(t.l) - Depth(q.l) \in -1 .. 1
         /\ Flat(n) <=> Flat(i) /\ Flat(j) /\ Depth(i) - Depth(j) \in -1 .. 1
         /\ Depth(j) = Deeper(Depth(q.r), Depth(p.r)) + 1
                   /\ Depth(i) = Deeper(Depth(t.l), Depth(q.l)) + 1
         /\ Depth(n) = Deeper(Depth(i), Depth(j)) + 1
    BY <2>7 DEF Made
  <2>12. ASSUME t.rd = t.ld + 2, Flat(p), Flat(t.l) PROVE Flat(n)
            /\ Depth(n) \in t.ld + 2 .. t.ld + 3
    <3>1. Flat(q) => Flat(q.l) /\ Flat(q.r) /\ q.ld - q.rd \in -1 .. 1
      BY <2>2, <2>3, FlatParts
    <3>2. Flat(q.l) /\ Flat(q.r) /\ q.ld - q.rd \in -1 .. 1
      BY <1>3, <2>1, <2>12, <3>1
    <3>3. p.ld = t.ld + 1 /\ p.rd = t.ld
      BY <1>2, <1>3, <1>5, <2>12 DEF Deeper
    <3>4. Depth(q) = t.ld + 1
      BY <1>2, <2>1, <3>3
    <3>5. q.ld \in t.ld - 1 .. t.ld /\ q.rd \in t.ld - 1 .. t.ld
      BY <1>2, <2>3, <3>2, <3>4 DEF Deeper
    <3>6. Depth(j) = t.ld + 1 /\ Depth(i) = t.ld + 1
      BY <1>2, <2>3, <2>11, <3>3, <3>5 DEF Deeper
    <3>7. Depth(q.r) - Depth(p.r) \in -1 .. 1 /\ Depth(t.l) - Depth(q.l) \in -1 .. 1
          /\ Depth(i) - Depth(j) \in -1 .. 1
      BY <1>2, <2>3, <3>3, <3>5, <3>6
    <3>8. Depth(n) \in t.ld + 2 .. t.ld + 3
      BY <1>2, <2>11, <3>6 DEF Deeper
    <3> QED BY <1>3, <2>11, <2>12, <3>2, <3>7, <3>8
  <2> QED BY <1>1, <2>8, <2>10, <2>12 DEF Raised
<1> QED BY <1>4, <1>5

Enlarged(n, t, k) ==
  /\ Sound(n) /\ n # Void /\ Keys(n) = Keys(t) \cup {k}
  /\ Flat(t) => Flat(n) /\ Depth(n) \in Depth(t) .. Depth(t) + 1

LEMMA InsertIs ==
  ASSUME NEW k \in TreeKeys
  PROVE  \A t \in Trees : Sound(t) => Enlarged(BB_Tree_Add(t, k), t, k)
<1> DEFINE S == {t \in Trees : Sound(t) => Enlarged(BB_Tree_Add(t, k), t, k)}
<1>0. k \in Nat
  BY MostIs
<1>1. Void \in S
  <2>1. BB_Tree_Add(Void, k) = Leaf(k)
    BY AddRec, TreesIs DEF AddOf
  <2>2. PICK n : n = Node(k, Void, Void)
    OBVIOUS
  <2>3. Leaf(k) = n
    BY <2>2, VoidIs DEF Leaf, Node
  <2>4. Made(n, k, Void, Void)
    BY <2>2, VoidIs, MakeNode DEF Splits
  <2>5. Enlarged(n, Void, k)
    BY <2>4, VoidIs DEF Made, Enlarged, Deeper
  <2> QED BY <2>1, <2>3, <2>5, TreesIs
<1>2. ASSUME NEW t \in Trees, t # Void, t.l \in S, t.r \in S PROVE t \in S
  <2>1. SUFFICES ASSUME Sound(t) PROVE Enlarged(BB_Tree_Add(t, k), t, k)
    OBVIOUS
  <2>2. /\ Sound(t.l) /\ Sound(t.r) /\ Splits(t.l, t.key, t.r) /\ t.key \in TreeKeys
            /\ t.key \in Nat
        /\ t.ld = Depth(t.l) /\ t.rd = Depth(t.r) /\ t.ld \in Nat /\ t.rd \in Nat
        /\ Depth(t) = Deeper(t.ld, t.rd) + 1 /\ Keys(t) = Keys(t.l) \cup {t.key} \cup Keys(t.r)
    BY <1>2, <2>1, SoundParts
  <2>3. PICK a, b : a = BB_Tree_Add(t.l, k) /\ b = BB_Tree_Add(t.r, k)
    OBVIOUS
  <2>4. BB_Tree_Add(t, k) = AddOf(t, k, a, b)
    BY <1>2, <2>3, AddRec
  <2>5. Enlarged(a, t.l, k) /\ Enlarged(b, t.r, k)
    BY <1>2, <2>2, <2>3
  <2>6. Flat(t) => Flat(t.l) /\ Flat(t.r) /\ t.ld - t.rd \in -1 .. 1
    BY <1>2, <2>1, FlatParts
  <2>7. CASE t.key > k
    <3>1. PICK s : s = WithLeft(t, a)
      OBVIOUS
    <3>2. s = Node(t.key, a, t.r)
      BY <1>2, <2>1, <3>1, WithIs
    <3>3. Sound(a) /\ a # Void /\ Keys(a) = Keys(t.l) \cup {k}
      BY <2>5 DEF Enlarged
    <3>4. Splits(a, t.key, t.r)
      BY <2>2, <2>7, <3>3 DEF Splits
    <3>5. Made(s, t.key, a, t.r)
      BY <2>2, <3>2, <3>3, <3>4, MakeNode
    <3>6. /\ Sound(s) /\ s # Void /\ s.l = a /\ s.r = t.r /\ s.ld = Depth(a) /\ s.rd = t.rd
          /\ Keys(s) = Keys(t) \cup {k} /\ Depth(s) = Deeper(Depth(a), t.rd) + 1
          /\ Flat(s) <=> Flat(a) /\ Flat(t.r) /\ Depth(a) - t.rd \in -1 .. 1
      BY <2>2, <3>3, <3>5 DEF Made
    <3>7. Depth(a) \in Nat
      BY <3>3, DepthIs
    <3>8. Flat(t) => Flat(a) /\ Depth(a) \in t.ld .. t.ld + 1
      BY <2>2, <2>5, <2>6 DEF Enlarged
    <3>9. CASE s.ld - s.rd <= 1
      <4>1. AddOf(t, k, a, b) = s
        BY <1>2, <2>7, <3>1, <3>9 DEF AddOf
      <4>2. ASSUME Flat(t) PROVE Flat(s) /\ Depth(s) \in Depth(t) .. Depth(t) + 1
        <5>1. Depth(a) - t.rd \in -1 .. 1
          BY <2>2, <2>6, <3>6, <3>7, <3>8, <3>9, <4>2
        <5>2. Depth(s) \in Depth(t) .. Depth(t) + 1
          BY <2>2, <3>6, <3>7, <3>8, <4>2 DEF Deeper
        <5> QED BY <2>6, <3>6, <3>8, <4>2, <5>1, <5>2
      <4> QED BY <2>4, <3>6, <4>1, <4>2 DEF Enlarged
    <3>10. CASE ~(s.ld - s.rd <= 1)
      <4>1. AddOf(t, k, a, b) = RaiseLeft(s)
        <5>1. t.key > k /\ t # Void /\ s = WithLeft(t, a)
          BY <1>2, <2>7, <3>1
        <5> QED BY <3>10, <5>1 DEF AddOf
      <4>2. Kin(RaiseLeft(s), s) /\ (s.ld = s.rd + 2 => Raised(RaiseLeft(s), s, s.rd))
        BY <3>3, <3>6, RaiseLeftIs
      <4>3. ASSUME Flat(t)
            PROVE  Flat(RaiseLeft(s)) /\ Depth(RaiseLeft(s)) \in Depth(t) .. Depth(t) + 1
        <5>1. s.ld = s.rd + 2 /\ t.ld = t.rd + 1
          BY <2>2, <2>6, <3>6, <3>7, <3>8, <3>10, <4>3
        <5>2. Depth(t) = t.rd + 2
          BY <2>2, <5>1 DEF Deeper
        <5>3. Raised(RaiseLeft(s), s, t.rd)
          BY <3>6, <4>2, <5>1
        <5>4. Flat(RaiseLeft(s)) /\ Depth(RaiseLeft(s)) \in t.rd + 2 .. t.rd + 3
          BY <2>6, <3>6, <3>8, <4>3, <5>3 DEF Raised
        <5>5. t.rd + 3 = Depth(t) + 1
          BY <2>2, <5>2
        <5> QED BY <5>2, <5>4, <5>5
      <4> QED BY <2>4, <3>6, <4>1, <4>2, <4>3 DEF Enlarged, Kin
    <3> QED BY <3>9, <3>10
  <2>8. CASE t.key < k
    <3>1. PICK s : s = WithRight(t, b)
      OBVIOUS
    <3>2. s = Node(t.key, t.l, b)
      BY <1>2, <2>1, <3>1, WithIs
    <3>3. Sound(b) /\ b # Void /\ Keys(b) = Keys(t.r) \cup {k}
      BY <2>5 DEF Enlarged
    <3>4. Splits(t.l, t.key, b)
      BY <2>2, <2>8, <3>3 DEF Splits
    <3>5. Made(s, t.key, t.l, b)
      BY <2>2, <3>2, <3>3, <3>4, MakeNode
    <3>6. /\ Sound(s) /\ s # Void /\ s.r = b /\ s.l = t.l /\ s.rd = Depth(b) /\ s.ld = t.ld
          /\ Keys(s) = Keys(t) \cup {k} /\ Depth(s) = Deeper(t.ld, Depth(b)) + 1
          /\ Flat(s) <=> Flat(t.l) /\ Flat(b) /\ t.ld - Depth(b) \in -1 .. 1
      BY <2>2, <3>3, <3>5 DEF Made
    <3>7. Depth(b) \in Nat
      BY <3>3, DepthIs
    <3>8. Flat(t) => Flat(b) /\ Depth(b) \in t.rd .. t.rd + 1
      BY <2>2, <2>5, <2>6 DEF Enlarged
    <3>9. CASE s.rd - s.ld <= 1
      <4>1. AddOf(t, k, a, b) = s
        <5>1. ~(t.key > k) /\ t.key < k /\ t # Void /\ s = WithRight(t, b)
          BY <1>0, <1>2, <2>2, <2>8, <3>1
        <5> QED BY <3>9, <5>1 DEF AddOf
      <4>2. ASSUME Flat(t) PROVE Flat(s) /\ Depth(s) \in Depth(t) .. Depth(t) + 1
        <5>1. t.ld - Depth(b) \in -1 .. 1
          BY <2>2, <2>6, <3>6, <3>7, <3>8, <3>9, <4>2
        <5>2. Depth(s) \in Depth(t) .. Depth(t) + 1
          BY <2>2, <3>6, <3>7, <3>8, <4>2 DEF Deeper
        <5> QED BY <2>6, <3>6, <3>8, <4>2, <5>1, <5>2
      <4> QED BY <2>4, <3>6, <4>1, <4>2 DEF Enlarged
    <3>10. CASE ~(s.rd - s.ld <= 1)
      <4>1. AddOf(t, k, a, b) = RaiseRight(s)
        <5>1. ~(t.key > k) /\ t.key < k /\ t # Void /\ s = WithRight(t, b)
          BY <1>0, <1>2, <2>2, <2>8, <3>1
        <5> QED BY <3>10, <5>1 DEF AddOf
      <4>2. Kin(RaiseRight(s), s) /\ (s.rd = s.ld + 2 => Raised(RaiseRight(s), s, s.ld))
        BY <3>3, <3>6, RaiseRightIs
      <4>3. ASSUME Flat(t)
            PROVE  Flat(RaiseRight(s)) /\ Depth(RaiseRight(s)) \in Depth(t) .. Depth(t) + 1
        <5>1. s.rd = s.ld + 2 /\ t.rd = t.ld + 1
          BY <2>2, <2>6, <3>6, <3>7, <3>8, <3>10, <4>3
        <5>2. Depth(t) = t.ld + 2
          BY <2>2, <5>1 DEF Deeper
        <5>3. Raised(RaiseRight(s), s, t.ld)
          BY <3>6, <4>2, <5>1
        <5>4. Flat(RaiseRight(s)) /\ Depth(RaiseRight(s)) \in t.ld + 2 .. t.ld + 3
          BY <2>6, <3>6, <3>8, <4>3, <5>3 DEF Raised
        <5>5. t.ld + 3 = Depth(t) + 1
          BY <2>2, <5>2
        <5> QED BY <5>2, <5>4, <5>5
      <4> QED BY <2>4, <3>6, <4>1, <4>2, <4>3 DEF Enlarged, Kin
    <3> QED BY <3>9, <3>10
  <2>9. CASE t.key = k
    <3>1. AddOf(t, k, a, b) = t
      BY <1>0, <1>2, <2>9 DEF AddOf
    <3>2. Keys(t) \cup {k} = Keys(t)
      BY <2>2, <2>9
    <3>3. Depth(t) \in Nat
      BY <2>1, DepthIs
    <3> QED BY <1>2, <2>1, <2>4, <3>1, <3>2, <3>3 DEF Enlarged
  <2> QED BY <1>0, <2>2, <2>7, <2>8, <2>9
<1>3. \A t \in Trees : t \in S
  <2> HIDE DEF S
  <2> QED BY <1>1, <1>2, AllTrees
<1> QED BY <1>3

-----------------------------------------------------------------------------
(* BB_Tree_Del: the key is taken away, unless it is kept. *)

\* What t_r takes out is the largest node; t_l, the smallest.
TookRight(d, t) ==
  /\ Sound(d.took) /\ d.took # Void /\ d.took.r = Void /\ d.took.key \in Keys(t)
  /\ \A a \in Keys(t) : a <= d.took.key
  /\ t.r = Void => d.took = t
  /\ t.r # Void => Sound(d.rest) /\ d.rest # Void /\ Keys(d.rest) = Keys(t) \ {d.took.key}

TookLeft(d, t) ==
  /\ Sound(d.took) /\ d.took # Void /\ d.took.l = Void /\ d.took.key \in Keys(t)
  /\ \A a \in Keys(t) : a >= d.took.key
  /\ t.l = Void => d.took = t
  /\ t.l # Void => Sound(d.rest) /\ d.rest # Void /\ Keys(d.rest) = Keys(t) \ {d.took.key}

LEMMA RightOutIs == \A t \in Trees : Sound(t) /\ t # Void => TookRight(t_r(t), t)
<1> DEFINE S == {t \in Trees : Sound(t) /\ t # Void => TookRight(t_r(t), t)}
<1>1. Void \in S
  BY TreesIs
<1>2. ASSUME NEW t \in Trees, t # Void, t.l \in S, t.r \in S PROVE t \in S
  <2>1. SUFFICES ASSUME Sound(t) PROVE TookRight(t_r(t), t)
    OBVIOUS
  <2>2. /\ Sound(t.l) /\ Sound(t.r) /\ Splits(t.l, t.key, t.r) /\ t.key \in TreeKeys
            /\ t.key \in Nat
        /\ Keys(t) = Keys(t.l) \cup {t.key} \cup Keys(t.r)
    BY <1>2, <2>1, SoundParts
  <2>3. Keys(t.l) \subseteq Nat /\ Keys(t.r) \subseteq Nat
    BY <2>2, KeysNat
  <2>4. PICK d : d = t_r(t.r)
    OBVIOUS
  <2>5. t_r(t) = RightOf(t, d)
    BY <1>2, <2>4, RightOutRec
  <2>6. CASE t.r = Void
    <3>1. t_r(t).took = t
      BY <2>5, <2>6 DEF RightOf
    <3>2. \A a \in Keys(t) : a <= t.key
      BY <2>2, <2>3, <2>6, VoidIs DEF Splits
    <3> QED BY <1>2, <2>1, <2>2, <2>6, <3>1, <3>2 DEF TookRight
  <2>7. CASE t.r # Void
    <3>1. PICK f, q, g : f = t.r /\ q = d.took /\ g = d.rest
      OBVIOUS
    <3>2. /\ Sound(q) /\ q # Void /\ q.r = Void /\ q.key \in Keys(f)
              /\ \A a \in Keys(f) : a <= q.key
          /\ f.r = Void => q = f
          /\ f.r # Void => Sound(g) /\ g # Void /\ Keys(g) = Keys(f) \ {q.key}
      BY <1>2, <2>2, <2>4, <2>7, <3>1 DEF TookRight
    <3>3. PICK s : s = IF q = f THEN [t EXCEPT !.r = q.l, !.rd = q.ld]
                       ELSE [t EXCEPT !.r = g, !.rd = Deeper(g.rd, g.ld) + 1]
      OBVIOUS
    <3>4. Sound(s) /\ s # Void /\ Keys(s) = Keys(t) \ {q.key}
      <4>1. CASE f.r = Void
        <5>1. q = f /\ q.ld = Depth(q.l)
          BY <3>2, <4>1, SoundParts
        <5>2. s = Node(t.key, t.l, f.l)
          BY <1>2, <2>1, <3>3, <5>1, HungIs
        <5>3. Made(s, t.key, t.l, f.l)
          BY <1>2, <2>1, <2>7, <3>1, <5>2, RightParts, OverOne DEF OneOverLeft
        <5>4. Between(t.l, t.key, f.l, f.key, f.r)
                  /\ Keys(t) = Keys(t.l) \cup {t.key} \cup Keys(f.l) \cup {f.key} \cup Keys(f.r)
          BY <1>2, <2>1, <2>7, <3>1, RightParts
        <5>5. f.key \notin Keys(t.l) /\ f.key # t.key /\ f.key \notin Keys(f.l)
                  /\ Keys(f.r) = {}
          <6>1. f.key \in Nat /\ Sound(f.l) /\ Splits(t.l, t.key, f.l)
                    /\ Splits(f.l, f.key, f.r) /\ t.key < f.key
            BY <5>4, MostIs DEF Between
          <6>2. Keys(f.l) \subseteq Nat
            BY <6>1, KeysNat
          <6> QED BY <2>2, <2>3, <4>1, <6>1, <6>2, VoidIs DEF Splits
        <5>6. Keys(s) = Keys(t.l) \cup {t.key} \cup Keys(f.l) /\ Sound(s) /\ s # Void
          BY <5>3 DEF Made
        <5> QED BY <5>1, <5>4, <5>5, <5>6
      <4>2. CASE f.r # Void
        <5>1. q # f /\ Sound(g) /\ g # Void /\ Keys(g) = Keys(f) \ {q.key}
          BY <3>2, <4>2
        <5>2. PICK e : e = Deeper(g.rd, g.ld) + 1
          OBVIOUS
        <5>3. e = Depth(g)
          BY <5>1, <5>2, SoundParts, DeeperIs
        <5>4. s = Node(t.key, t.l, g)
          <6>1. [t EXCEPT !.r = g, !.rd = e] = Node(t.key, t.l, g)
            BY <1>2, <2>1, <5>3, HungIs
          <6> QED BY <3>3, <5>1, <5>2, <6>1
        <5>5. Splits(t.l, t.key, g)
          BY <2>2, <3>1, <5>1 DEF Splits
        <5>6. Made(s, t.key, t.l, g)
          BY <2>2, <5>1, <5>4, <5>5, MakeNode
        <5>7. Keys(s) = Keys(t.l) \cup {t.key} \cup (Keys(f) \ {q.key}) /\ Sound(s) /\ s # Void
          BY <5>1, <5>6 DEF Made
        <5>8. q.key \notin Keys(t.l) /\ q.key # t.key
          BY <2>2, <2>3, <3>1, <3>2 DEF Splits
        <5> QED BY <2>2, <3>1, <5>7, <5>8
      <4> QED BY <4>1, <4>2
    <3>5. PICK u : u = IF s.ld - s.rd > 1 THEN L_blc(s) ELSE s
      OBVIOUS
    <3>6. Kin(u, s)
      <4>1. CASE s.ld - s.rd > 1
        <5>1. s.l # Void
          BY <3>4, <4>1, SoundParts, DepthIs
        <5> QED BY <3>4, <3>5, <4>1, <5>1, L_blcIs
      <4>2. CASE ~(s.ld - s.rd > 1)
        BY <3>4, <3>5, <4>2 DEF Kin
      <4> QED BY <4>1, <4>2
    <3>7. t_r(t) = [took |-> q, rest |-> u]
      BY <2>5, <2>7, <3>1, <3>3, <3>5 DEF RightOf
    <3>8. q.key \in Keys(t) /\ \A a \in Keys(t) : a <= q.key
      BY <2>2, <2>3, <3>1, <3>2 DEF Splits
    <3>9. Sound(u) /\ u # Void /\ Keys(u) = Keys(t) \ {q.key}
      BY <3>4, <3>6 DEF Kin
    <3> QED BY <2>7, <3>2, <3>7, <3>8, <3>9 DEF TookRight
  <2> QED BY <2>6, <2>7
<1>3. \A t \in Trees : t \in S
  <2> HIDE DEF S
  <2> QED BY <1>1, <1>2, AllTrees
<1> QED BY <1>3

LEMMA LeftOutIs == \A t \in Trees : Sound(t) /\ t # Void => TookLeft(t_l(t), t)
<1> DEFINE S == {t \in Trees : Sound(t) /\ t # Void => TookLeft(t_l(t), t)}
<1>1. Void \in S
  BY TreesIs
<1>2. ASSUME NEW t \in Trees, t # Void, t.l \in S, t.r \in S PROVE t \in S
  <2>1. SUFFICES ASSUME Sound(t) PROVE TookLeft(t_l(t), t)
    OBVIOUS
  <2>2. /\ Sound(t.l) /\ Sound(t.r) /\ Splits(t.l, t.key, t.r) /\ t.key \in TreeKeys
            /\ t.key \in Nat
        /\ Keys(t) = Keys(t.l) \cup {t.key} \cup Keys(t.r)
    BY <1>2, <2>1, SoundParts
  <2>3. Keys(t.l) \subseteq Nat /\ Keys(t.r) \subseteq Nat
    BY <2>2, KeysNat
  <2>4. PICK d : d = t_l(t.l)
    OBVIOUS
  <2>5. t_l(t) = LeftOf(t, d)
    BY <1>2, <2>4, LeftOutRec
  <2>6. CASE t.l = Void
    <3>1. t_l(t).took = t
      BY <2>5, <2>6 DEF LeftOf
    <3>2. \A a \in Keys(t) : a >= t.key
      BY <2>2, <2>3, <2>6, VoidIs DEF Splits
    <3> QED BY <1>2, <2>1, <2>2, <2>6, <3>1, <3>2 DEF TookLeft
  <2>7. CASE t.l # Void
    <3>1. PICK f, q, g : f = t.l /\ q = d.took /\ g = d.rest
      OBVIOUS
    <3>2. /\ Sound(q) /\ q # Void /\ q.l = Void /\ q.key \in Keys(f)
              /\ \A a \in Keys(f) : a >= q.key
          /\ f.l = Void => q = f
          /\ f.l # Void => Sound(g) /\ g # Void /\ Keys(g) = Keys(f) \ {q.key}
      BY <1>2, <2>2, <2>4, <2>7, <3>1 DEF TookLeft
    <3>3. PICK s : s = IF q = f THEN [t EXCEPT !.l = q.r, !.ld = q.rd]
                       ELSE [t EXCEPT !.l = g, !.ld = Deeper(g.rd, g.ld) + 1]
      OBVIOUS
    <3>4. Sound(s) /\ s # Void /\ Keys(s) = Keys(t) \ {q.key}
      <4>1. CASE f.l = Void
        <5>1. q = f /\ q.rd = Depth(q.r)
          BY <3>2, <4>1, SoundParts
        <5>2. s = Node(t.key, f.r, t.r)
          BY <1>2, <2>1, <3>3, <5>1, HungIs
        <5>3. Made(s, t.key, f.r, t.r)
          BY <1>2, <2>1, <2>7, <3>1, <5>2, LeftParts, OverOne DEF OneOverRight
        <5>4. Between(f.l, f.key, f.r, t.key, t.r)
                  /\ Keys(t) = Keys(f.l) \cup {f.key} \cup Keys(f.r) \cup {t.key} \cup Keys(t.r)
          BY <1>2, <2>1, <2>7, <3>1, LeftParts
        <5>5. f.key \notin Keys(t.r) /\ f.key # t.key /\ f.key \notin Keys(f.r)
                  /\ Keys(f.l) = {}
          <6>1. f.key \in Nat /\ Sound(f.r) /\ Splits(f.r, t.key, t.r)
                    /\ Splits(f.l, f.key, f.r) /\ f.key < t.key
            BY <5>4, MostIs DEF Between
          <6>2. Keys(f.r) \subseteq Nat
            BY <6>1, KeysNat
          <6> QED BY <2>2, <2>3, <4>1, <6>1, <6>2, VoidIs DEF Splits
        <5>6. Keys(s) = Keys(f.r) \cup {t.key} \cup Keys(t.r) /\ Sound(s) /\ s # Void
          BY <5>3 DEF Made
        <5> QED BY <5>1, <5>4, <5>5, <5>6
      <4>2. CASE f.l # Void
        <5>1. q # f /\ Sound(g) /\ g # Void /\ Keys(g) = Keys(f) \ {q.key}
          BY <3>2, <4>2
        <5>2. PICK e : e = Deeper(g.rd, g.ld) + 1
          OBVIOUS
        <5>3. e = Depth(g)
          BY <5>1, <5>2, SoundParts, DeeperIs
        <5>4. s = Node(t.key, g, t.r)
          <6>1. [t EXCEPT !.l = g, !.ld = e] = Node(t.key, g, t.r)
            BY <1>2, <2>1, <5>3, HungIs
          <6> QED BY <3>3, <5>1, <5>2, <6>1
        <5>5. Splits(g, t.key, t.r)
          BY <2>2, <3>1, <5>1 DEF Splits
        <5>6. Made(s, t.key, g, t.r)
          BY <2>2, <5>1, <5>4, <5>5, MakeNode
        <5>7. Keys(s) = (Keys(f) \ {q.key}) \cup {t.key} \cup Keys(t.r) /\ Sound(s) /\ s # Void
          BY <5>1, <5>6 DEF Made
        <5>8. q.key \notin Keys(t.r) /\ q.key # t.key
          BY <2>2, <2>3, <3>1, <3>2 DEF Splits
        <5> QED BY <2>2, <3>1, <5>7, <5>8
      <4> QED BY <4>1, <4>2
    <3>5. PICK u : u = IF s.rd - s.ld > 1 THEN R_blc(s) ELSE s
      OBVIOUS
    <3>6. Kin(u, s)
      <4>1. CASE s.rd - s.ld > 1
        <5>1. s.r # Void
          BY <3>4, <4>1, SoundParts, DepthIs
        <5> QED BY <3>4, <3>5, <4>1, <5>1, R_blcIs
      <4>2. CASE ~(s.rd - s.ld > 1)
        BY <3>4, <3>5, <4>2 DEF Kin
      <4> QED BY <4>1, <4>2
    <3>7. t_l(t) = [took |-> q, rest |-> u]
      BY <2>5, <2>7, <3>1, <3>3, <3>5 DEF LeftOf
    <3>8. q.key \in Keys(t) /\ \A a \in Keys(t) : a >= q.key
      BY <2>2, <2>3, <3>1, <3>2 DEF Splits
    <3>9. Sound(u) /\ u # Void /\ Keys(u) = Keys(t) \ {q.key}
      BY <3>4, <3>6 DEF Kin
    <3> QED BY <2>7, <3>2, <3>7, <3>8, <3>9 DEF TookLeft
  <2> QED BY <2>6, <2>7
<1>3. \A t \in Trees : t \in S
  <2> HIDE DEF S
  <2> QED BY <1>1, <1>2, AllTrees
<1> QED BY <1>3

LEMMA DeleteIs ==
  ASSUME NEW t, Sound(t), t # Void
  PROVE  Sound(t_delete(t)) /\ Keys(t_delete(t)) = Keys(t) \ {t.key}
<1>1. /\ Sound(t.l) /\ Sound(t.r) /\ Splits(t.l, t.key, t.r) /\ t.key \in TreeKeys
          /\ t.key \in Nat
      /\ Keys(t) = Keys(t.l) \cup {t.key} \cup Keys(t.r) /\ t.ld = Depth(t.l)
                /\ t.rd = Depth(t.r)
      /\ t.ld \in Nat /\ t.rd \in Nat
  BY SoundParts
<1>2. Keys(t.l) \subseteq Nat /\ Keys(t.r) \subseteq Nat
  BY <1>1, KeysNat
<1>3. t.key \notin Keys(t.l) /\ t.key \notin Keys(t.r)
  BY <1>1, <1>2 DEF Splits
<1>4. CASE t.r = Void
  BY <1>1, <1>3, <1>4, VoidIs DEF t_delete
<1>5. CASE t.r # Void /\ t.l = Void
  BY <1>1, <1>3, <1>5, VoidIs DEF t_delete
<1>6. CASE t.r # Void /\ t.l # Void /\ t.ld >= t.rd
  <2>1. PICK d, q, g : d = t_r(t.l) /\ q = d.took /\ g = d.rest
    OBVIOUS
  <2>2. /\ Sound(q) /\ q # Void /\ q.r = Void /\ q.key \in Keys(t.l)
            /\ \A a \in Keys(t.l) : a <= q.key
        /\ t.l.r = Void => q = t.l
        /\ t.l.r # Void => Sound(g) /\ g # Void /\ Keys(g) = Keys(t.l) \ {q.key}
    BY <1>1, <1>6, <2>1, RightOutIs DEF TookRight, Sound
  <2>3. q.key \in TreeKeys /\ q.key \in Nat /\ q.ld = Depth(q.l)
            /\ Keys(q) = Keys(q.l) \cup {q.key} /\ Sound(q.l)
        /\ Splits(q.l, q.key, q.r)
    BY <2>2, SoundParts, VoidIs
  <2>4. PICK n : n = IF q = t.l THEN q ELSE [q EXCEPT !.l = g, !.ld = Deeper(g.rd, g.ld) + 1]
    OBVIOUS
  <2>5. Sound(n) /\ n # Void /\ n.key = q.key /\ Sound(n.l) /\ Keys(n.l) = Keys(t.l) \ {q.key}
    <3>1. CASE t.l.r = Void
      <4>1. q.key \notin Keys(q.l)
        BY <1>2, <2>2, <2>3 DEF Splits
      <4> QED BY <2>2, <2>3, <2>4, <3>1, <4>1
    <3>2. CASE t.l.r # Void
      <4>1. q # t.l /\ Sound(g) /\ g # Void /\ Keys(g) = Keys(t.l) \ {q.key}
        BY <2>2, <3>2
      <4>2. PICK e : e = Deeper(g.rd, g.ld) + 1
        OBVIOUS
      <4>3. e = Depth(g)
        BY <4>1, <4>2, SoundParts, DeeperIs
      <4>4. [q EXCEPT !.l = g, !.ld = e] = Node(q.key, g, Void)
        BY <2>2, <4>3, HungIs
      <4>5. Splits(g, q.key, Void)
        BY <1>2, <2>2, <2>3, <4>1, VoidIs DEF Splits
      <4>6. Made(Node(q.key, g, Void), q.key, g, Void)
        BY <2>3, <4>1, <4>5, VoidIs, MakeNode
      <4>7. n = Node(q.key, g, Void)
        BY <2>4, <4>1, <4>2, <4>4
      <4> QED BY <4>1, <4>6, <4>7 DEF Made
    <3> QED BY <3>1, <3>2
  <2>6. [n EXCEPT !.r = t.r, !.rd = t.rd] = Node(q.key, n.l, t.r)
    <3>1. [n EXCEPT !.r = t.r, !.rd = t.rd] = Node(n.key, n.l, t.r)
      BY <1>1, <2>5, HungIs
    <3> QED BY <2>5, <3>1
  <2>7. Splits(n.l, q.key, t.r)
    BY <1>1, <1>2, <2>2, <2>5 DEF Splits
  <2>8. Made(Node(q.key, n.l, t.r), q.key, n.l, t.r)
    BY <1>1, <2>3, <2>5, <2>7, MakeNode
  <2>9. Sound(Node(q.key, n.l, t.r))
            /\ Keys(Node(q.key, n.l, t.r)) = (Keys(t.l) \ {q.key}) \cup {q.key} \cup Keys(t.r)
    BY <2>5, <2>8 DEF Made
  <2>10. t_delete(t) = [n EXCEPT !.r = t.r, !.rd = t.rd]
    BY <1>1, <1>6, <2>1, <2>4 DEF t_delete
  <2> QED BY <1>1, <1>3, <2>2, <2>6, <2>9, <2>10
<1>7. CASE t.r # Void /\ t.l # Void /\ t.ld < t.rd
  <2>1. PICK d, q, g : d = t_l(t.r) /\ q = d.took /\ g = d.rest
    OBVIOUS
  <2>2. /\ Sound(q) /\ q # Void /\ q.l = Void /\ q.key \in Keys(t.r)
            /\ \A a \in Keys(t.r) : a >= q.key
        /\ t.r.l = Void => q = t.r
        /\ t.r.l # Void => Sound(g) /\ g # Void /\ Keys(g) = Keys(t.r) \ {q.key}
    BY <1>1, <1>7, <2>1, LeftOutIs DEF TookLeft, Sound
  <2>3. q.key \in TreeKeys /\ q.key \in Nat /\ q.rd = Depth(q.r)
            /\ Keys(q) = Keys(q.r) \cup {q.key} /\ Sound(q.r)
        /\ Splits(q.l, q.key, q.r)
    BY <2>2, SoundParts, VoidIs
  <2>4. PICK n : n = IF q = t.r THEN q ELSE [q EXCEPT !.r = g, !.rd = Deeper(g.rd, g.ld) + 1]
    OBVIOUS
  <2>5. Sound(n) /\ n # Void /\ n.key = q.key /\ Sound(n.r) /\ Keys(n.r) = Keys(t.r) \ {q.key}
    <3>1. CASE t.r.l = Void
      <4>1. q.key \notin Keys(q.r)
        BY <1>2, <2>2, <2>3 DEF Splits
      <4> QED BY <2>2, <2>3, <2>4, <3>1, <4>1
    <3>2. CASE t.r.l # Void
      <4>1. q # t.r /\ Sound(g) /\ g # Void /\ Keys(g) = Keys(t.r) \ {q.key}
        BY <2>2, <3>2
      <4>2. PICK e : e = Deeper(g.rd, g.ld) + 1
        OBVIOUS
      <4>3. e = Depth(g)
        BY <4>1, <4>2, SoundParts, DeeperIs
      <4>4. [q EXCEPT !.r = g, !.rd = e] = Node(q.key, Void, g)
        BY <2>2, <4>3, HungIs
      <4>5. Splits(Void, q.key, g)
        BY <1>2, <2>2, <2>3, <4>1, VoidIs DEF Splits
      <4>6. Made(Node(q.key, Void, g), q.key, Void, g)
        BY <2>3, <4>1, <4>5, VoidIs, MakeNode
      <4>7. n = Node(q.key, Void, g)
        BY <2>4, <4>1, <4>2, <4>4
      <4> QED BY <4>1, <4>6, <4>7 DEF Made
    <3> QED BY <3>1, <3>2
  <2>6. [n EXCEPT !.l = t.l, !.ld = t.ld] = Node(q.key, t.l, n.r)
    <3>1. [n EXCEPT !.l = t.l, !.ld = t.ld] = Node(n.key, t.l, n.r)
      BY <1>1, <2>5, HungIs
    <3> QED BY <2>5, <3>1
  <2>7. Splits(t.l, q.key, n.r)
    BY <1>1, <1>2, <2>2, <2>5 DEF Splits
  <2>8. Made(Node(q.key, t.l, n.r), q.key, t.l, n.r)
    BY <1>1, <2>3, <2>5, <2>7, MakeNode
  <2>9. Sound(Node(q.key, t.l, n.r))
            /\ Keys(Node(q.key, t.l, n.r)) = Keys(t.l) \cup {q.key} \cup (Keys(t.r) \ {q.key})
    BY <2>5, <2>8 DEF Made
  <2>10. t_delete(t) = [n EXCEPT !.l = t.l, !.ld = t.ld]
    BY <1>1, <1>7, <2>1, <2>4 DEF t_delete
  <2> QED BY <1>1, <1>3, <2>2, <2>6, <2>9, <2>10
<1> QED BY <1>1, <1>4, <1>5, <1>6, <1>7

Gone(d, t, k) ==
  /\ Sound(d.root) /\ Keys(d.root) = Keys(t) \ ({k} \ Kept) /\ (d.flg = 0 => d.root = t)
  /\ d.flg \in Nat /\ d.flg = IF k \in Kept THEN 0 ELSE Level(t, k)

LEMMA DelIs ==
  ASSUME NEW k \in TreeKeys
  PROVE  \A t \in Trees : Sound(t) => Gone(BB_Tree_Del(t, k), t, k)
<1> DEFINE S == {t \in Trees : Sound(t) => Gone(BB_Tree_Del(t, k), t, k)}
<1>0. k \in Nat
  BY MostIs
<1>1. Void \in S
  <2>1. BB_Tree_Del(Void, k) = [root |-> Void, flg |-> 0]
    BY DelRec, TreesIs DEF DelOf
  <2>2. Level(Void, k) = 0
    BY LevelRec
  <2> QED BY <2>1, <2>2, VoidIs, TreesIs DEF Gone
<1>2. ASSUME NEW t \in Trees, t # Void, t.l \in S, t.r \in S PROVE t \in S
  <2>1. SUFFICES ASSUME Sound(t) PROVE Gone(BB_Tree_Del(t, k), t, k)
    OBVIOUS
  <2>2. /\ Sound(t.l) /\ Sound(t.r) /\ Splits(t.l, t.key, t.r) /\ t.key \in TreeKeys
            /\ t.key \in Nat
        /\ Keys(t) = Keys(t.l) \cup {t.key} \cup Keys(t.r)
    BY <1>2, <2>1, SoundParts
  <2>3. PICK a, b : a = BB_Tree_Del(t.l, k) /\ b = BB_Tree_Del(t.r, k)
    OBVIOUS
  <2>4. BB_Tree_Del(t, k) = DelOf(t, k, a, b)
    BY <1>2, <2>3, DelRec
  <2>5. Gone(a, t.l, k) /\ Gone(b, t.r, k)
    BY <1>2, <2>2, <2>3
  <2>6. Level(t, k) = IF t.key = k THEN 1
                      ELSE LET n == Level(IF k < t.key THEN t.l ELSE t.r, k)
                                IN IF n = 0 THEN 0 ELSE n + 1
    BY <1>2, LevelRec
  <2>7. CASE t.key = k
    <3>1. Level(t, k) = 1
      BY <2>6, <2>7
    <3>2. CASE k \in Kept
      <4>1. DelOf(t, k, a, b) = [root |-> t, flg |-> 0]
        BY <1>2, <2>7, <3>2 DEF DelOf
      <4> QED BY <2>1, <2>4, <3>2, <4>1 DEF Gone
    <3>3. CASE k \notin Kept
      <4>1. DelOf(t, k, a, b) = [root |-> t_delete(t), flg |-> 1]
        BY <1>2, <2>7, <3>3 DEF DelOf
      <4>2. Sound(t_delete(t)) /\ Keys(t_delete(t)) = Keys(t) \ {k}
        BY <1>2, <2>1, <2>7, DeleteIs
      <4> QED BY <2>4, <3>1, <3>3, <4>1, <4>2 DEF Gone
    <3> QED BY <3>2, <3>3
  <2>8. CASE t.key > k
    <3>1. k \notin Keys(t.r) /\ k # t.key
      BY <1>0, <2>2, <2>8, KeysNat DEF Splits
    <3>2. Level(t, k) = IF Level(t.l, k) = 0 THEN 0 ELSE Level(t.l, k) + 1
      BY <1>0, <2>2, <2>6, <2>8
    <3>3. /\ Sound(a.root) /\ Keys(a.root) = Keys(t.l) \ ({k} \ Kept)
              /\ (a.flg = 0 => a.root = t.l)
          /\ a.flg \in Nat /\ a.flg = IF k \in Kept THEN 0 ELSE Level(t.l, k)
      BY <2>5 DEF Gone
    <3>4. CASE a.flg = 0
      <4>1. DelOf(t, k, a, b) = [root |-> t, flg |-> 0]
        BY <1>2, <2>8, <3>1, <3>4 DEF DelOf
      <4>2. Keys(t) = Keys(t) \ ({k} \ Kept)
        BY <2>2, <3>1, <3>3, <3>4
      <4> QED BY <2>1, <2>4, <3>2, <3>3, <3>4, <4>1, <4>2 DEF Gone
    <3>5. CASE a.flg # 0
      <4>1. PICK s, u : s = WithLeft(t, a.root) /\ u = IF s.rd - s.ld > 1 THEN R_blc(s) ELSE s
        OBVIOUS
      <4>2. DelOf(t, k, a, b) = [root |-> u, flg |-> a.flg + 1]
        BY <1>2, <2>8, <3>1, <3>5, <4>1 DEF DelOf
      <4>3. s = Node(t.key, a.root, t.r)
        BY <1>2, <2>1, <4>1, WithIs
      <4>4. Splits(a.root, t.key, t.r)
        BY <2>2, <3>3 DEF Splits
      <4>5. Made(s, t.key, a.root, t.r)
        BY <2>2, <3>3, <4>3, <4>4, MakeNode
      <4>6. Sound(s) /\ s # Void /\ Keys(s) = Keys(t) \ ({k} \ Kept)
        BY <2>2, <3>1, <3>3, <4>5 DEF Made
      <4>7. Kin(u, s)
        <5>1. CASE s.rd - s.ld > 1
          <6>1. s.r # Void
            BY <4>6, <5>1, SoundParts, DepthIs
          <6> QED BY <4>1, <4>6, <5>1, <6>1, R_blcIs
        <5>2. CASE ~(s.rd - s.ld > 1)
          BY <4>1, <4>6, <5>2 DEF Kin
        <5> QED BY <5>1, <5>2
      <4>8. a.flg + 1 \in Nat /\ a.flg + 1 # 0
                /\ a.flg + 1 = IF k \in Kept THEN 0 ELSE Level(t, k)
        BY <3>2, <3>3, <3>5
      <4> QED BY <2>4, <4>2, <4>6, <4>7, <4>8 DEF Gone, Kin
    <3> QED BY <3>4, <3>5
  <2>9. CASE t.key < k
    <3>1. k \notin Keys(t.l) /\ k # t.key /\ ~(t.key > k)
      BY <1>0, <2>2, <2>9, KeysNat DEF Splits
    <3>2. Level(t, k) = IF Level(t.r, k) = 0 THEN 0 ELSE Level(t.r, k) + 1
      BY <1>0, <2>2, <2>6, <2>9
    <3>3. /\ Sound(b.root) /\ Keys(b.root) = Keys(t.r) \ ({k} \ Kept)
              /\ (b.flg = 0 => b.root = t.r)
          /\ b.flg \in Nat /\ b.flg = IF k \in Kept THEN 0 ELSE Level(t.r, k)
      BY <2>5 DEF Gone
    <3>4. CASE b.flg = 0
      <4>1. DelOf(t, k, a, b) = [root |-> t, flg |-> 0]
        BY <1>2, <3>1, <3>4 DEF DelOf
      <4>2. Keys(t) = Keys(t) \ ({k} \ Kept)
        BY <2>2, <3>1, <3>3, <3>4
      <4> QED BY <2>1, <2>4, <3>2, <3>3, <3>4, <4>1, <4>2 DEF Gone
    <3>5. CASE b.flg # 0
      <4>1. PICK s, u : s = WithRight(t, b.root) /\ u = IF s.ld - s.rd > 1 THEN L_blc(s) ELSE s
        OBVIOUS
      <4>2. DelOf(t, k, a, b) = [root |-> u, flg |-> b.flg + 1]
        BY <1>2, <3>1, <3>5, <4>1 DEF DelOf
      <4>3. s = Node(t.key, t.l, b.root)
        BY <1>2, <2>1, <4>1, WithIs
      <4>4. Splits(t.l, t.key, b.root)
        BY <2>2, <3>3 DEF Splits
      <4>5. Made(s, t.key, t.l, b.root)
        BY <2>2, <3>3, <4>3, <4>4, MakeNode
      <4>6. Sound(s) /\ s # Void /\ Keys(s) = Keys(t) \ ({k} \ Kept)
        BY <2>2, <3>1, <3>3, <4>5 DEF Made
      <4>7. Kin(u, s)
        <5>1. CASE s.ld - s.rd > 1
          <6>1. s.l # Void
            BY <4>6, <5>1, SoundParts, DepthIs
          <6> QED BY <4>1, <4>6, <5>1, <6>1, L_blcIs
        <5>2. CASE ~(s.ld - s.rd > 1)
          BY <4>1, <4>6, <5>2 DEF Kin
        <5> QED BY <5>1, <5>2
      <4>8. b.flg + 1 \in Nat /\ b.flg + 1 # 0
                /\ b.flg + 1 = IF k \in Kept THEN 0 ELSE Level(t, k)
        BY <3>2, <3>3, <3>5
      <4> QED BY <2>4, <4>2, <4>6, <4>7, <4>8 DEF Gone, Kin
    <3> QED BY <3>4, <3>5
  <2> QED BY <1>0, <2>2, <2>7, <2>8, <2>9
<1>3. \A t \in Trees : t \in S
  <2> HIDE DEF S
  <2> QED BY <1>1, <1>2, AllTrees
<1> QED BY <1>3

-----------------------------------------------------------------------------
(* The queries. *)

Listed(s, A) ==
  /\ s \in Seq(TreeKeys) /\ \A i \in 1 .. Len(s) : s[i] \in A
  /\ \A x \in A : \E i \in 1 .. Len(s) : s[i] = x
  /\ \A i \in 1 .. Len(s) : i > 1 => s[i - 1] < s[i]

LEMMA ListJoined ==
  ASSUME NEW a, NEW A, NEW b, NEW B, NEW k \in TreeKeys, Listed(a, A), Listed(b, B),
         \A x \in A : x < k, \A x \in B : k < x
  PROVE  Listed(a \o <<k>> \o b, A \cup {k} \cup B)
<1>1. a \in Seq(TreeKeys) /\ b \in Seq(TreeKeys) /\ Len(a) \in Nat /\ Len(b) \in Nat
  BY DEF Listed
<1>2. PICK c : c = a \o <<k>> \o b
  OBVIOUS
<1>3. /\ c \in Seq(TreeKeys) /\ Len(c) = Len(a) + 1 + Len(b)
      /\ \A i \in 1 .. Len(c) : c[i] = IF i <= Len(a) THEN a[i]
                                       ELSE IF i = Len(a) + 1 THEN k ELSE b[i - (Len(a) + 1)]
  <2>1. PICK d : d = a \o <<k>>
    OBVIOUS
  <2>2. /\ d \in Seq(TreeKeys) /\ Len(d) = Len(a) + 1
        /\ \A i \in 1 .. Len(d) : d[i] = IF i <= Len(a) THEN a[i] ELSE k
    BY <1>1, <2>1
  <2>3. /\ c \in Seq(TreeKeys) /\ Len(c) = Len(d) + Len(b)
        /\ \A i \in 1 .. Len(c) : c[i] = IF i <= Len(d) THEN d[i] ELSE b[i - Len(d)]
    BY <1>1, <1>2, <2>1, <2>2
  <2> QED BY <1>1, <2>2, <2>3
<1>4. ASSUME NEW i \in 1 .. Len(c) PROVE c[i] \in A \cup {k} \cup B
  <2>1. CASE i <= Len(a)
    <3>1. i \in 1 .. Len(a) /\ c[i] = a[i]
      BY <1>1, <1>3, <2>1
    <3> QED BY <3>1 DEF Listed
  <2>2. CASE i = Len(a) + 1
    BY <1>1, <1>3, <2>2
  <2>3. CASE i > Len(a) + 1
    <3>1. i - (Len(a) + 1) \in 1 .. Len(b) /\ c[i] = b[i - (Len(a) + 1)]
      BY <1>1, <1>3, <2>3
    <3> QED BY <3>1 DEF Listed
  <2> QED BY <1>1, <2>1, <2>2, <2>3
<1>5. ASSUME NEW x \in A \cup {k} \cup B PROVE \E i \in 1 .. Len(c) : c[i] = x
  <2>1. CASE x \in A
    <3>1. PICK i \in 1 .. Len(a) : a[i] = x
      BY <2>1 DEF Listed
    <3>2. i \in 1 .. Len(c) /\ c[i] = x
      BY <1>1, <1>3, <3>1
    <3> QED BY <3>2
  <2>2. CASE x = k
    <3>1. Len(a) + 1 \in 1 .. Len(c) /\ c[Len(a) + 1] = k
      BY <1>1, <1>3
    <3> QED BY <2>2, <3>1
  <2>3. CASE x \in B
    <3>1. PICK i \in 1 .. Len(b) : b[i] = x
      BY <2>3 DEF Listed
    <3>2. PICK j : j = Len(a) + 1 + i
      OBVIOUS
    <3>3. j \in 1 .. Len(c) /\ ~(j <= Len(a)) /\ j # Len(a) + 1 /\ j - (Len(a) + 1) = i
      BY <1>1, <1>3, <3>2
    <3>4. c[j] = x
      BY <1>3, <3>1, <3>3
    <3> QED BY <3>3, <3>4
  <2> QED BY <2>1, <2>2, <2>3
<1>6. ASSUME NEW i \in 1 .. Len(c), i > 1 PROVE c[i - 1] < c[i]
  <2>1. i - 1 \in 1 .. Len(c)
    BY <1>1, <1>3, <1>6
  <2>2. CASE i <= Len(a)
    <3>1. i \in 1 .. Len(a) /\ i - 1 <= Len(a)
      BY <1>1, <1>3, <2>1, <2>2
    <3>2. c[i] = a[i]
      BY <1>3, <2>2
    <3>3. c[i - 1] = a[i - 1]
      BY <1>3, <2>1, <3>1
    <3> QED BY <1>6, <3>1, <3>2, <3>3 DEF Listed
  <2>3. CASE i = Len(a) + 1
    <3>1. i - 1 \in 1 .. Len(a) /\ c[i] = k /\ c[i - 1] = a[i - 1]
      BY <1>1, <1>3, <1>6, <2>1, <2>3
    <3> QED BY <3>1 DEF Listed
  <2>4. CASE i = Len(a) + 2
    <3>1. i - (Len(a) + 1) = 1 /\ i - 1 = Len(a) + 1 /\ 1 \in 1 .. Len(b)
      BY <1>1, <1>3, <2>4
    <3>2. c[i] = b[1] /\ c[i - 1] = k
      BY <1>1, <1>3, <2>1, <2>4, <3>1
    <3> QED BY <3>1, <3>2 DEF Listed
  <2>5. CASE i > Len(a) + 2
    <3>1. PICK j : j = i - (Len(a) + 1)
      OBVIOUS
    <3>2. j \in 1 .. Len(b) /\ j > 1 /\ j - 1 = (i - 1) - (Len(a) + 1)
      BY <1>1, <1>3, <2>5, <3>1
    <3>3. ~(i <= Len(a)) /\ i # Len(a) + 1 /\ ~(i - 1 <= Len(a)) /\ i - 1 # Len(a) + 1
      BY <1>1, <1>3, <2>5
    <3>4. c[i] = b[j]
      BY <1>3, <3>1, <3>3
    <3>5. c[i - 1] = b[j - 1]
      BY <1>3, <2>1, <3>2, <3>3
    <3> QED BY <3>2, <3>4, <3>5 DEF Listed
  <2> QED BY <1>1, <2>2, <2>3, <2>4, <2>5
<1>7. Listed(c, A \cup {k} \cup B)
  BY <1>3, <1>4, <1>5, <1>6 DEF Listed
<1> QED BY <1>2, <1>7

LEMMA ScanIs == \A t \in Trees : Sound(t) => Listed(BB_Tree_Scan(t), Keys(t))
<1> DEFINE S == {t \in Trees : Sound(t) => Listed(BB_Tree_Scan(t), Keys(t))}
<1>1. Void \in S
  <2>1. PICK s : s = <<>>
    OBVIOUS
  <2>2. s \in Seq(TreeKeys) /\ Len(s) = 0
    BY <2>1
  <2>3. Listed(s, {})
    BY <2>2 DEF Listed
  <2> QED BY <2>1, <2>3, ScanRec, VoidIs, TreesIs
<1>2. ASSUME NEW t \in Trees, t # Void, t.l \in S, t.r \in S PROVE t \in S
  <2>1. SUFFICES ASSUME Sound(t) PROVE Listed(BB_Tree_Scan(t), Keys(t))
    OBVIOUS
  <2>2. /\ Sound(t.l) /\ Sound(t.r) /\ Splits(t.l, t.key, t.r) /\ t.key \in TreeKeys
        /\ Keys(t) = Keys(t.l) \cup {t.key} \cup Keys(t.r)
    BY <1>2, <2>1, SoundParts
  <2>3. PICK a, b, A, B, k : a = BB_Tree_Scan(t.l) /\ b = BB_Tree_Scan(t.r) /\ A = Keys(t.l)
            /\ B = Keys(t.r) /\ k = t.key
    OBVIOUS
  <2>4. Listed(a, A) /\ Listed(b, B) /\ k \in TreeKeys
    BY <1>2, <2>2, <2>3
  <2>5. (\A x \in A : x < k) /\ (\A x \in B : k < x)
    BY <2>2, <2>3 DEF Splits
  <2>6. Listed(a \o <<k>> \o b, A \cup {k} \cup B)
    BY <2>4, <2>5, ListJoined
  <2>7. BB_Tree_Scan(t) = a \o <<k>> \o b
    BY <1>2, <2>3, ScanRec
  <2> QED BY <2>2, <2>3, <2>6, <2>7
<1>3. \A t \in Trees : t \in S
  <2> HIDE DEF S
  <2> QED BY <1>1, <1>2, AllTrees
<1> QED BY <1>3

\* What a loop ends with when W are the keys it looks for, B the best of them, and t
\* was remembered before.
Found(q, t, W, B) == (W = {} => q = t) /\ (W # {} => q # Void /\ q.key \in B)

LEMMA FoundAnswers ==
  ASSUME NEW q, NEW W, NEW B, Found(q, Void, W, B), W = {} => B = {}
  PROVE  Answers(q, B)
BY DEF Found, Answers

LEMMA FindIs ==
  ASSUME NEW k \in TreeKeys, NEW sp0, Sound(sp0)
  PROVE  Answers(BB_Tree_Find(sp0, k), Keys(sp0) \cap {k})
<1> DEFINE W(u) == Keys(u) \cap {k}
<1>0. k \in Nat /\ \A u \in Trees : Keys(u) \subseteq Nat
  BY MostIs, KeysAre
<1>1. PICK f \in [Trees -> [Trees -> Trees]] :
        /\ \A t \in Trees : Seek(t, k, {0}, {-1}, {}) = f[t][Void]
        /\ SoughtBy(f, k, {0}, {-1}, {})
  <2>1. PICK stops, rights, keeps : stops = {0} /\ rights = {-1} /\ keeps = {}
    OBVIOUS
  <2> QED BY <2>1, SeekRec
<1>2. ASSUME NEW u \in Trees, u # Void, NEW t \in Trees, u.key \in Nat
      PROVE  f[u][t] = IF u.key < k THEN f[u.r][t] ELSE IF u.key = k THEN u ELSE f[u.l][t]
  <2>1. f[u][t] = IF Tree_Cmp(u.key, k) \in {0} THEN u
                  ELSE f[IF Tree_Cmp(u.key, k) \in {-1} THEN u.r ELSE u.l]
                        [IF Tree_Cmp(u.key, k) \in {} THEN u ELSE t]
    BY <1>1, <1>2 DEF SoughtBy
  <2>2. Tree_Cmp(u.key, k) = IF u.key < k THEN -1 ELSE IF u.key = k THEN 0 ELSE 1
    BY DEF Tree_Cmp
  <2> QED BY <1>0, <1>2, <2>1, <2>2
<1> DEFINE S == {u \in Trees : Sound(u) => \A t \in Trees : Found(f[u][t], t, W(u), W(u))}
<1>3. Void \in S
  <2>1. ASSUME NEW t \in Trees PROVE f[Void][t] = t
    BY <1>1, TreesIs DEF SoughtBy
  <2> QED BY <2>1, TreesIs, VoidIs DEF Found
<1>4. ASSUME NEW u \in Trees, u # Void, u.l \in S, u.r \in S PROVE u \in S
  <2>1. SUFFICES ASSUME Sound(u), NEW t \in Trees PROVE Found(f[u][t], t, W(u), W(u))
    OBVIOUS
  <2>2. /\ Sound(u.l) /\ Sound(u.r) /\ Splits(u.l, u.key, u.r) /\ u.key \in Nat
            /\ u.l \in Trees /\ u.r \in Trees
        /\ Keys(u) = Keys(u.l) \cup {u.key} \cup Keys(u.r)
    BY <1>4, <2>1, SoundParts, TreeParts
  <2>3. /\ \A x \in Trees : Found(f[u.l][x], x, W(u.l), W(u.l))
        /\ \A x \in Trees : Found(f[u.r][x], x, W(u.r), W(u.r))
    BY <1>4, <2>2
  <2>4. f[u][t] = IF u.key < k THEN f[u.r][t] ELSE IF u.key = k THEN u ELSE f[u.l][t]
    BY <1>2, <1>4, <2>2
  <2>5. PICK A, B, z : A = Keys(u.l) /\ B = Keys(u.r) /\ z = u.key
    OBVIOUS
  <2>6. /\ A \subseteq Nat /\ B \subseteq Nat /\ z \in Nat /\ Keys(u) = A \cup {z} \cup B
        /\ (\A a \in A : a < z) /\ (\A b \in B : z < b)
    BY <1>0, <2>2, <2>5 DEF Splits
  <2>7. CASE z < k
    <3>1. f[u][t] = f[u.r][t]
      BY <1>0, <2>4, <2>5, <2>6, <2>7
    <3>2. PICK K, R, P : K = W(u) /\ R = W(u.r) /\ P = W(u.l)
      OBVIOUS
    <3>3. K = (A \cup {z} \cup B) \cap {k} /\ R = B \cap {k} /\ P = A \cap {k}
      BY <2>5, <2>6, <3>2
    <3>0. (\A a \in A : a < k) /\ ~(z \in {k})
      <4>1. ASSUME NEW a \in A PROVE a < k
        <5>1. a \in Nat /\ a < z
          BY <2>6
        <5> QED BY <1>0, <2>6, <2>7, <5>1
      <4>2. ~(z \in {k})
        BY <1>0, <2>6, <2>7
      <4> QED BY <4>1, <4>2
    <3>4. R \subseteq K
      BY <3>3
    <3>12. ASSUME NEW j \in K PROVE j \in R
      <4>1. j # z
        BY <3>0, <3>3
      <4>2. j \notin A
        BY <1>0, <2>6, <3>0, <3>3
      <4> QED BY <3>3, <4>1, <4>2
    <3>5. Found(f[u.r][t], t, R, R)
      BY <2>3, <3>2
    <3>6. K = R
      BY <3>4, <3>12
    <3> QED BY <3>1, <3>2, <3>5, <3>6
  <2>8. CASE z = k
    <3>1. f[u][t] = u
      BY <1>0, <2>4, <2>5, <2>6, <2>8
    <3>2. PICK K, R, P : K = W(u) /\ R = W(u.r) /\ P = W(u.l)
      OBVIOUS
    <3>3. K = (A \cup {z} \cup B) \cap {k} /\ R = B \cap {k} /\ P = A \cap {k}
      BY <2>5, <2>6, <3>2
    <3>4. K # {} /\ z \in K
      BY <1>0, <2>6, <2>8, <3>3 DEF Least, Greatest
    <3> QED BY <1>4, <2>5, <3>1, <3>2, <3>4 DEF Found
  <2>9. CASE z > k
    <3>1. f[u][t] = f[u.l][t]
      BY <1>0, <2>4, <2>5, <2>6, <2>9
    <3>2. PICK K, R, P : K = W(u) /\ R = W(u.r) /\ P = W(u.l)
      OBVIOUS
    <3>3. K = (A \cup {z} \cup B) \cap {k} /\ R = B \cap {k} /\ P = A \cap {k}
      BY <2>5, <2>6, <3>2
    <3>0. (\A b \in B : k < b) /\ ~(z \in {k})
      <4>1. ASSUME NEW b \in B PROVE k < b
        <5>1. b \in Nat /\ z < b
          BY <2>6
        <5> QED BY <1>0, <2>6, <2>9, <5>1
      <4>2. ~(z \in {k})
        BY <1>0, <2>6, <2>9
      <4> QED BY <4>1, <4>2
    <3>4. P \subseteq K
      BY <3>3
    <3>12. ASSUME NEW j \in K PROVE j \in P
      <4>1. j # z
        BY <3>0, <3>3
      <4>2. j \notin B
        BY <1>0, <2>6, <3>0, <3>3
      <4> QED BY <3>3, <4>1, <4>2
    <3>5. Found(f[u.l][t], t, P, P)
      BY <2>3, <3>2
    <3>6. K = P
      BY <3>4, <3>12
    <3> QED BY <3>1, <3>2, <3>5, <3>6
  <2> QED BY <1>0, <2>6, <2>7, <2>8, <2>9
<1>5. \A u \in Trees : u \in S
  <2> HIDE DEF S
  <2> QED BY <1>3, <1>4, AllTrees
<1>6. PICK q, V : q = f[sp0][Void] /\ V = W(sp0)
  OBVIOUS
<1>7. Found(q, Void, V, V)
  BY <1>5, <1>6, TreesIs DEF Sound
<1>8. V = {} => V = {}
  BY DEF Least, Greatest
<1>9. Answers(q, V)
  BY <1>7, <1>8, FoundAnswers
<1>10. BB_Tree_Find(sp0, k) = q
  BY <1>1, <1>6 DEF BB_Tree_Find, Sound
<1> QED BY <1>6, <1>9, <1>10

LEMMA GTIs ==
  ASSUME NEW k \in TreeKeys, NEW sp0, Sound(sp0)
  PROVE  Answers(BB_Tree_GT(sp0, k), Least({j \in Keys(sp0) : j > k}))
<1> DEFINE W(u) == {j \in Keys(u) : j > k}
<1>0. k \in Nat /\ \A u \in Trees : Keys(u) \subseteq Nat
  BY MostIs, KeysAre
<1>1. PICK f \in [Trees -> [Trees -> Trees]] :
        /\ \A t \in Trees : Seek(t, k, {}, {-1, 0}, {1}) = f[t][Void]
        /\ SoughtBy(f, k, {}, {-1, 0}, {1})
  <2>1. PICK stops, rights, keeps : stops = {} /\ rights = {-1, 0} /\ keeps = {1}
    OBVIOUS
  <2> QED BY <2>1, SeekRec
<1>2. ASSUME NEW u \in Trees, u # Void, NEW t \in Trees, u.key \in Nat
      PROVE  f[u][t] = IF u.key < k THEN f[u.r][t]
                ELSE IF u.key = k THEN f[u.r][t] ELSE f[u.l][u]
  <2>1. f[u][t] = IF Tree_Cmp(u.key, k) \in {} THEN u
                  ELSE f[IF Tree_Cmp(u.key, k) \in {-1, 0} THEN u.r ELSE u.l]
                        [IF Tree_Cmp(u.key, k) \in {1} THEN u ELSE t]
    BY <1>1, <1>2 DEF SoughtBy
  <2>2. Tree_Cmp(u.key, k) = IF u.key < k THEN -1 ELSE IF u.key = k THEN 0 ELSE 1
    BY DEF Tree_Cmp
  <2> QED BY <1>0, <1>2, <2>1, <2>2
<1> DEFINE S == {u \in Trees : Sound(u) => \A t \in Trees : Found(f[u][t], t, W(u), Least(W(u)))}
<1>3. Void \in S
  <2>1. ASSUME NEW t \in Trees PROVE f[Void][t] = t
    BY <1>1, TreesIs DEF SoughtBy
  <2> QED BY <2>1, TreesIs, VoidIs DEF Found
<1>4. ASSUME NEW u \in Trees, u # Void, u.l \in S, u.r \in S PROVE u \in S
  <2>1. SUFFICES ASSUME Sound(u), NEW t \in Trees PROVE Found(f[u][t], t, W(u), Least(W(u)))
    OBVIOUS
  <2>2. /\ Sound(u.l) /\ Sound(u.r) /\ Splits(u.l, u.key, u.r) /\ u.key \in Nat
            /\ u.l \in Trees /\ u.r \in Trees
        /\ Keys(u) = Keys(u.l) \cup {u.key} \cup Keys(u.r)
    BY <1>4, <2>1, SoundParts, TreeParts
  <2>3. /\ \A x \in Trees : Found(f[u.l][x], x, W(u.l), Least(W(u.l)))
        /\ \A x \in Trees : Found(f[u.r][x], x, W(u.r), Least(W(u.r)))
    BY <1>4, <2>2
  <2>4. f[u][t] = IF u.key < k THEN f[u.r][t] ELSE IF u.key = k THEN f[u.r][t] ELSE f[u.l][u]
    BY <1>2, <1>4, <2>2
  <2>5. PICK A, B, z : A = Keys(u.l) /\ B = Keys(u.r) /\ z = u.key
    OBVIOUS
  <2>6. /\ A \subseteq Nat /\ B \subseteq Nat /\ z \in Nat /\ Keys(u) = A \cup {z} \cup B
        /\ (\A a \in A : a < z) /\ (\A b \in B : z < b)
    BY <1>0, <2>2, <2>5 DEF Splits
  <2>7. CASE z < k
    <3>1. f[u][t] = f[u.r][t]
      BY <1>0, <2>4, <2>5, <2>6, <2>7
    <3>2. PICK K, R, P : K = W(u) /\ R = W(u.r) /\ P = W(u.l)
      OBVIOUS
    <3>3. K = {j \in (A \cup {z} \cup B) : j > k} /\ R = {j \in B : j > k}
              /\ P = {j \in A : j > k}
      BY <2>5, <2>6, <3>2
    <3>0. (\A a \in A : a < k) /\ ~(z > k)
      <4>1. ASSUME NEW a \in A PROVE a < k
        <5>1. a \in Nat /\ a < z
          BY <2>6
        <5> QED BY <1>0, <2>6, <2>7, <5>1
      <4>2. ~(z > k)
        BY <1>0, <2>6, <2>7
      <4> QED BY <4>1, <4>2
    <3>4. R \subseteq K
      BY <3>3
    <3>12. ASSUME NEW j \in K PROVE j \in R
      <4>1. j # z
        BY <3>0, <3>3
      <4>2. j \notin A
        BY <1>0, <2>6, <3>0, <3>3
      <4> QED BY <3>3, <4>1, <4>2
    <3>5. Found(f[u.r][t], t, R, Least(R))
      BY <2>3, <3>2
    <3>6. K = R
      BY <3>4, <3>12
    <3> QED BY <3>1, <3>2, <3>5, <3>6
  <2>8. CASE z = k
    <3>1. f[u][t] = f[u.r][t]
      BY <1>0, <2>4, <2>5, <2>6, <2>8
    <3>2. PICK K, R, P : K = W(u) /\ R = W(u.r) /\ P = W(u.l)
      OBVIOUS
    <3>3. K = {j \in (A \cup {z} \cup B) : j > k} /\ R = {j \in B : j > k}
              /\ P = {j \in A : j > k}
      BY <2>5, <2>6, <3>2
    <3>0. (\A a \in A : a < k) /\ ~(z > k)
      <4>1. ASSUME NEW a \in A PROVE a < k
        <5>1. a \in Nat /\ a < z
          BY <2>6
        <5> QED BY <1>0, <2>6, <2>8, <5>1
      <4>2. ~(z > k)
        BY <1>0, <2>6, <2>8
      <4> QED BY <4>1, <4>2
    <3>4. R \subseteq K
      BY <3>3
    <3>12. ASSUME NEW j \in K PROVE j \in R
      <4>1. j # z
        BY <3>0, <3>3
      <4>2. j \notin A
        BY <1>0, <2>6, <3>0, <3>3
      <4> QED BY <3>3, <4>1, <4>2
    <3>5. Found(f[u.r][t], t, R, Least(R))
      BY <2>3, <3>2
    <3>6. K = R
      BY <3>4, <3>12
    <3> QED BY <3>1, <3>2, <3>5, <3>6
  <2>9. CASE z > k
    <3>1. f[u][t] = f[u.l][u]
      BY <1>0, <2>4, <2>5, <2>6, <2>9
    <3>2. PICK K, R, P : K = W(u) /\ R = W(u.r) /\ P = W(u.l)
      OBVIOUS
    <3>3. K = {j \in (A \cup {z} \cup B) : j > k} /\ R = {j \in B : j > k}
              /\ P = {j \in A : j > k}
      BY <2>5, <2>6, <3>2
    <3>4. z \in K /\ P \subseteq K /\ K \subseteq Nat
      BY <1>0, <2>6, <2>9, <3>3
    <3>5. ASSUME NEW j \in K PROVE j \in P \/ z <= j
      <4>1. CASE j \in A
        BY <3>3, <4>1
      <4>2. CASE j = z
        BY <2>6, <4>2
      <4>3. CASE j \in B
        <5>1. j \in Nat /\ z < j
          BY <2>6, <4>3
        <5> QED BY <2>6, <5>1
      <4> QED BY <3>3, <4>1, <4>2, <4>3
    <3>6. P = {} => z \in Least(K)
      BY <3>4, <3>5 DEF Least
    <3>7. ASSUME NEW x \in P PROVE x <= z
      <4>1. x \in A /\ x \in Nat
        BY <3>3, <3>4
      <4>2. x < z
        BY <2>6, <4>1
      <4> QED BY <2>6, <4>1, <4>2
    <3>8. ASSUME NEW x \in Least(P) PROVE x \in Least(K)
      <4>1. x \in P /\ x \in K /\ x \in Nat /\ x <= z
        BY <3>4, <3>7 DEF Least
      <4>2. ASSUME NEW j \in K PROVE x <= j
        BY <2>6, <3>4, <3>5, <4>1, <3>8 DEF Least
      <4> QED BY <4>1, <4>2 DEF Least
    <3>9. Found(f[u.l][u], u, P, Least(P))
      BY <2>3, <3>2
    <3>10. z = u.key /\ u # Void /\ K # {}
      BY <1>4, <2>5, <3>4
    <3>11. Found(f[u][t], t, K, Least(K))
      BY <3>1, <3>6, <3>8, <3>9, <3>10 DEF Found
    <3> QED BY <3>2, <3>11
  <2> QED BY <1>0, <2>6, <2>7, <2>8, <2>9
<1>5. \A u \in Trees : u \in S
  <2> HIDE DEF S
  <2> QED BY <1>3, <1>4, AllTrees
<1>6. PICK q, V : q = f[sp0][Void] /\ V = W(sp0)
  OBVIOUS
<1>7. Found(q, Void, V, Least(V))
  BY <1>5, <1>6, TreesIs DEF Sound
<1>8. V = {} => Least(V) = {}
  BY DEF Least, Greatest
<1>9. Answers(q, Least(V))
  BY <1>7, <1>8, FoundAnswers
<1>10. BB_Tree_GT(sp0, k) = q
  BY <1>1, <1>6 DEF BB_Tree_GT, Sound
<1> QED BY <1>6, <1>9, <1>10

LEMMA GTEQIs ==
  ASSUME NEW k \in TreeKeys, NEW sp0, Sound(sp0)
  PROVE  Answers(BB_Tree_GTEQ(sp0, k), Least({j \in Keys(sp0) : j >= k}))
<1> DEFINE W(u) == {j \in Keys(u) : j >= k}
<1>0. k \in Nat /\ \A u \in Trees : Keys(u) \subseteq Nat
  BY MostIs, KeysAre
<1>1. PICK f \in [Trees -> [Trees -> Trees]] :
        /\ \A t \in Trees : Seek(t, k, {0}, {-1}, {1}) = f[t][Void]
        /\ SoughtBy(f, k, {0}, {-1}, {1})
  <2>1. PICK stops, rights, keeps : stops = {0} /\ rights = {-1} /\ keeps = {1}
    OBVIOUS
  <2> QED BY <2>1, SeekRec
<1>2. ASSUME NEW u \in Trees, u # Void, NEW t \in Trees, u.key \in Nat
      PROVE  f[u][t] = IF u.key < k THEN f[u.r][t] ELSE IF u.key = k THEN u ELSE f[u.l][u]
  <2>1. f[u][t] = IF Tree_Cmp(u.key, k) \in {0} THEN u
                  ELSE f[IF Tree_Cmp(u.key, k) \in {-1} THEN u.r ELSE u.l]
                        [IF Tree_Cmp(u.key, k) \in {1} THEN u ELSE t]
    BY <1>1, <1>2 DEF SoughtBy
  <2>2. Tree_Cmp(u.key, k) = IF u.key < k THEN -1 ELSE IF u.key = k THEN 0 ELSE 1
    BY DEF Tree_Cmp
  <2> QED BY <1>0, <1>2, <2>1, <2>2
<1> DEFINE S == {u \in Trees : Sound(u) => \A t \in Trees : Found(f[u][t], t, W(u), Least(W(u)))}
<1>3. Void \in S
  <2>1. ASSUME NEW t \in Trees PROVE f[Void][t] = t
    BY <1>1, TreesIs DEF SoughtBy
  <2> QED BY <2>1, TreesIs, VoidIs DEF Found
<1>4. ASSUME NEW u \in Trees, u # Void, u.l \in S, u.r \in S PROVE u \in S
  <2>1. SUFFICES ASSUME Sound(u), NEW t \in Trees PROVE Found(f[u][t], t, W(u), Least(W(u)))
    OBVIOUS
  <2>2. /\ Sound(u.l) /\ Sound(u.r) /\ Splits(u.l, u.key, u.r) /\ u.key \in Nat
            /\ u.l \in Trees /\ u.r \in Trees
        /\ Keys(u) = Keys(u.l) \cup {u.key} \cup Keys(u.r)
    BY <1>4, <2>1, SoundParts, TreeParts
  <2>3. /\ \A x \in Trees : Found(f[u.l][x], x, W(u.l), Least(W(u.l)))
        /\ \A x \in Trees : Found(f[u.r][x], x, W(u.r), Least(W(u.r)))
    BY <1>4, <2>2
  <2>4. f[u][t] = IF u.key < k THEN f[u.r][t] ELSE IF u.key = k THEN u ELSE f[u.l][u]
    BY <1>2, <1>4, <2>2
  <2>5. PICK A, B, z : A = Keys(u.l) /\ B = Keys(u.r) /\ z = u.key
    OBVIOUS
  <2>6. /\ A \subseteq Nat /\ B \subseteq Nat /\ z \in Nat /\ Keys(u) = A \cup {z} \cup B
        /\ (\A a \in A : a < z) /\ (\A b \in B : z < b)
    BY <1>0, <2>2, <2>5 DEF Splits
  <2>7. CASE z < k
    <3>1. f[u][t] = f[u.r][t]
      BY <1>0, <2>4, <2>5, <2>6, <2>7
    <3>2. PICK K, R, P : K = W(u) /\ R = W(u.r) /\ P = W(u.l)
      OBVIOUS
    <3>3. K = {j \in (A \cup {z} \cup B) : j >= k} /\ R = {j \in B : j >= k}
              /\ P = {j \in A : j >= k}
      BY <2>5, <2>6, <3>2
    <3>0. (\A a \in A : a < k) /\ ~(z >= k)
      <4>1. ASSUME NEW a \in A PROVE a < k
        <5>1. a \in Nat /\ a < z
          BY <2>6
        <5> QED BY <1>0, <2>6, <2>7, <5>1
      <4>2. ~(z >= k)
        BY <1>0, <2>6, <2>7
      <4> QED BY <4>1, <4>2
    <3>4. R \subseteq K
      BY <3>3
    <3>12. ASSUME NEW j \in K PROVE j \in R
      <4>1. j # z
        BY <3>0, <3>3
      <4>2. j \notin A
        BY <1>0, <2>6, <3>0, <3>3
      <4> QED BY <3>3, <4>1, <4>2
    <3>5. Found(f[u.r][t], t, R, Least(R))
      BY <2>3, <3>2
    <3>6. K = R
      BY <3>4, <3>12
    <3> QED BY <3>1, <3>2, <3>5, <3>6
  <2>8. CASE z = k
    <3>1. f[u][t] = u
      BY <1>0, <2>4, <2>5, <2>6, <2>8
    <3>2. PICK K, R, P : K = W(u) /\ R = W(u.r) /\ P = W(u.l)
      OBVIOUS
    <3>3. K = {j \in (A \cup {z} \cup B) : j >= k} /\ R = {j \in B : j >= k}
              /\ P = {j \in A : j >= k}
      BY <2>5, <2>6, <3>2
    <3>4. K # {} /\ z \in Least(K)
      BY <1>0, <2>6, <2>8, <3>3 DEF Least, Greatest
    <3> QED BY <1>4, <2>5, <3>1, <3>2, <3>4 DEF Found
  <2>9. CASE z > k
    <3>1. f[u][t] = f[u.l][u]
      BY <1>0, <2>4, <2>5, <2>6, <2>9
    <3>2. PICK K, R, P : K = W(u) /\ R = W(u.r) /\ P = W(u.l)
      OBVIOUS
    <3>3. K = {j \in (A \cup {z} \cup B) : j >= k} /\ R = {j \in B : j >= k}
              /\ P = {j \in A : j >= k}
      BY <2>5, <2>6, <3>2
    <3>4. z \in K /\ P \subseteq K /\ K \subseteq Nat
      BY <1>0, <2>6, <2>9, <3>3
    <3>5. ASSUME NEW j \in K PROVE j \in P \/ z <= j
      <4>1. CASE j \in A
        BY <3>3, <4>1
      <4>2. CASE j = z
        BY <2>6, <4>2
      <4>3. CASE j \in B
        <5>1. j \in Nat /\ z < j
          BY <2>6, <4>3
        <5> QED BY <2>6, <5>1
      <4> QED BY <3>3, <4>1, <4>2, <4>3
    <3>6. P = {} => z \in Least(K)
      BY <3>4, <3>5 DEF Least
    <3>7. ASSUME NEW x \in P PROVE x <= z
      <4>1. x \in A /\ x \in Nat
        BY <3>3, <3>4
      <4>2. x < z
        BY <2>6, <4>1
      <4> QED BY <2>6, <4>1, <4>2
    <3>8. ASSUME NEW x \in Least(P) PROVE x \in Least(K)
      <4>1. x \in P /\ x \in K /\ x \in Nat /\ x <= z
        BY <3>4, <3>7 DEF Least
      <4>2. ASSUME NEW j \in K PROVE x <= j
        BY <2>6, <3>4, <3>5, <4>1, <3>8 DEF Least
      <4> QED BY <4>1, <4>2 DEF Least
    <3>9. Found(f[u.l][u], u, P, Least(P))
      BY <2>3, <3>2
    <3>10. z = u.key /\ u # Void /\ K # {}
      BY <1>4, <2>5, <3>4
    <3>11. Found(f[u][t], t, K, Least(K))
      BY <3>1, <3>6, <3>8, <3>9, <3>10 DEF Found
    <3> QED BY <3>2, <3>11
  <2> QED BY <1>0, <2>6, <2>7, <2>8, <2>9
<1>5. \A u \in Trees : u \in S
  <2> HIDE DEF S
  <2> QED BY <1>3, <1>4, AllTrees
<1>6. PICK q, V : q = f[sp0][Void] /\ V = W(sp0)
  OBVIOUS
<1>7. Found(q, Void, V, Least(V))
  BY <1>5, <1>6, TreesIs DEF Sound
<1>8. V = {} => Least(V) = {}
  BY DEF Least, Greatest
<1>9. Answers(q, Least(V))
  BY <1>7, <1>8, FoundAnswers
<1>10. BB_Tree_GTEQ(sp0, k) = q
  BY <1>1, <1>6 DEF BB_Tree_GTEQ, Sound
<1> QED BY <1>6, <1>9, <1>10

LEMMA LTIs ==
  ASSUME NEW k \in TreeKeys, NEW sp0, Sound(sp0)
  PROVE  Answers(BB_Tree_LT(sp0, k), Greatest({j \in Keys(sp0) : j < k}))
<1> DEFINE W(u) == {j \in Keys(u) : j < k}
<1>0. k \in Nat /\ \A u \in Trees : Keys(u) \subseteq Nat
  BY MostIs, KeysAre
<1>1. PICK f \in [Trees -> [Trees -> Trees]] :
        /\ \A t \in Trees : Seek(t, k, {}, {-1}, {-1}) = f[t][Void]
        /\ SoughtBy(f, k, {}, {-1}, {-1})
  <2>1. PICK stops, rights, keeps : stops = {} /\ rights = {-1} /\ keeps = {-1}
    OBVIOUS
  <2> QED BY <2>1, SeekRec
<1>2. ASSUME NEW u \in Trees, u # Void, NEW t \in Trees, u.key \in Nat
      PROVE  f[u][t] = IF u.key < k THEN f[u.r][u]
                ELSE IF u.key = k THEN f[u.l][t] ELSE f[u.l][t]
  <2>1. f[u][t] = IF Tree_Cmp(u.key, k) \in {} THEN u
                  ELSE f[IF Tree_Cmp(u.key, k) \in {-1} THEN u.r ELSE u.l]
                        [IF Tree_Cmp(u.key, k) \in {-1} THEN u ELSE t]
    BY <1>1, <1>2 DEF SoughtBy
  <2>2. Tree_Cmp(u.key, k) = IF u.key < k THEN -1 ELSE IF u.key = k THEN 0 ELSE 1
    BY DEF Tree_Cmp
  <2> QED BY <1>0, <1>2, <2>1, <2>2
<1> DEFINE S == {u \in Trees : Sound(u) => \A t \in Trees : Found(f[u][t], t, W(u), Greatest(W(u)))}
<1>3. Void \in S
  <2>1. ASSUME NEW t \in Trees PROVE f[Void][t] = t
    BY <1>1, TreesIs DEF SoughtBy
  <2> QED BY <2>1, TreesIs, VoidIs DEF Found
<1>4. ASSUME NEW u \in Trees, u # Void, u.l \in S, u.r \in S PROVE u \in S
  <2>1. SUFFICES ASSUME Sound(u), NEW t \in Trees PROVE Found(f[u][t], t, W(u), Greatest(W(u)))
    OBVIOUS
  <2>2. /\ Sound(u.l) /\ Sound(u.r) /\ Splits(u.l, u.key, u.r) /\ u.key \in Nat
            /\ u.l \in Trees /\ u.r \in Trees
        /\ Keys(u) = Keys(u.l) \cup {u.key} \cup Keys(u.r)
    BY <1>4, <2>1, SoundParts, TreeParts
  <2>3. /\ \A x \in Trees : Found(f[u.l][x], x, W(u.l), Greatest(W(u.l)))
        /\ \A x \in Trees : Found(f[u.r][x], x, W(u.r), Greatest(W(u.r)))
    BY <1>4, <2>2
  <2>4. f[u][t] = IF u.key < k THEN f[u.r][u] ELSE IF u.key = k THEN f[u.l][t] ELSE f[u.l][t]
    BY <1>2, <1>4, <2>2
  <2>5. PICK A, B, z : A = Keys(u.l) /\ B = Keys(u.r) /\ z = u.key
    OBVIOUS
  <2>6. /\ A \subseteq Nat /\ B \subseteq Nat /\ z \in Nat /\ Keys(u) = A \cup {z} \cup B
        /\ (\A a \in A : a < z) /\ (\A b \in B : z < b)
    BY <1>0, <2>2, <2>5 DEF Splits
  <2>7. CASE z < k
    <3>1. f[u][t] = f[u.r][u]
      BY <1>0, <2>4, <2>5, <2>6, <2>7
    <3>2. PICK K, R, P : K = W(u) /\ R = W(u.r) /\ P = W(u.l)
      OBVIOUS
    <3>3. K = {j \in (A \cup {z} \cup B) : j < k} /\ R = {j \in B : j < k}
              /\ P = {j \in A : j < k}
      BY <2>5, <2>6, <3>2
    <3>4. z \in K /\ R \subseteq K /\ K \subseteq Nat
      BY <1>0, <2>6, <2>7, <3>3
    <3>5. ASSUME NEW j \in K PROVE j \in R \/ z >= j
      <4>1. CASE j \in B
        BY <3>3, <4>1
      <4>2. CASE j = z
        BY <2>6, <4>2
      <4>3. CASE j \in A
        <5>1. j \in Nat /\ j < z
          BY <2>6, <4>3
        <5> QED BY <2>6, <5>1
      <4> QED BY <3>3, <4>1, <4>2, <4>3
    <3>6. R = {} => z \in Greatest(K)
      BY <3>4, <3>5 DEF Greatest
    <3>7. ASSUME NEW x \in R PROVE x >= z
      <4>1. x \in B /\ x \in Nat
        BY <3>3, <3>4
      <4>2. z < x
        BY <2>6, <4>1
      <4> QED BY <2>6, <4>1, <4>2
    <3>8. ASSUME NEW x \in Greatest(R) PROVE x \in Greatest(K)
      <4>1. x \in R /\ x \in K /\ x \in Nat /\ x >= z
        BY <3>4, <3>7 DEF Greatest
      <4>2. ASSUME NEW j \in K PROVE x >= j
        BY <2>6, <3>4, <3>5, <4>1, <3>8 DEF Greatest
      <4> QED BY <4>1, <4>2 DEF Greatest
    <3>9. Found(f[u.r][u], u, R, Greatest(R))
      BY <2>3, <3>2
    <3>10. z = u.key /\ u # Void /\ K # {}
      BY <1>4, <2>5, <3>4
    <3>11. Found(f[u][t], t, K, Greatest(K))
      BY <3>1, <3>6, <3>8, <3>9, <3>10 DEF Found
    <3> QED BY <3>2, <3>11
  <2>8. CASE z = k
    <3>1. f[u][t] = f[u.l][t]
      BY <1>0, <2>4, <2>5, <2>6, <2>8
    <3>2. PICK K, R, P : K = W(u) /\ R = W(u.r) /\ P = W(u.l)
      OBVIOUS
    <3>3. K = {j \in (A \cup {z} \cup B) : j < k} /\ R = {j \in B : j < k}
              /\ P = {j \in A : j < k}
      BY <2>5, <2>6, <3>2
    <3>0. (\A b \in B : k < b) /\ ~(z < k)
      <4>1. ASSUME NEW b \in B PROVE k < b
        <5>1. b \in Nat /\ z < b
          BY <2>6
        <5> QED BY <1>0, <2>6, <2>8, <5>1
      <4>2. ~(z < k)
        BY <1>0, <2>6, <2>8
      <4> QED BY <4>1, <4>2
    <3>4. P \subseteq K
      BY <3>3
    <3>12. ASSUME NEW j \in K PROVE j \in P
      <4>1. j # z
        BY <3>0, <3>3
      <4>2. j \notin B
        BY <1>0, <2>6, <3>0, <3>3
      <4> QED BY <3>3, <4>1, <4>2
    <3>5. Found(f[u.l][t], t, P, Greatest(P))
      BY <2>3, <3>2
    <3>6. K = P
      BY <3>4, <3>12
    <3> QED BY <3>1, <3>2, <3>5, <3>6
  <2>9. CASE z > k
    <3>1. f[u][t] = f[u.l][t]
      BY <1>0, <2>4, <2>5, <2>6, <2>9
    <3>2. PICK K, R, P : K = W(u) /\ R = W(u.r) /\ P = W(u.l)
      OBVIOUS
    <3>3. K = {j \in (A \cup {z} \cup B) : j < k} /\ R = {j \in B : j < k}
              /\ P = {j \in A : j < k}
      BY <2>5, <2>6, <3>2
    <3>0. (\A b \in B : k < b) /\ ~(z < k)
      <4>1. ASSUME NEW b \in B PROVE k < b
        <5>1. b \in Nat /\ z < b
          BY <2>6
        <5> QED BY <1>0, <2>6, <2>9, <5>1
      <4>2. ~(z < k)
        BY <1>0, <2>6, <2>9
      <4> QED BY <4>1, <4>2
    <3>4. P \subseteq K
      BY <3>3
    <3>12. ASSUME NEW j \in K PROVE j \in P
      <4>1. j # z
        BY <3>0, <3>3
      <4>2. j \notin B
        BY <1>0, <2>6, <3>0, <3>3
      <4> QED BY <3>3, <4>1, <4>2
    <3>5. Found(f[u.l][t], t, P, Greatest(P))
      BY <2>3, <3>2
    <3>6. K = P
      BY <3>4, <3>12
    <3> QED BY <3>1, <3>2, <3>5, <3>6
  <2> QED BY <1>0, <2>6, <2>7, <2>8, <2>9
<1>5. \A u \in Trees : u \in S
  <2> HIDE DEF S
  <2> QED BY <1>3, <1>4, AllTrees
<1>6. PICK q, V : q = f[sp0][Void] /\ V = W(sp0)
  OBVIOUS
<1>7. Found(q, Void, V, Greatest(V))
  BY <1>5, <1>6, TreesIs DEF Sound
<1>8. V = {} => Greatest(V) = {}
  BY DEF Least, Greatest
<1>9. Answers(q, Greatest(V))
  BY <1>7, <1>8, FoundAnswers
<1>10. BB_Tree_LT(sp0, k) = q
  BY <1>1, <1>6 DEF BB_Tree_LT, Sound
<1> QED BY <1>6, <1>9, <1>10

LEMMA LTEQIs ==
  ASSUME NEW k \in TreeKeys, NEW sp0, Sound(sp0)
  PROVE  Answers(BB_Tree_LTEQ(sp0, k), Greatest({j \in Keys(sp0) : j <= k}))
<1> DEFINE W(u) == {j \in Keys(u) : j <= k}
<1>0. k \in Nat /\ \A u \in Trees : Keys(u) \subseteq Nat
  BY MostIs, KeysAre
<1>1. PICK f \in [Trees -> [Trees -> Trees]] :
        /\ \A t \in Trees : Seek(t, k, {0}, {-1}, {-1}) = f[t][Void]
        /\ SoughtBy(f, k, {0}, {-1}, {-1})
  <2>1. PICK stops, rights, keeps : stops = {0} /\ rights = {-1} /\ keeps = {-1}
    OBVIOUS
  <2> QED BY <2>1, SeekRec
<1>2. ASSUME NEW u \in Trees, u # Void, NEW t \in Trees, u.key \in Nat
      PROVE  f[u][t] = IF u.key < k THEN f[u.r][u] ELSE IF u.key = k THEN u ELSE f[u.l][t]
  <2>1. f[u][t] = IF Tree_Cmp(u.key, k) \in {0} THEN u
                  ELSE f[IF Tree_Cmp(u.key, k) \in {-1} THEN u.r ELSE u.l]
                        [IF Tree_Cmp(u.key, k) \in {-1} THEN u ELSE t]
    BY <1>1, <1>2 DEF SoughtBy
  <2>2. Tree_Cmp(u.key, k) = IF u.key < k THEN -1 ELSE IF u.key = k THEN 0 ELSE 1
    BY DEF Tree_Cmp
  <2> QED BY <1>0, <1>2, <2>1, <2>2
<1> DEFINE S == {u \in Trees : Sound(u) => \A t \in Trees : Found(f[u][t], t, W(u), Greatest(W(u)))}
<1>3. Void \in S
  <2>1. ASSUME NEW t \in Trees PROVE f[Void][t] = t
    BY <1>1, TreesIs DEF SoughtBy
  <2> QED BY <2>1, TreesIs, VoidIs DEF Found
<1>4. ASSUME NEW u \in Trees, u # Void, u.l \in S, u.r \in S PROVE u \in S
  <2>1. SUFFICES ASSUME Sound(u), NEW t \in Trees PROVE Found(f[u][t], t, W(u), Greatest(W(u)))
    OBVIOUS
  <2>2. /\ Sound(u.l) /\ Sound(u.r) /\ Splits(u.l, u.key, u.r) /\ u.key \in Nat
            /\ u.l \in Trees /\ u.r \in Trees
        /\ Keys(u) = Keys(u.l) \cup {u.key} \cup Keys(u.r)
    BY <1>4, <2>1, SoundParts, TreeParts
  <2>3. /\ \A x \in Trees : Found(f[u.l][x], x, W(u.l), Greatest(W(u.l)))
        /\ \A x \in Trees : Found(f[u.r][x], x, W(u.r), Greatest(W(u.r)))
    BY <1>4, <2>2
  <2>4. f[u][t] = IF u.key < k THEN f[u.r][u] ELSE IF u.key = k THEN u ELSE f[u.l][t]
    BY <1>2, <1>4, <2>2
  <2>5. PICK A, B, z : A = Keys(u.l) /\ B = Keys(u.r) /\ z = u.key
    OBVIOUS
  <2>6. /\ A \subseteq Nat /\ B \subseteq Nat /\ z \in Nat /\ Keys(u) = A \cup {z} \cup B
        /\ (\A a \in A : a < z) /\ (\A b \in B : z < b)
    BY <1>0, <2>2, <2>5 DEF Splits
  <2>7. CASE z < k
    <3>1. f[u][t] = f[u.r][u]
      BY <1>0, <2>4, <2>5, <2>6, <2>7
    <3>2. PICK K, R, P : K = W(u) /\ R = W(u.r) /\ P = W(u.l)
      OBVIOUS
    <3>3. K = {j \in (A \cup {z} \cup B) : j <= k} /\ R = {j \in B : j <= k}
              /\ P = {j \in A : j <= k}
      BY <2>5, <2>6, <3>2
    <3>4. z \in K /\ R \subseteq K /\ K \subseteq Nat
      BY <1>0, <2>6, <2>7, <3>3
    <3>5. ASSUME NEW j \in K PROVE j \in R \/ z >= j
      <4>1. CASE j \in B
        BY <3>3, <4>1
      <4>2. CASE j = z
        BY <2>6, <4>2
      <4>3. CASE j \in A
        <5>1. j \in Nat /\ j < z
          BY <2>6, <4>3
        <5> QED BY <2>6, <5>1
      <4> QED BY <3>3, <4>1, <4>2, <4>3
    <3>6. R = {} => z \in Greatest(K)
      BY <3>4, <3>5 DEF Greatest
    <3>7. ASSUME NEW x \in R PROVE x >= z
      <4>1. x \in B /\ x \in Nat
        BY <3>3, <3>4
      <4>2. z < x
        BY <2>6, <4>1
      <4> QED BY <2>6, <4>1, <4>2
    <3>8. ASSUME NEW x \in Greatest(R) PROVE x \in Greatest(K)
      <4>1. x \in R /\ x \in K /\ x \in Nat /\ x >= z
        BY <3>4, <3>7 DEF Greatest
      <4>2. ASSUME NEW j \in K PROVE x >= j
        BY <2>6, <3>4, <3>5, <4>1, <3>8 DEF Greatest
      <4> QED BY <4>1, <4>2 DEF Greatest
    <3>9. Found(f[u.r][u], u, R, Greatest(R))
      BY <2>3, <3>2
    <3>10. z = u.key /\ u # Void /\ K # {}
      BY <1>4, <2>5, <3>4
    <3>11. Found(f[u][t], t, K, Greatest(K))
      BY <3>1, <3>6, <3>8, <3>9, <3>10 DEF Found
    <3> QED BY <3>2, <3>11
  <2>8. CASE z = k
    <3>1. f[u][t] = u
      BY <1>0, <2>4, <2>5, <2>6, <2>8
    <3>2. PICK K, R, P : K = W(u) /\ R = W(u.r) /\ P = W(u.l)
      OBVIOUS
    <3>3. K = {j \in (A \cup {z} \cup B) : j <= k} /\ R = {j \in B : j <= k}
              /\ P = {j \in A : j <= k}
      BY <2>5, <2>6, <3>2
    <3>4. K # {} /\ z \in Greatest(K)
      BY <1>0, <2>6, <2>8, <3>3 DEF Least, Greatest
    <3> QED BY <1>4, <2>5, <3>1, <3>2, <3>4 DEF Found
  <2>9. CASE z > k
    <3>1. f[u][t] = f[u.l][t]
      BY <1>0, <2>4, <2>5, <2>6, <2>9
    <3>2. PICK K, R, P : K = W(u) /\ R = W(u.r) /\ P = W(u.l)
      OBVIOUS
    <3>3. K = {j \in (A \cup {z} \cup B) : j <= k} /\ R = {j \in B : j <= k}
              /\ P = {j \in A : j <= k}
      BY <2>5, <2>6, <3>2
    <3>0. (\A b \in B : k < b) /\ ~(z <= k)
      <4>1. ASSUME NEW b \in B PROVE k < b
        <5>1. b \in Nat /\ z < b
          BY <2>6
        <5> QED BY <1>0, <2>6, <2>9, <5>1
      <4>2. ~(z <= k)
        BY <1>0, <2>6, <2>9
      <4> QED BY <4>1, <4>2
    <3>4. P \subseteq K
      BY <3>3
    <3>12. ASSUME NEW j \in K PROVE j \in P
      <4>1. j # z
        BY <3>0, <3>3
      <4>2. j \notin B
        BY <1>0, <2>6, <3>0, <3>3
      <4> QED BY <3>3, <4>1, <4>2
    <3>5. Found(f[u.l][t], t, P, Greatest(P))
      BY <2>3, <3>2
    <3>6. K = P
      BY <3>4, <3>12
    <3> QED BY <3>1, <3>2, <3>5, <3>6
  <2> QED BY <1>0, <2>6, <2>7, <2>8, <2>9
<1>5. \A u \in Trees : u \in S
  <2> HIDE DEF S
  <2> QED BY <1>3, <1>4, AllTrees
<1>6. PICK q, V : q = f[sp0][Void] /\ V = W(sp0)
  OBVIOUS
<1>7. Found(q, Void, V, Greatest(V))
  BY <1>5, <1>6, TreesIs DEF Sound
<1>8. V = {} => Greatest(V) = {}
  BY DEF Least, Greatest
<1>9. Answers(q, Greatest(V))
  BY <1>7, <1>8, FoundAnswers
<1>10. BB_Tree_LTEQ(sp0, k) = q
  BY <1>1, <1>6 DEF BB_Tree_LTEQ, Sound
<1> QED BY <1>6, <1>9, <1>10

LEMMA MAXIs ==
  ASSUME NEW sp0, Sound(sp0)
  PROVE  Answers(BB_Tree_MAX(sp0), Greatest(Keys(sp0)))
<1> DEFINE S == {t \in Trees : Sound(t) /\ t # Void =>
                   BB_Tree_MAX(t) # Void /\ BB_Tree_MAX(t).key \in Greatest(Keys(t))}
<1>1. Void \in S
  BY TreesIs
<1>2. ASSUME NEW t \in Trees, t # Void, t.l \in S, t.r \in S PROVE t \in S
  <2>1. SUFFICES ASSUME Sound(t) PROVE BB_Tree_MAX(t) # Void
            /\ BB_Tree_MAX(t).key \in Greatest(Keys(t))
    BY <1>2
  <2>2. /\ Sound(t.l) /\ Sound(t.r) /\ Splits(t.l, t.key, t.r) /\ t.key \in Nat
        /\ Keys(t) = Keys(t.l) \cup {t.key} \cup Keys(t.r)
    BY <1>2, <2>1, SoundParts
  <2>3. Keys(t.l) \subseteq Nat /\ Keys(t.r) \subseteq Nat
    BY <2>2, KeysNat
  <2>4. BB_Tree_MAX(t) = IF BB_Tree_MAX(t.r) # Void THEN BB_Tree_MAX(t.r) ELSE t
    BY <1>2, MAXRec
  <2>5. CASE t.r = Void
    <3>1. BB_Tree_MAX(t) = t
      BY <2>4, <2>5, MAXRec
    <3>2. t.key \in Greatest(Keys(t))
      BY <2>2, <2>3, <2>5, VoidIs DEF Splits, Greatest
    <3> QED BY <1>2, <3>1, <3>2
  <2>6. CASE t.r # Void
    <3>1. PICK q : q = BB_Tree_MAX(t.r)
      OBVIOUS
    <3>2. q # Void /\ q.key \in Greatest(Keys(t.r))
      BY <1>2, <2>2, <2>6, <3>1
    <3>3. q.key \in Greatest(Keys(t))
      BY <2>2, <2>3, <3>2 DEF Splits, Greatest
    <3> QED BY <2>4, <3>1, <3>2, <3>3
  <2> QED BY <2>5, <2>6
<1>3. \A t \in Trees : t \in S
  <2> HIDE DEF S
  <2> QED BY <1>1, <1>2, AllTrees
<1>4. CASE sp0 = Void
  BY <1>4, MAXRec, VoidIs DEF Answers, Greatest
<1>5. CASE sp0 # Void
  BY <1>3, <1>5 DEF Answers, Sound
<1> QED BY <1>4, <1>5

LEMMA MINIs ==
  ASSUME NEW sp0, Sound(sp0)
  PROVE  Answers(BB_Tree_MIN(sp0), Least(Keys(sp0)))
<1> DEFINE S == {t \in Trees : Sound(t) /\ t # Void =>
                   BB_Tree_MIN(t) # Void /\ BB_Tree_MIN(t).key \in Least(Keys(t))}
<1>1. Void \in S
  BY TreesIs
<1>2. ASSUME NEW t \in Trees, t # Void, t.l \in S, t.r \in S PROVE t \in S
  <2>1. SUFFICES ASSUME Sound(t) PROVE BB_Tree_MIN(t) # Void
            /\ BB_Tree_MIN(t).key \in Least(Keys(t))
    BY <1>2
  <2>2. /\ Sound(t.l) /\ Sound(t.r) /\ Splits(t.l, t.key, t.r) /\ t.key \in Nat
        /\ Keys(t) = Keys(t.l) \cup {t.key} \cup Keys(t.r)
    BY <1>2, <2>1, SoundParts
  <2>3. Keys(t.l) \subseteq Nat /\ Keys(t.r) \subseteq Nat
    BY <2>2, KeysNat
  <2>4. BB_Tree_MIN(t) = IF BB_Tree_MIN(t.l) # Void THEN BB_Tree_MIN(t.l) ELSE t
    BY <1>2, MINRec
  <2>5. CASE t.l = Void
    <3>1. BB_Tree_MIN(t) = t
      BY <2>4, <2>5, MINRec
    <3>2. t.key \in Least(Keys(t))
      BY <2>2, <2>3, <2>5, VoidIs DEF Splits, Least
    <3> QED BY <1>2, <3>1, <3>2
  <2>6. CASE t.l # Void
    <3>1. PICK q : q = BB_Tree_MIN(t.l)
      OBVIOUS
    <3>2. q # Void /\ q.key \in Least(Keys(t.l))
      BY <1>2, <2>2, <2>6, <3>1
    <3>3. q.key \in Least(Keys(t))
      BY <2>2, <2>3, <3>2 DEF Splits, Least
    <3> QED BY <2>4, <3>1, <3>2, <3>3
  <2> QED BY <2>5, <2>6
<1>3. \A t \in Trees : t \in S
  <2> HIDE DEF S
  <2> QED BY <1>1, <1>2, AllTrees
<1>4. CASE sp0 = Void
  BY <1>4, MINRec, VoidIs DEF Answers, Least
<1>5. CASE sp0 # Void
  BY <1>3, <1>5 DEF Answers, Sound
<1> QED BY <1>4, <1>5

-----------------------------------------------------------------------------
(* Trees as their users see them. *)

TreeInv ==
  /\ Sound(sp) /\ Keys(sp) = held
  /\ flg \in Nat /\ told = TRUE /\ (flg = 0 => Flat(sp))

LEMMA WithinSound == \A t \in Trees : Sound(t) => \A u \in Subtrees(t) : Sound(u)
<1> DEFINE S == {t \in Trees : Sound(t) => \A u \in Subtrees(t) : Sound(u)}
<1>1. Void \in S
  BY TreesIs, SubtreesRec
<1>2. ASSUME NEW t \in Trees, t # Void, t.l \in S, t.r \in S PROVE t \in S
  <2>1. Subtrees(t) = {t} \cup Subtrees(t.l) \cup Subtrees(t.r)
    BY <1>2, SubtreesRec
  <2> QED BY <1>2, <2>1, SoundParts
<1>3. \A t \in Trees : t \in S
  <2> HIDE DEF S
  <2> QED BY <1>1, <1>2, AllTrees
<1> QED BY <1>3

LEMMA TreeStart == TreeInit => TreeInv
BY VoidIs DEF TreeInit, TreeInv

LEMMA TreeStep == TreeInv /\ [TreeNext]_treeVars => TreeInv'
<1> SUFFICES ASSUME TreeInv, [TreeNext]_treeVars PROVE TreeInv'
  OBVIOUS
<1>1. Sound(sp) /\ Keys(sp) = held /\ sp \in Trees /\ flg \in Nat /\ told = TRUE
          /\ (flg = 0 => Flat(sp))
  BY DEF TreeInv, Sound
<1>2. PICK s1, h1, f1, t1 : s1 = sp' /\ h1 = held' /\ f1 = flg' /\ t1 = told'
  OBVIOUS
<1>3. Sound(s1) /\ Keys(s1) = h1 /\ f1 \in Nat /\ t1 = TRUE /\ (f1 = 0 => Flat(s1))
  <2>1. ASSUME NEW k \in TreeKeys, AddKey(k)
        PROVE  Sound(s1) /\ Keys(s1) = h1 /\ f1 \in Nat /\ t1 = TRUE /\ (f1 = 0 => Flat(s1))
    <3>1. Enlarged(s1, sp, k)
      BY <1>1, <1>2, <2>1, InsertIs DEF AddKey
    <3>2. h1 = held \cup {k} /\ f1 = flg /\ t1 = told
      BY <1>2, <2>1 DEF AddKey
    <3> QED BY <1>1, <3>1, <3>2 DEF Enlarged
  <2>2. ASSUME NEW k \in TreeKeys, DelKey(k)
        PROVE  Sound(s1) /\ Keys(s1) = h1 /\ f1 \in Nat /\ t1 = TRUE /\ (f1 = 0 => Flat(s1))
    <3>1. PICK d : d = BB_Tree_Del(sp, k)
      OBVIOUS
    <3>2. Gone(d, sp, k)
      BY <1>1, <3>1, DelIs
    <3>3. /\ s1 = d.root /\ f1 = Deeper(flg, d.flg) /\ h1 = held \ ({k} \ Kept)
          /\ t1 = (told /\ d.flg = (IF k \in Kept THEN 0 ELSE Level(sp, k))
                    /\ (d.flg = 0 => d.root = sp))
      BY <1>2, <2>2, <3>1 DEF DelKey
    <3>4. d.flg = (IF k \in Kept THEN 0 ELSE Level(sp, k)) /\ (d.flg = 0 => d.root = sp)
              /\ d.flg \in Nat
      BY <3>2 DEF Gone
    <3>5. t1 = TRUE
      BY <1>1, <3>3, <3>4
    <3>6. f1 \in Nat /\ (f1 = 0 => flg = 0 /\ d.flg = 0)
      BY <1>1, <3>3, <3>4 DEF Deeper
    <3>7. f1 = 0 => Flat(s1)
      BY <1>1, <3>3, <3>4, <3>6
    <3> QED BY <1>1, <3>2, <3>3, <3>5, <3>6, <3>7 DEF Gone
  <2>3. CASE UNCHANGED treeVars
    BY <1>1, <1>2, <2>3 DEF treeVars
  <2> QED BY <2>1, <2>2, <2>3 DEF TreeNext
<1> QED BY <1>2, <1>3 DEF TreeInv

LEMMA TreeRightAt == TreeInv => TreeRight
<1> SUFFICES ASSUME TreeInv PROVE TreeRight
  OBVIOUS
<1>1. Sound(sp) /\ Keys(sp) = held /\ sp \in Trees /\ flg \in Nat /\ told = TRUE
          /\ (flg = 0 => Flat(sp))
  BY DEF TreeInv, Sound
<1>2. ScansHeld
  <2>1. PICK s : s = BB_Tree_Scan(sp)
    OBVIOUS
  <2>2. Listed(s, held)
    BY <1>1, <2>1, ScanIs
  <2>3. DOMAIN s = 1 .. Len(s) /\ {s[i] : i \in DOMAIN s} = held
            /\ \A i \in DOMAIN s : i > 1 => s[i - 1] < s[i]
    BY <2>2 DEF Listed
  <2> QED BY <2>1, <2>3 DEF ScansHeld
<1>3. DepthsTrue
  <2>1. ASSUME NEW t \in Subtrees(sp) PROVE t.ld = Height(t.l) /\ t.rd = Height(t.r)
    <3>1. Sound(t) /\ t # Void
      BY <1>1, WithinSound, SubtreesAre
    <3>2. Sound(t.l) /\ Sound(t.r) /\ t.ld = Depth(t.l) /\ t.rd = Depth(t.r)
      BY <3>1, SoundParts
    <3> QED BY <3>2, HeightIs DEF Sound
  <2> QED BY <2>1 DEF DepthsTrue
<1>4. InsertsBalance
  BY <1>1 DEF InsertsBalance, Balanced, Flat
<1>5. QueriesRight
  <2>1. ASSUME NEW k \in TreeKeys
        PROVE  /\ Answers(BB_Tree_Find(sp, k), held \cap {k})
               /\ Answers(BB_Tree_GT(sp, k), Least({j \in held : j > k}))
               /\ Answers(BB_Tree_GTEQ(sp, k), Least({j \in held : j >= k}))
               /\ Answers(BB_Tree_LT(sp, k), Greatest({j \in held : j < k}))
               /\ Answers(BB_Tree_LTEQ(sp, k), Greatest({j \in held : j <= k}))
    BY <1>1, FindIs, GTIs, GTEQIs, LTIs, LTEQIs
  <2>2. Answers(BB_Tree_MAX(sp), Greatest(held)) /\ Answers(BB_Tree_MIN(sp), Least(held))
    BY <1>1, MAXIs, MINIs
  <2>3. BB_Tree_Count(sp) = Cardinality(held)
    BY <1>1, CountIs
  <2> QED BY <2>1, <2>2, <2>3 DEF QueriesRight
<1> QED BY <1>1, <1>2, <1>3, <1>4, <1>5 DEF TreeRight, DeletesReported

\* After any insertions and deletions of any finite set of numbers, whichever of them
\* user_free refuses, a balanced tree holds what was put in and not deleted, in order;
\* its stored depths are the heights of its sides; its sides differ by one level at most
\* if nothing was deleted; each query finds what it promises and each deletion reports
\* the level of what it deleted.
THEOREM TreeRightAlways == TreeSpec => []TreeRight
<1>1. TreeInit => TreeInv
  BY TreeStart
<1>2. TreeInv /\ [TreeNext]_treeVars => TreeInv'
  BY TreeStep
<1>3. TreeInv => TreeRight
  BY TreeRightAt
<1> QED BY <1>1, <1>2, <1>3, PTL DEF TreeSpec

-----------------------------------------------------------------------------
(* Searches in sorted arrays. *)

\* The array that is given, and what every search of it may rely on.
SearchInv ==
  /\ array \in Seq(Int) /\ order \in {1, -1} /\ key \in Int
  /\ \A i, j \in 1 .. Len(array) : i <= j => order * array[i] <= order * array[j]

LEMMA SortedPairs ==
  ASSUME NEW s \in Seq(Int), NEW o \in {1, -1}, Sorted(s, o)
  PROVE  \A i, j \in 1 .. Len(s) : i <= j => o * s[i] <= o * s[j]
<1>1. PICK n : n = Len(s) /\ n \in Nat
  OBVIOUS
<1> DEFINE S == {d \in Nat : \A i \in 1 .. n : i + d <= n => o * s[i] <= o * s[i + d]}
<1>2. 0 \in S
  <2>1. \A i \in 1 .. n : s[i] \in Int
    BY <1>1
  <2> QED BY <2>1
<1>3. ASSUME NEW d \in 0 .. n - 1, d \in S PROVE d + 1 \in S
  <2>1. SUFFICES ASSUME NEW i \in 1 .. n, i + (d + 1) <= n PROVE o * s[i] <= o * s[i + (d + 1)]
    OBVIOUS
  <2>2. PICK m : m = i + (d + 1)
    OBVIOUS
  <2>3. m \in 2 .. Len(s) /\ m - 1 = i + d /\ i + d <= n /\ m \in 1 .. n /\ m - 1 \in 1 .. n
    BY <1>1, <2>1, <2>2
  <2>4. o * (s[m] - s[m - 1]) >= 0
    BY <2>3 DEF Sorted
  <2>5. o * s[i] <= o * s[m - 1]
    BY <1>3, <2>3
  <2>6. s[m] \in Int /\ s[m - 1] \in Int /\ s[i] \in Int
    BY <1>1, <2>1, <2>3
  <2>7. o * s[m - 1] <= o * s[m]
    <3>1. CASE o = 1
      BY <2>4, <2>6, <3>1
    <3>2. CASE o = -1
      BY <2>4, <2>6, <3>2
    <3> QED BY <3>1, <3>2
  <2>8. o * s[i] \in Int /\ o * s[m - 1] \in Int /\ o * s[m] \in Int
    BY <2>6
  <2> QED BY <2>2, <2>5, <2>7, <2>8
<1>4. \A d \in 0 .. n : d \in S
  <2> HIDE DEF S
  <2> QED BY <1>1, <1>2, <1>3, AllNumbers
<1>5. ASSUME NEW i \in 1 .. n, NEW j \in 1 .. n, i <= j PROVE o * s[i] <= o * s[j]
  <2>1. PICK d : d = j - i
    OBVIOUS
  <2>2. d \in 0 .. n /\ i + d = j /\ i + d <= n
    BY <1>1, <1>5, <2>1
  <2>3. \A x \in 1 .. n : x + d <= n => o * s[x] <= o * s[x + d]
    BY <1>4, <2>2
  <2> QED BY <2>2, <2>3
<1> QED BY <1>1, <1>5

LEMMA SearchStart == SearchInit => SearchInv
<1> SUFFICES ASSUME SearchInit PROVE SearchInv
  OBVIOUS
<1>1. PICK a, o : a = array /\ o = order
  OBVIOUS
<1>2. a = <<>> /\ o = 1 /\ key = 0
  BY <1>1 DEF SearchInit
<1>3. a \in Seq(Int) /\ Len(a) = 0
  BY <1>2
<1> QED BY <1>1, <1>2, <1>3 DEF SearchInv

LEMMA SearchStep == SearchInv /\ [SearchNext]_searchVars => SearchInv'
<1> SUFFICES ASSUME SearchInv, [SearchNext]_searchVars PROVE SearchInv'
  OBVIOUS
<1>1. CASE Give
  <2>1. PICK o \in {1, -1}, s \in Arrays, k \in Values \cup {v + 1 : v \in Values} :
          Sorted(s, o) /\ array' = s /\ order' = o /\ key' = k
    BY <1>1 DEF Give
  <2>2. s \in Seq(Int) /\ k \in Int
    <3>1. PICK n \in 0 .. MaxLength : s \in [1 .. n -> Values]
      BY DEF Arrays
    <3>0. Values \subseteq Int /\ MaxLength \in Nat
      BY SearchAssumption
    <3>2. n \in Nat
      BY <3>0
    <3>3. s \in [1 .. n -> Int]
      BY <3>0, <3>1
    <3>4. s \in Seq(Int)
      BY <3>2, <3>3, SeqDef
    <3>5. CASE k \in Values
      BY <3>0, <3>4, <3>5
    <3>6. CASE k \in {v + 1 : v \in Values}
      <4>1. PICK v \in Values : k = v + 1
        BY <3>6
      <4> QED BY <3>0, <3>4, <4>1
    <3> QED BY <3>5, <3>6
  <2>3. \A i, j \in 1 .. Len(s) : i <= j => o * s[i] <= o * s[j]
    BY <2>1, <2>2, SortedPairs
  <2> QED BY <2>1, <2>2, <2>3 DEF SearchInv
<1>2. CASE UNCHANGED searchVars
  <2>1. PICK a, b, o, k : a = array /\ b = array' /\ o = order' /\ k = key'
    OBVIOUS
  <2>2. a = b /\ o = order /\ k = key
    BY <1>2, <2>1 DEF searchVars
  <2>3. b \in Seq(Int) /\ o \in {1, -1} /\ k \in Int
        /\ \A i, j \in 1 .. Len(b) : i <= j => o * b[i] <= o * b[j]
    BY <2>1, <2>2 DEF SearchInv
  <2> QED BY <2>1, <2>3 DEF SearchInv
<1> QED BY <1>1, <1>2 DEF SearchNext

LEMMA CompareUp ==
  ASSUME SearchInv
  PROVE  \A i, j \in Rows : compare(i) \in Int /\ (i <= j => compare(i) <= compare(j))
<1>1. PICK n : n = Len(array) /\ n \in Nat
  BY DEF SearchInv
<1>2. ASSUME NEW i \in Rows PROVE i + 1 \in 1 .. n /\ array[i + 1] \in Int
  BY <1>1 DEF SearchInv, Rows
<1>3. PICK a, o, k : a = array /\ o = order /\ k = key
  OBVIOUS
<1>4. o \in {1, -1} /\ k \in Int
  BY <1>3 DEF SearchInv
<1>5. ASSUME NEW x \in Int, NEW y \in Int
      PROVE  o * (x - k) \in Int /\ (o * x <= o * y => o * (x - k) <= o * (y - k))
  <2>1. CASE o = 1
    BY <1>4, <2>1
  <2>2. CASE o = -1
    BY <1>4, <2>2
  <2> QED BY <1>4, <2>1, <2>2
<1>6. ASSUME NEW i \in Rows, NEW j \in Rows
      PROVE compare(i) \in Int /\ (i <= j => compare(i) <= compare(j))
  <2>1. PICK x, y : x = a[i + 1] /\ y = a[j + 1]
    OBVIOUS
  <2>2. x \in Int /\ y \in Int
    BY <1>2, <1>3, <2>1
  <2>3. compare(i) = o * (x - k) /\ compare(j) = o * (y - k)
    BY <1>3, <2>1 DEF compare, At
  <2>4. i <= j => o * x <= o * y
    <3>1. i + 1 \in 1 .. Len(array) /\ j + 1 \in 1 .. Len(array) /\ (i <= j => i + 1 <= j + 1)
      BY <1>1, <1>2 DEF Rows
    <3> QED BY <1>3, <2>1, <3>1 DEF SearchInv
  <2> QED BY <1>5, <2>2, <2>3, <2>4
<1> QED BY <1>6

\* One turn of the loop, on what it makes of each part of the array.
HalvedOnce(f, l, h, result, stops, lefts, keeps) ==
  LET m == Middle(l, h)
      kept == IF m \in keeps THEN m ELSE result
  IN IF h < l THEN result
     ELSE IF m \in stops THEN m
     ELSE IF m \in lefts THEN f[l][m - 1][kept] ELSE f[m + 1][h][kept]
Lows == 0 .. Len(array)
Highs == -1 .. Len(array) - 1
HalvedBy(f, k, stops, lefts, keeps) ==
  \A l \in Lows, h, result \in Highs :
    h - l + 1 <= k => f[l][h][result] = HalvedOnce(f, l, h, result, stops, lefts, keeps)

LEMMA MiddleIs ==
  ASSUME NEW l \in Int, NEW h \in Int, l <= h
  PROVE  Middle(l, h) \in l .. h
<1>1. PICK d : d = h - l
  OBVIOUS
<1>2. d \in Nat /\ d \div 2 \in 0 .. d
  BY <1>1
<1> QED BY <1>1, <1>2 DEF Middle

LEMMA HalveRec ==
  ASSUME SearchInv, NEW stops, NEW lefts, NEW keeps
  PROVE  \E f : /\ Halve(stops, lefts, keeps) = f[0][Len(array) - 1][-1]
                /\ HalvedBy(f, Len(array), stops, lefts, keeps)
<1>1. PICK n : n = Len(array) /\ n \in Nat
  BY DEF SearchInv
<1>2. Lows = 0 .. n /\ Highs = -1 .. n - 1
  BY <1>1 DEF Lows, Highs
<1> DEFINE Once(f, l, h, r) == HalvedOnce(f, l, h, r, stops, lefts, keeps)
           Next(f) == [l \in Lows |-> [h \in Highs |-> [r \in Highs |-> Once(f, l, h, r)]]]
           S == {k \in Nat : \E f : HalvedBy(f, k, stops, lefts, keeps)}
\* Once more is right for one element more.
<1>3. ASSUME NEW k \in Nat, NEW f, HalvedBy(f, k, stops, lefts, keeps)
      PROVE  /\ HalvedBy(Next(f), k + 1, stops, lefts, keeps)
             /\ \A l \in Lows, h, r \in Highs : h - l + 1 <= k + 1 => Once(Next(f), l, h, r) = Once(f, l, h, r)
  <2>1. PICK g : g = Next(f)
    OBVIOUS
  <2>2. \A l \in Lows, h, r \in Highs : g[l][h][r] = Once(f, l, h, r)
    BY <2>1
  <2>3. \A l \in Lows, h, r \in Highs : h - l + 1 <= k => g[l][h][r] = f[l][h][r]
    BY <1>3, <2>2 DEF HalvedBy
  <2>4. ASSUME NEW l \in Lows, NEW h \in Highs, NEW r \in Highs, h - l + 1 <= k + 1
        PROVE  Once(g, l, h, r) = Once(f, l, h, r)
    <3>1. CASE h < l
      BY <3>1 DEF HalvedOnce
    <3>2. CASE ~(h < l)
      <4>1. PICK m : m = Middle(l, h)
        OBVIOUS
      <4>2. m \in l .. h
        BY <1>2, <3>2, <4>1, MiddleIs
      <4>3. PICK kept : kept = IF m \in keeps THEN m ELSE r
        OBVIOUS
      <4>4. m \in Highs /\ m - 1 \in Highs /\ m + 1 \in Lows
        BY <1>1, <1>2, <4>2
      <4>c. kept \in Highs
        BY <4>3, <4>4
      <4>5. (m - 1) - l + 1 <= k /\ h - (m + 1) + 1 <= k
        BY <1>2, <2>4, <4>2
      <4>6. g[l][m - 1][kept] = f[l][m - 1][kept] /\ g[m + 1][h][kept] = f[m + 1][h][kept]
        BY <2>3, <4>4, <4>5, <4>c
      <4> QED BY <3>2, <4>1, <4>3, <4>6 DEF HalvedOnce
    <3> QED BY <3>1, <3>2
  <2>5. HalvedBy(g, k + 1, stops, lefts, keeps)
    BY <2>2, <2>4 DEF HalvedBy
  <2> QED BY <2>1, <2>4, <2>5
<1>4. 0 \in S
  <2>1. PICK z : z = [l \in Lows |-> [h \in Highs |-> [r \in Highs |-> r]]]
    OBVIOUS
  <2>2. HalvedBy(z, 0, stops, lefts, keeps)
    BY <1>2, <2>1 DEF HalvedBy, HalvedOnce
  <2> QED BY <2>2
<1>5. ASSUME NEW k \in 0 .. n - 1, k \in S PROVE k + 1 \in S
  <2>1. PICK f : HalvedBy(f, k, stops, lefts, keeps)
    BY <1>5
  <2>2. \E g : HalvedBy(g, k + 1, stops, lefts, keeps)
    <3> HIDE DEF Next, Once
    <3> QED BY <1>3, <2>1
  <2> QED BY <2>2
<1>6. PICK f : HalvedBy(f, n, stops, lefts, keeps)
  <2>1. \A k \in 0 .. n : k \in S
    <3> HIDE DEF S
    <3> QED BY <1>1, <1>4, <1>5, AllNumbers
  <2> QED BY <1>1, <2>1
<1>7. PICK g : g = Next(f)
  OBVIOUS
<1>8. \A l \in Lows, h \in Highs : h - l + 1 <= n
  BY <1>1, <1>2
<1>9. g = Next(g)
  <2>1. \A l \in Lows, h, r \in Highs : Once(g, l, h, r) = Once(f, l, h, r)
    <3>1. \A l \in Lows, h, r \in Highs : h - l + 1 <= n + 1 => Once(g, l, h, r) = Once(f, l, h, r)
      <4> HIDE DEF Next, Once
      <4> QED BY <1>1, <1>3, <1>6, <1>7
    <3>2. \A l \in Lows, h \in Highs : h - l + 1 <= n + 1
      BY <1>1, <1>2
    <3> HIDE DEF Once
    <3> QED BY <3>1, <3>2
  <2>2. Next(g) = Next(f)
    <3> HIDE DEF Once
    <3> QED BY <2>1
  <2> QED BY <1>7, <2>2
<1>10. PICK c : c = CHOOSE e : e = Next(e)
  OBVIOUS
<1>11. c = Next(c)
  <2> HIDE DEF Next
  <2> QED BY <1>9, <1>10
<1>12. HalvedBy(c, n, stops, lefts, keeps)
  <2>1. \A l \in Lows, h, r \in Highs : c[l][h][r] = Once(c, l, h, r)
    BY <1>11
  <2> QED BY <2>1 DEF HalvedBy
<1>13. Halve(stops, lefts, keeps) = c[0][Len(array) - 1][-1]
  BY <1>10 DEF Halve, HalvedOnce, Lows, Highs
<1> QED BY <1>1, <1>12, <1>13

LEMMA HalveStops ==
  ASSUME SearchInv, NEW stops, NEW lefts, NEW keeps, stops \subseteq Rows, keeps \subseteq Rows,
         \A m \in Rows, j \in stops : m \notin stops => (m \in lefts => j < m) /\ (m \notin lefts => m < j)
  PROVE  /\ stops # {} => Halve(stops, lefts, keeps) \in stops
         /\ stops = {} /\ keeps = {} => Halve(stops, lefts, keeps) = -1
<1>1. PICK n : n = Len(array) /\ n \in Nat
  BY DEF SearchInv
<1>2. Lows = 0 .. n /\ Highs = -1 .. n - 1 /\ Rows = 0 .. n - 1
  BY <1>1 DEF Lows, Highs, Rows
<1>4. PICK f : Halve(stops, lefts, keeps) = f[0][Len(array) - 1][-1] /\ HalvedBy(f, Len(array), stops, lefts, keeps)
  BY HalveRec
<1> DEFINE Right(l, h, q, r) == IF \E j \in stops : l <= j /\ j <= h THEN q \in stops ELSE keeps = {} => q = r
           S == {k \in Nat : \A l \in Lows, h, r \in Highs : h - l + 1 <= k => Right(l, h, f[l][h][r], r)}
<1>5. ASSUME NEW l \in Lows, NEW h \in Highs, NEW r \in Highs, h < l PROVE Right(l, h, f[l][h][r], r)
  <2>1. h - l + 1 <= n
    BY <1>1, <1>2, <1>5
  <2>2. f[l][h][r] = r
    BY <1>1, <1>4, <1>5, <2>1 DEF HalvedBy, HalvedOnce
  <2>3. \A j \in stops : ~(l <= j /\ j <= h)
    BY <1>2, <1>5
  <2> QED BY <2>2, <2>3
<1>6. 0 \in S
  <2>1. \A l \in Lows, h \in Highs : h - l + 1 <= 0 => h < l
    BY <1>2
  <2> HIDE DEF Right
  <2> QED BY <1>5, <2>1
<1>7. ASSUME NEW k \in 0 .. n - 1, k \in S PROVE k + 1 \in S
  <2>1. SUFFICES ASSUME NEW l \in Lows, NEW h \in Highs, NEW r \in Highs, h - l + 1 <= k + 1
                 PROVE  Right(l, h, f[l][h][r], r)
    BY <1>1
  <2>2. CASE h < l
    BY <1>5, <2>2
  <2>3. CASE ~(h < l)
    <3>1. PICK m : m = Middle(l, h)
      OBVIOUS
    <3>2. m \in l .. h /\ m \in Rows /\ m \in Highs /\ m - 1 \in Highs /\ m + 1 \in Lows
      <4>1. l \in Int /\ h \in Int /\ l <= h
        BY <1>1, <1>2, <2>3
      <4>2. m \in l .. h
        BY <3>1, <4>1, MiddleIs
      <4> QED BY <1>1, <1>2, <4>2
    <3>3. (m - 1) - l + 1 <= k /\ h - (m + 1) + 1 <= k /\ h - l + 1 <= n
      BY <1>1, <1>2, <2>1, <3>2
    <3>9. PICK kept : kept = IF m \in keeps THEN m ELSE r
      OBVIOUS
    <3>10. kept \in Highs /\ (keeps = {} => kept = r)
      BY <3>2, <3>9
    <3>4. f[l][h][r] = IF m \in stops THEN m ELSE IF m \in lefts THEN f[l][m - 1][kept] ELSE f[m + 1][h][kept]
      BY <1>1, <1>4, <2>3, <3>1, <3>3, <3>9 DEF HalvedBy, HalvedOnce
    <3>5. Right(l, m - 1, f[l][m - 1][kept], kept) /\ Right(m + 1, h, f[m + 1][h][kept], kept)
      <4> HIDE DEF Right
      <4> QED BY <1>7, <3>2, <3>3, <3>10
    <3>6. CASE m \in stops
      BY <3>2, <3>4, <3>6
    <3>7. CASE m \notin stops /\ m \in lefts
      <4>1. \A j \in stops : j < m
        BY <3>2, <3>7
      <4>2. (\E j \in stops : l <= j /\ j <= h) <=> (\E j \in stops : l <= j /\ j <= m - 1)
        <5>1. ASSUME NEW j \in stops PROVE (l <= j /\ j <= h) <=> (l <= j /\ j <= m - 1)
          <6>1. j \in Int /\ j < m
            BY <1>2, <4>1
          <6> QED BY <1>2, <3>2, <6>1
        <5> QED BY <5>1
      <4> QED BY <3>4, <3>5, <3>7, <3>10, <4>2
    <3>8. CASE m \notin stops /\ m \notin lefts
      <4>1. \A j \in stops : m < j
        BY <3>2, <3>8
      <4>2. (\E j \in stops : l <= j /\ j <= h) <=> (\E j \in stops : m + 1 <= j /\ j <= h)
        <5>1. ASSUME NEW j \in stops PROVE (l <= j /\ j <= h) <=> (m + 1 <= j /\ j <= h)
          <6>1. j \in Int /\ m < j
            BY <1>2, <4>1
          <6> QED BY <1>2, <3>2, <6>1
        <5> QED BY <5>1
      <4> QED BY <3>4, <3>5, <3>8, <3>10, <4>2
    <3> QED BY <3>6, <3>7, <3>8
  <2> QED BY <2>2, <2>3
<1>8. Right(0, n - 1, f[0][n - 1][-1], -1)
  <2>1. \A k \in 0 .. n : k \in S
    <3> HIDE DEF S
    <3> QED BY <1>1, <1>6, <1>7, AllNumbers
  <2>2. n \in S
    BY <1>1, <2>1
  <2>3. 0 \in Lows /\ n - 1 \in Highs /\ -1 \in Highs /\ (n - 1) - 0 + 1 <= n
    BY <1>1, <1>2
  <2> HIDE DEF Right
  <2> QED BY <2>2, <2>3
<1>9. \A j \in stops : 0 <= j /\ j <= n - 1
  BY <1>2
<1> QED BY <1>1, <1>4, <1>8, <1>9

\* With nothing to stop at, and keeps on the right, a search ends with the first of keeps
\* ...
LEMMA HalveLeast ==
  ASSUME SearchInv, NEW stops, stops = {}, NEW lefts, NEW keeps, keeps \subseteq Rows,
         \A m \in Rows, j \in keeps : (m \in lefts /\ m < j => m \in keeps) /\ (m \notin lefts => m < j)
  PROVE  /\ keeps # {} => Halve(stops, lefts, keeps) \in keeps /\ \A j \in keeps : Halve(stops, lefts, keeps) <= j
         /\ keeps = {} => Halve(stops, lefts, keeps) = -1
<1>1. PICK n : n = Len(array) /\ n \in Nat
  BY DEF SearchInv
<1>2. Lows = 0 .. n /\ Highs = -1 .. n - 1 /\ Rows = 0 .. n - 1
  BY <1>1 DEF Lows, Highs, Rows
<1>4. PICK f : Halve(stops, lefts, keeps) = f[0][Len(array) - 1][-1] /\ HalvedBy(f, Len(array), stops, lefts, keeps)
  BY HalveRec
<1> DEFINE Right(l, h, q, r) == /\ (\A j \in keeps : ~(l <= j /\ j <= h)) => q = r
                                /\ \A j \in keeps : l <= j /\ j <= h => q \in keeps /\ q \in l .. h /\ q <= j
           S == {k \in Nat : \A l \in Lows, h, r \in Highs : h - l + 1 <= k => Right(l, h, f[l][h][r], r)}
<1>5. ASSUME NEW l \in Lows, NEW h \in Highs, NEW r \in Highs, h < l PROVE Right(l, h, f[l][h][r], r)
  <2>1. h - l + 1 <= n
    BY <1>1, <1>2, <1>5
  <2>2. f[l][h][r] = r
    BY <1>1, <1>4, <1>5, <2>1 DEF HalvedBy, HalvedOnce
  <2>3. \A j \in keeps : ~(l <= j /\ j <= h)
    BY <1>2, <1>5
  <2> QED BY <2>2, <2>3
<1>6. 0 \in S
  <2>1. \A l \in Lows, h \in Highs : h - l + 1 <= 0 => h < l
    BY <1>2
  <2> HIDE DEF Right
  <2> QED BY <1>5, <2>1
<1>7. ASSUME NEW k \in 0 .. n - 1, k \in S PROVE k + 1 \in S
  <2>1. SUFFICES ASSUME NEW l \in Lows, NEW h \in Highs, NEW r \in Highs, h - l + 1 <= k + 1
                 PROVE  Right(l, h, f[l][h][r], r)
    BY <1>1
  <2>2. CASE h < l
    BY <1>5, <2>2
  <2>3. CASE ~(h < l)
    <3>1. PICK m : m = Middle(l, h)
      OBVIOUS
    <3>2. m \in l .. h /\ m \in Rows /\ m \in Highs /\ m - 1 \in Highs /\ m + 1 \in Lows
      <4>1. l \in Int /\ h \in Int /\ l <= h
        BY <1>1, <1>2, <2>3
      <4>2. m \in l .. h
        BY <3>1, <4>1, MiddleIs
      <4> QED BY <1>1, <1>2, <4>2
    <3>3. (m - 1) - l + 1 <= k /\ h - (m + 1) + 1 <= k /\ h - l + 1 <= n
      BY <1>1, <1>2, <2>1, <3>2
    <3>4. PICK kept : kept = IF m \in keeps THEN m ELSE r
      OBVIOUS
    <3>5. kept \in Highs
      BY <3>2, <3>4
    <3>6. f[l][h][r] = IF m \in lefts THEN f[l][m - 1][kept] ELSE f[m + 1][h][kept]
      BY <1>1, <1>4, <2>3, <3>1, <3>3, <3>4 DEF HalvedBy, HalvedOnce
    <3>7. PICK u, v : u = f[l][m - 1][kept] /\ v = f[m + 1][h][kept]
      OBVIOUS
    <3>8. Right(l, m - 1, u, kept) /\ Right(m + 1, h, v, kept)
      <4> HIDE DEF Right
      <4> QED BY <1>7, <3>2, <3>3, <3>5, <3>7
    <3>9. \A j \in keeps : j \in Int
      BY <1>2
    <3>10. l \in Int /\ h \in Int /\ m \in Int /\ l <= m /\ m <= h
      BY <1>1, <1>2, <3>2
    <3>11. CASE m \in lefts
      <4>1. f[l][h][r] = u
        BY <3>6, <3>7, <3>11
      <4>2. CASE \E j \in keeps : l <= j /\ j <= m - 1
        <5>1. u \in keeps /\ u \in l .. m - 1 /\ \A j \in keeps : l <= j /\ j <= m - 1 => u <= j
          BY <3>8, <4>2
        <5>2. u \in l .. h /\ u < m
          BY <3>10, <5>1
        <5>3. ASSUME NEW j \in keeps, l <= j, j <= h PROVE u <= j
          <6>1. CASE j <= m - 1
            BY <5>1, <5>3, <6>1
          <6>2. CASE ~(j <= m - 1)
            BY <3>9, <3>10, <5>2, <6>2
          <6> QED BY <6>1, <6>2
        <5>4. ~(\A j \in keeps : ~(l <= j /\ j <= h))
          BY <5>1, <5>2
        <5> QED BY <4>1, <5>1, <5>2, <5>3, <5>4
      <4>3. CASE ~(\E j \in keeps : l <= j /\ j <= m - 1)
        <5>1. u = kept
          BY <3>8, <4>3
        <5>2. CASE m \in keeps
          <6>1. u = m
            BY <3>4, <5>1, <5>2
          <6>2. ASSUME NEW j \in keeps, l <= j, j <= h PROVE m <= j
            BY <3>9, <3>10, <4>3, <6>2
          <6> QED BY <3>10, <4>1, <5>2, <6>1, <6>2
        <5>3. CASE m \notin keeps
          <6>1. u = r
            BY <3>4, <5>1, <5>3
          <6>2. ASSUME NEW j \in keeps, l <= j, j <= h PROVE FALSE
            <7>1. j <= m
              BY <3>2, <3>9, <3>10, <3>11, <5>3
            <7>2. j # m
              BY <5>3
            <7> QED BY <3>9, <3>10, <4>3, <6>2, <7>1, <7>2
          <6> QED BY <4>1, <6>1, <6>2
        <5> QED BY <5>2, <5>3
      <4> QED BY <4>2, <4>3
    <3>12. CASE m \notin lefts
      <4>1. f[l][h][r] = v
        BY <3>6, <3>7, <3>12
      <4>2. \A j \in keeps : m < j
        BY <3>2, <3>12
      <4>3. kept = r
        BY <3>4, <3>10, <4>2
      <4>4. ASSUME NEW j \in keeps PROVE (l <= j /\ j <= h) <=> (m + 1 <= j /\ j <= h)
        <5>1. j \in Int /\ m < j
          BY <3>9, <4>2
        <5> QED BY <3>10, <5>1
      <4>5. v \in m + 1 .. h => v \in l .. h
        BY <3>10
      <4> QED BY <3>8, <4>1, <4>3, <4>4, <4>5
    <3> QED BY <3>11, <3>12
  <2> QED BY <2>2, <2>3
<1>8. Right(0, n - 1, f[0][n - 1][-1], -1)
  <2>1. \A k \in 0 .. n : k \in S
    <3> HIDE DEF S
    <3> QED BY <1>1, <1>6, <1>7, AllNumbers
  <2>2. n \in S
    BY <1>1, <2>1
  <2>3. 0 \in Lows /\ n - 1 \in Highs /\ -1 \in Highs /\ (n - 1) - 0 + 1 <= n
    BY <1>1, <1>2
  <2> HIDE DEF Right
  <2> QED BY <2>2, <2>3
<1>9. \A j \in keeps : 0 <= j /\ j <= n - 1
  BY <1>2
<1> QED BY <1>1, <1>4, <1>8, <1>9

\* ... and with all but lefts on the left, with the last of them.
LEMMA HalveGreatest ==
  ASSUME SearchInv, NEW stops, stops = {}, NEW lefts, NEW keeps, keeps \subseteq Rows,
         \A m \in Rows, j \in keeps : m \in lefts => j < m,
         \A m \in Rows : m \notin lefts => m \in keeps
  PROVE  /\ keeps # {} => Halve(stops, lefts, keeps) \in keeps /\ \A j \in keeps : Halve(stops, lefts, keeps) >= j
         /\ keeps = {} => Halve(stops, lefts, keeps) = -1
<1>1. PICK n : n = Len(array) /\ n \in Nat
  BY DEF SearchInv
<1>2. Lows = 0 .. n /\ Highs = -1 .. n - 1 /\ Rows = 0 .. n - 1
  BY <1>1 DEF Lows, Highs, Rows
<1>4. PICK f : Halve(stops, lefts, keeps) = f[0][Len(array) - 1][-1] /\ HalvedBy(f, Len(array), stops, lefts, keeps)
  BY HalveRec
<1> DEFINE Right(l, h, q, r) == /\ (\A j \in keeps : ~(l <= j /\ j <= h)) => q = r
                                /\ \A j \in keeps : l <= j /\ j <= h => q \in keeps /\ q \in l .. h /\ q >= j
           S == {k \in Nat : \A l \in Lows, h, r \in Highs : h - l + 1 <= k => Right(l, h, f[l][h][r], r)}
<1>5. ASSUME NEW l \in Lows, NEW h \in Highs, NEW r \in Highs, h < l PROVE Right(l, h, f[l][h][r], r)
  <2>1. h - l + 1 <= n
    BY <1>1, <1>2, <1>5
  <2>2. f[l][h][r] = r
    BY <1>1, <1>4, <1>5, <2>1 DEF HalvedBy, HalvedOnce
  <2>3. \A j \in keeps : ~(l <= j /\ j <= h)
    BY <1>2, <1>5
  <2> QED BY <2>2, <2>3
<1>6. 0 \in S
  <2>1. \A l \in Lows, h \in Highs : h - l + 1 <= 0 => h < l
    BY <1>2
  <2> HIDE DEF Right
  <2> QED BY <1>5, <2>1
<1>7. ASSUME NEW k \in 0 .. n - 1, k \in S PROVE k + 1 \in S
  <2>1. SUFFICES ASSUME NEW l \in Lows, NEW h \in Highs, NEW r \in Highs, h - l + 1 <= k + 1
                 PROVE  Right(l, h, f[l][h][r], r)
    BY <1>1
  <2>2. CASE h < l
    BY <1>5, <2>2
  <2>3. CASE ~(h < l)
    <3>1. PICK m : m = Middle(l, h)
      OBVIOUS
    <3>2. m \in l .. h /\ m \in Rows /\ m \in Highs /\ m - 1 \in Highs /\ m + 1 \in Lows
      <4>1. l \in Int /\ h \in Int /\ l <= h
        BY <1>1, <1>2, <2>3
      <4>2. m \in l .. h
        BY <3>1, <4>1, MiddleIs
      <4> QED BY <1>1, <1>2, <4>2
    <3>3. (m - 1) - l + 1 <= k /\ h - (m + 1) + 1 <= k /\ h - l + 1 <= n
      BY <1>1, <1>2, <2>1, <3>2
    <3>4. PICK kept : kept = IF m \in keeps THEN m ELSE r
      OBVIOUS
    <3>5. kept \in Highs
      BY <3>2, <3>4
    <3>6. f[l][h][r] = IF m \in lefts THEN f[l][m - 1][kept] ELSE f[m + 1][h][kept]
      BY <1>1, <1>4, <2>3, <3>1, <3>3, <3>4 DEF HalvedBy, HalvedOnce
    <3>7. PICK u, v : u = f[l][m - 1][kept] /\ v = f[m + 1][h][kept]
      OBVIOUS
    <3>8. Right(l, m - 1, u, kept) /\ Right(m + 1, h, v, kept)
      <4> HIDE DEF Right
      <4> QED BY <1>7, <3>2, <3>3, <3>5, <3>7
    <3>9. \A j \in keeps : j \in Int
      BY <1>2
    <3>10. l \in Int /\ h \in Int /\ m \in Int /\ l <= m /\ m <= h
      BY <1>1, <1>2, <3>2
    <3>11. CASE m \in lefts
      <4>1. f[l][h][r] = u
        BY <3>6, <3>7, <3>11
      <4>2. \A j \in keeps : j < m
        BY <3>2, <3>11
      <4>3. kept = r
        BY <3>4, <3>10, <4>2
      <4>4. ASSUME NEW j \in keeps PROVE (l <= j /\ j <= h) <=> (l <= j /\ j <= m - 1)
        <5>1. j \in Int /\ j < m
          BY <3>9, <4>2
        <5> QED BY <3>10, <5>1
      <4>5. u \in l .. m - 1 => u \in l .. h
        BY <3>10
      <4> QED BY <3>8, <4>1, <4>3, <4>4, <4>5
    <3>12. CASE m \notin lefts
      <4>0. f[l][h][r] = v /\ m \in keeps /\ kept = m
        BY <3>2, <3>4, <3>6, <3>7, <3>12
      <4>2. CASE \E j \in keeps : m + 1 <= j /\ j <= h
        <5>1. v \in keeps /\ v \in m + 1 .. h /\ \A j \in keeps : m + 1 <= j /\ j <= h => v >= j
          BY <3>8, <4>2
        <5>2. v \in l .. h /\ m < v
          BY <3>10, <5>1
        <5>3. ASSUME NEW j \in keeps, l <= j, j <= h PROVE v >= j
          <6>1. CASE m + 1 <= j
            BY <5>1, <5>3, <6>1
          <6>2. CASE ~(m + 1 <= j)
            BY <3>9, <3>10, <5>2, <6>2
          <6> QED BY <6>1, <6>2
        <5>4. ~(\A j \in keeps : ~(l <= j /\ j <= h))
          BY <5>1, <5>2
        <5> QED BY <4>0, <5>1, <5>2, <5>3, <5>4
      <4>3. CASE ~(\E j \in keeps : m + 1 <= j /\ j <= h)
        <5>1. v = m
          BY <3>8, <4>0, <4>3
        <5>2. ASSUME NEW j \in keeps, l <= j, j <= h PROVE m >= j
          BY <3>9, <3>10, <4>3, <5>2
        <5> QED BY <3>10, <4>0, <5>1, <5>2
      <4> QED BY <4>2, <4>3
    <3> QED BY <3>11, <3>12
  <2> QED BY <2>2, <2>3
<1>8. Right(0, n - 1, f[0][n - 1][-1], -1)
  <2>1. \A k \in 0 .. n : k \in S
    <3> HIDE DEF S
    <3> QED BY <1>1, <1>6, <1>7, AllNumbers
  <2>2. n \in S
    BY <1>1, <2>1
  <2>3. 0 \in Lows /\ n - 1 \in Highs /\ -1 \in Highs /\ (n - 1) - 0 + 1 <= n
    BY <1>1, <1>2
  <2> HIDE DEF Right
  <2> QED BY <2>2, <2>3
<1>9. \A j \in keeps : 0 <= j /\ j <= n - 1
  BY <1>2
<1> QED BY <1>1, <1>4, <1>8, <1>9

LEMMA SmallestIs ==
  ASSUME NEW S, S \subseteq Int, NEW x,
         S # {} => x \in S /\ \A j \in S : x <= j, S = {} => x = -1
  PROVE  x = Smallest(S)
<1>1. ASSUME S # {}, NEW y \in S, \A j \in S : y <= j PROVE y = x
  <2>1. x \in S
    BY <1>1
  <2>2. x <= y /\ y <= x
    BY <1>1, <2>1
  <2>3. x \in Int /\ y \in Int
    BY <1>1, <2>1
  <2> QED BY <2>2, <2>3
<1> QED BY <1>1 DEF Smallest

LEMMA LargestIs ==
  ASSUME NEW S, S \subseteq Int, NEW x,
         S # {} => x \in S /\ \A j \in S : x >= j, S = {} => x = -1
  PROVE  x = Largest(S)
<1>1. ASSUME S # {}, NEW y \in S, \A j \in S : j <= y PROVE y = x
  <2>1. x \in S
    BY <1>1
  <2>2. x <= y /\ y <= x
    BY <1>1, <2>1
  <2>3. x \in Int /\ y \in Int
    BY <1>1, <2>1
  <2> QED BY <2>2, <2>3
<1> QED BY <1>1 DEF Largest

LEMMA SidesAre ==
  ASSUME SearchInv
  PROVE  /\ Rows \subseteq Int /\ Equals \subseteq Rows /\ Above \subseteq Rows /\ Below \subseteq Rows
         /\ \A i \in Rows : /\ i \in Below \/ i \in Equals \/ i \in Above
                            /\ i \in Below => i \notin Equals /\ i \notin Above
                            /\ i \in Equals => i \notin Above
         /\ \A i \in Below, j \in Equals \cup Above : i < j
         /\ \A i \in Equals, j \in Above : i < j
<1>1. Rows \subseteq Int
  BY DEF Rows, SearchInv
<1>2. \A i \in Rows : compare(i) \in Int
  BY CompareUp
<1>3. \A i, j \in Rows : compare(i) < compare(j) => i < j
  <2>1. SUFFICES ASSUME NEW i \in Rows, NEW j \in Rows, compare(i) < compare(j), ~(i < j) PROVE FALSE
    OBVIOUS
  <2>2. j <= i
    BY <1>1, <2>1
  <2> QED BY <1>2, <2>1, <2>2, CompareUp
<1>4. \A i \in Rows : compare(i) < 0 \/ compare(i) = 0 \/ compare(i) > 0
  BY <1>2
<1>5. Equals \subseteq Rows /\ Above \subseteq Rows /\ Below \subseteq Rows
  BY DEF Equals, Above, Below
<1>6. \A i \in Rows : /\ i \in Below \/ i \in Equals \/ i \in Above
                      /\ i \in Below => i \notin Equals /\ i \notin Above
                      /\ i \in Equals => i \notin Above
  BY <1>2, <1>4 DEF Equals, Above, Below
<1>7. \A i \in Below, j \in Equals \cup Above : i < j
  BY <1>2, <1>3 DEF Equals, Above, Below
<1>8. \A i \in Equals, j \in Above : i < j
  BY <1>2, <1>3 DEF Equals, Above
<1> QED BY <1>1, <1>5, <1>6, <1>7, <1>8

LEMMA SearchesRightAt == SearchInv => SearchesRight
<1> SUFFICES ASSUME SearchInv PROVE SearchesRight
  OBVIOUS
<1>1. PICK R, E, A, B : R = Rows /\ E = Equals /\ A = Above /\ B = Below
  OBVIOUS
<1>2. /\ R \subseteq Int /\ E \subseteq R /\ A \subseteq R /\ B \subseteq R
      /\ \A i \in R : /\ i \in B \/ i \in E \/ i \in A
                      /\ i \in B => i \notin E /\ i \notin A
                      /\ i \in E => i \notin A
      /\ \A i \in B, j \in E \cup A : i < j
      /\ \A i \in E, j \in A : i < j
  BY <1>1, SidesAre
<1>3. PICK none : none = {}
  OBVIOUS
<1>4. IF E = {} THEN Binary_EQUAL = -1 ELSE Binary_EQUAL \in E
  <2>1. \A m \in R, j \in E : m \notin E => (m \in A => j < m) /\ (m \notin A => m < j)
    BY <1>2
  <2>2. (E # {} => Halve(E, A, none) \in E) /\ (E = {} => Halve(E, A, none) = -1)
    BY <1>1, <1>2, <1>3, <2>1, HalveStops
  <2> QED BY <1>1, <1>3, <2>2 DEF Binary_EQUAL
\* The first above.
<1>5. ASSUME NEW stops, stops = {}
      PROVE  (A # {} => Halve(stops, A, A) \in A /\ \A j \in A : Halve(stops, A, A) <= j) /\ (A = {} => Halve(stops, A, A) = -1)
  <2>1. \A m \in R, j \in A : (m \in A /\ m < j => m \in A) /\ (m \notin A => m < j)
    BY <1>2
  <2> QED BY <1>1, <1>2, <1>5, <2>1, HalveLeast
<1>6. Binary_GT = Smallest(A)
  <2>1. Binary_GT = Halve(none, A, A)
    BY <1>1, <1>3 DEF Binary_GT
  <2>2. A \subseteq Int
    BY <1>2
  <2> QED BY <1>3, <1>5, <2>1, <2>2, SmallestIs
<1>7. ASSUME NEW stops, stops = {}, NEW downs, downs = A \cup E
      PROVE  (B # {} => Halve(stops, downs, B) \in B /\ \A j \in B : Halve(stops, downs, B) >= j) /\ (B = {} => Halve(stops, downs, B) = -1)
  <2>1. (\A m \in R, j \in B : m \in downs => j < m) /\ (\A m \in R : m \notin downs => m \in B)
    BY <1>2, <1>7
  <2> QED BY <1>1, <1>2, <1>7, <2>1, HalveGreatest
<1>8. Binary_LT = Largest(B)
  <2>1. PICK downs : downs = A \cup E
    OBVIOUS
  <2>2. Binary_LT = Halve(none, downs, B)
    BY <1>1, <1>3, <2>1 DEF Binary_LT
  <2>3. B \subseteq Int
    BY <1>2
  <2>4. PICK x : x = Halve(none, downs, B)
    OBVIOUS
  <2>5. (B # {} => x \in B /\ \A j \in B : x >= j) /\ (B = {} => x = -1)
    BY <1>3, <1>7, <2>1, <2>4
  <2> QED BY <2>2, <2>3, <2>4, <2>5, LargestIs
<1>9. IF E = {} THEN Binary_GTEQ = Smallest(A) ELSE Binary_GTEQ \in E
  <2>1. Binary_GTEQ = Halve(E, A, A)
    BY <1>1 DEF Binary_GTEQ
  <2>2. PICK x : x = Halve(E, A, A)
    OBVIOUS
  <2>3. CASE E = {}
    <3>1. (A # {} => x \in A /\ \A j \in A : x <= j) /\ (A = {} => x = -1)
      BY <1>5, <2>2, <2>3
    <3>2. A \subseteq Int
      BY <1>2
    <3>3. x = Smallest(A)
      BY <3>1, <3>2, SmallestIs
    <3> QED BY <2>1, <2>2, <2>3, <3>3
  <2>4. CASE E # {}
    <3>1. \A m \in R, j \in E : m \notin E => (m \in A => j < m) /\ (m \notin A => m < j)
      BY <1>2
    <3>2. x \in E
      BY <1>1, <1>2, <2>2, <2>4, <3>1, HalveStops
    <3> QED BY <2>1, <2>2, <2>4, <3>2
  <2> QED BY <2>3, <2>4
<1>10. IF E = {} THEN Binary_LTEQ = Largest(B) ELSE Binary_LTEQ \in E
  <2>0. PICK downs : downs = A \cup E
    OBVIOUS
  <2>1. Binary_LTEQ = Halve(E, downs, B)
    BY <1>1, <2>0 DEF Binary_LTEQ
  <2>2. PICK x : x = Halve(E, downs, B)
    OBVIOUS
  <2>3. CASE E = {}
    <3>1. (B # {} => x \in B /\ \A j \in B : x >= j) /\ (B = {} => x = -1)
      BY <1>7, <2>0, <2>2, <2>3
    <3>2. B \subseteq Int
      BY <1>2
    <3>3. x = Largest(B)
      BY <3>1, <3>2, LargestIs
    <3> QED BY <2>1, <2>2, <2>3, <3>3
  <2>4. CASE E # {}
    <3>1. \A m \in R, j \in E : m \notin E => (m \in downs => j < m) /\ (m \notin downs => m < j)
      BY <1>2, <2>0
    <3>2. x \in E
      BY <1>1, <1>2, <2>2, <2>4, <3>1, HalveStops
    <3> QED BY <2>1, <2>2, <2>4, <3>2
  <2> QED BY <2>3, <2>4
\* The first that equals is the only one of these it stops at.
<1>11. ASSUME NEW F, F = {m \in E : m = 0 \/ compare(m - 1) < 0}
       PROVE  /\ \A m \in F, j \in E : m <= j
              /\ E # {} => F # {}
  <2>1. ASSUME NEW m \in F, NEW j \in E PROVE m <= j
    <3>1. m \in R /\ j \in R /\ m \in Int /\ j \in Int /\ 0 <= j
      BY <1>1, <1>2, <1>11 DEF Rows
    <3>2. SUFFICES ASSUME ~(m <= j) PROVE FALSE
      OBVIOUS
    <3>3. m - 1 \in R /\ j <= m - 1 /\ m # 0
      BY <1>1, <3>1, <3>2 DEF Rows
    <3>4. m - 1 \in B
      BY <1>1, <1>11, <3>3 DEF Below
    <3>5. m - 1 < j
      BY <1>2, <3>4
    <3> QED BY <3>1, <3>3, <3>5
  <2>2. ASSUME E # {} PROVE F # {}
    <3>1. E \subseteq Nat
      BY <1>1, <1>2 DEF Rows
    <3>2. PICK m \in E : \A j \in E : m <= j
      BY <2>2, <3>1, LeastNumber
    <3>3. m = 0 \/ compare(m - 1) < 0
      <4>1. SUFFICES ASSUME m # 0 PROVE compare(m - 1) < 0
        OBVIOUS
      <4>2. m \in R /\ m - 1 \in R /\ m \in Int
        BY <1>1, <1>2, <3>1, <4>1 DEF Rows
      <4>3. m - 1 \notin E
        BY <3>2, <4>2
      <4>4. m - 1 \notin A
        <5>1. m - 1 \in A => m < m - 1
          BY <1>2
        <5> QED BY <4>2, <5>1
      <4>5. m - 1 \in B
        BY <1>2, <4>2, <4>3, <4>4
      <4> QED BY <1>1, <4>5 DEF Below
    <3> QED BY <1>11, <3>2, <3>3
  <2> QED BY <2>1, <2>2
<1>12. lowerBound = Smallest(E)
  <2>1. PICK F, downs : F = {m \in E : m = 0 \/ compare(m - 1) < 0} /\ downs = A \cup E
    OBVIOUS
  <2>2. lowerBound = Halve(F, downs, none)
    BY <1>1, <1>3, <2>1 DEF lowerBound
  <2>3. F \subseteq E /\ (\A m \in F, j \in E : m <= j) /\ (E # {} => F # {})
    BY <1>11, <2>1
  <2>4. ASSUME NEW m \in R, NEW j \in F, m \notin F PROVE (m \in downs => j < m) /\ (m \notin downs => m < j)
    <3>1. j \in E /\ j \in Int /\ m \in Int
      BY <1>2, <2>3
    <3>2. CASE m \in A
      BY <1>2, <2>1, <3>1, <3>2
    <3>3. CASE m \in E
      <4>1. j <= m /\ j # m
        BY <2>3, <2>4, <3>3
      <4> QED BY <2>1, <3>1, <3>3, <4>1
    <3>4. CASE m \in B
      BY <1>2, <2>1, <3>1, <3>4
    <3> QED BY <1>2, <3>2, <3>3, <3>4
  <2>5. PICK x : x = Halve(F, downs, none)
    OBVIOUS
  <2>6. (F # {} => x \in F) /\ (F = {} => x = -1)
    <3>1. none \subseteq Rows /\ F \subseteq Rows
      BY <1>1, <1>2, <1>3, <2>3
    <3>2. \A m \in Rows, j \in F : m \notin F => (m \in downs => j < m) /\ (m \notin downs => m < j)
      BY <1>1, <2>4
    <3> QED BY <1>3, <2>5, <3>1, <3>2, HalveStops
  <2>7. (E # {} => x \in E /\ \A j \in E : x <= j) /\ (E = {} => x = -1)
    BY <2>3, <2>6
  <2>8. E \subseteq Int
    BY <1>2
  <2>9. x = Smallest(E)
    BY <2>7, <2>8, SmallestIs
  <2> QED BY <2>2, <2>5, <2>9
<1>13. upperBound = Smallest(A)
  <2>1. PICK F : F = {m \in A : m = 0 \/ compare(m - 1) <= 0}
    OBVIOUS
  <2>2. upperBound = Halve(none, A, F)
    BY <1>1, <1>3, <2>1 DEF upperBound
  <2>3. ASSUME NEW m \in F, NEW j \in A PROVE m <= j
    <3>1. m \in R /\ j \in R /\ m \in Int /\ j \in Int /\ 0 <= j
      BY <1>1, <1>2, <2>1 DEF Rows
    <3>2. SUFFICES ASSUME ~(m <= j) PROVE FALSE
      OBVIOUS
    <3>3. m - 1 \in R /\ j <= m - 1 /\ m # 0
      BY <1>1, <3>1, <3>2 DEF Rows
    <3>4. compare(m - 1) <= 0
      BY <2>1, <3>3
    <3>5. compare(j) > 0 /\ compare(j) <= compare(m - 1) /\ compare(j) \in Int /\ compare(m - 1) \in Int
      BY <1>1, <3>1, <3>3, CompareUp DEF Above
    <3> QED BY <3>4, <3>5
  <2>4. ASSUME A # {} PROVE F # {}
    <3>1. A \subseteq Nat
      BY <1>1, <1>2 DEF Rows
    <3>2. PICK m \in A : \A j \in A : m <= j
      BY <2>4, <3>1, LeastNumber
    <3>3. m = 0 \/ compare(m - 1) <= 0
      <4>1. SUFFICES ASSUME m # 0 PROVE compare(m - 1) <= 0
        OBVIOUS
      <4>2. m \in R /\ m - 1 \in R /\ m \in Int
        BY <1>1, <1>2, <3>1, <4>1 DEF Rows
      <4>3. m - 1 \notin A
        BY <3>2, <4>2
      <4> QED BY <1>1, <4>2, <4>3, CompareUp DEF Above
    <3> QED BY <2>1, <3>2, <3>3
  <2>5. PICK x : x = Halve(none, A, F)
    OBVIOUS
  <2>6. (F # {} => x \in F /\ \A j \in F : x <= j) /\ (F = {} => x = -1)
    <3>1. ASSUME NEW m \in R, NEW j \in F
          PROVE  (m \in A /\ m < j => m \in F) /\ (m \notin A => m < j)
      <4>1. j \in A /\ j \in Int /\ m \in Int
        BY <1>2, <2>1
      <4>2. m \in A => j <= m
        BY <2>3
      <4> QED BY <1>2, <4>1, <4>2
    <3>2. F \subseteq Rows /\ \A m \in Rows, j \in F : (m \in A /\ m < j => m \in F) /\ (m \notin A => m < j)
      BY <1>1, <1>2, <2>1, <3>1
    <3> QED BY <1>3, <2>5, <3>2, HalveLeast
  <2>7. (A # {} => x \in A /\ \A j \in A : x <= j) /\ (A = {} => x = -1)
    BY <2>1, <2>3, <2>4, <2>6
  <2>8. A \subseteq Int
    BY <1>2
  <2>9. x = Smallest(A)
    BY <2>7, <2>8, SmallestIs
  <2> QED BY <2>2, <2>5, <2>9
<1>14. SearchesFind
  BY <1>1, <1>4, <1>6, <1>8, <1>9, <1>10 DEF SearchesFind
<1>15. BoundsFirst
  BY <1>1, <1>12, <1>13 DEF BoundsFirst
<1>16. PICK n : n = Len(array) /\ n \in Nat /\ R = 0 .. n - 1
  BY <1>1 DEF SearchInv, Rows
<1>17. PICK low, up : low = lowerBound /\ up = upperBound
  OBVIOUS
\* What the bounds are, said of the three parts.
<1>18. /\ E # {} => low \in E /\ \A j \in E : low <= j
       /\ E = {} => low = -1
       /\ A # {} => up \in A /\ \A j \in A : up <= j
       /\ A = {} => up = -1
  <2>1. ASSUME NEW S, S \subseteq R, S # {} PROVE Smallest(S) \in S /\ \A j \in S : Smallest(S) <= j
    <3>1. S \subseteq Nat
      BY <1>16, <2>1
    <3>2. \E i \in S : \A j \in S : i <= j
      BY <2>1, <3>1, LeastNumber
    <3> QED BY <2>1, <3>2 DEF Smallest
  <2> QED BY <1>2, <1>12, <1>13, <1>17, <2>1 DEF Smallest
\* Where Below and Below with Equals end.
<1>19. ASSUME NEW S, S \subseteq R, NEW first, first \in 0 .. n, \A i \in R : i \in S <=> i < first
       PROVE  first - 1 = Largest(S)
  <2>1. S \subseteq Int
    BY <1>2, <1>19
  <2>2. CASE first = 0
    <3>1. S = {}
      BY <1>16, <1>19, <2>2
    <3> QED BY <2>1, <2>2, <3>1, LargestIs
  <2>3. CASE first # 0
    <3>1. PICK x : x = first - 1
      OBVIOUS
    <3>2. x \in R /\ x < first
      BY <1>16, <1>19, <2>3, <3>1
    <3>3. x \in S
      BY <1>19, <3>2
    <3>4. \A j \in S : x >= j
      BY <1>16, <1>19, <3>1
    <3> QED BY <2>1, <3>1, <3>3, <3>4, LargestIs
  <2> QED BY <2>2, <2>3
<1>20. \A i \in R : i \in Int /\ 0 <= i /\ i < n
  BY <1>16
<1>21. less_than = Largest(B)
  <2>1. PICK first : first = IF low >= 0 THEN low ELSE IF up >= 0 THEN up ELSE n
    OBVIOUS
  <2>2. first \in 0 .. n /\ \A i \in R : i \in B <=> i < first
    <3>1. CASE E # {}
      <4>1. first = low /\ low \in E /\ low \in R /\ low \in 0 .. n
        <5>1. low \in E /\ low \in R
          BY <1>2, <1>18, <3>1
        <5>2. low \in Int /\ 0 <= low /\ low < n
          BY <1>20, <5>1
        <5>3. first = low
          BY <1>16, <1>18, <2>1, <3>1, <5>2
        <5> QED BY <1>16, <5>1, <5>2, <5>3
      <4>2. ASSUME NEW i \in R PROVE i \in B <=> i < low
        <5>1. i \in B => i < low
          BY <1>2, <4>1
        <5>2. i \in E => low <= i
          BY <1>18, <3>1
        <5>3. i \in A => low < i
          BY <1>2, <4>1
        <5> QED BY <1>2, <1>20, <4>1, <5>1, <5>2, <5>3
      <4> QED BY <4>1, <4>2
    <3>2. CASE E = {} /\ A # {}
      <4>1. first = up /\ up \in A /\ up \in R /\ up \in 0 .. n
        <5>1. up \in A /\ up \in R
          BY <1>2, <1>18, <3>2
        <5>2. up \in Int /\ 0 <= up /\ up < n
          BY <1>20, <5>1
        <5>3. first = up
          BY <1>16, <1>18, <2>1, <3>2, <5>2
        <5> QED BY <1>16, <5>1, <5>2, <5>3
      <4>2. ASSUME NEW i \in R PROVE i \in B <=> i < up
        <5>1. i \in B => i < up
          BY <1>2, <4>1
        <5>2. i \in A => up <= i
          BY <1>18, <3>2
        <5> QED BY <1>2, <1>20, <3>2, <4>1, <5>1, <5>2
      <4> QED BY <4>1, <4>2
    <3>3. CASE E = {} /\ A = {}
      <4>1. first = n
        BY <1>18, <2>1, <3>3
      <4>2. \A i \in R : i \in B
        BY <1>2, <3>3
      <4> QED BY <1>16, <1>20, <4>1, <4>2
    <3> QED BY <3>1, <3>2, <3>3
  <2>3. first - 1 = Largest(B)
    BY <1>2, <1>19, <2>2
  <2> QED BY <1>16, <1>17, <2>1, <2>3 DEF less_than
<1>22. less_eq = Largest(R \ A)
  <2>1. PICK first : first = IF up < 0 THEN n ELSE up
    OBVIOUS
  <2>2. first \in 0 .. n /\ \A i \in R : i \in R \ A <=> i < first
    <3>1. CASE A # {}
      <4>1. first = up /\ up \in A /\ up \in R /\ up \in 0 .. n
        <5>1. up \in A /\ up \in R
          BY <1>2, <1>18, <3>1
        <5>2. up \in Int /\ 0 <= up /\ up < n
          BY <1>20, <5>1
        <5>3. first = up
          BY <1>16, <1>18, <2>1, <3>1, <5>2
        <5> QED BY <1>16, <5>1, <5>2, <5>3
      <4>2. ASSUME NEW i \in R PROVE i \in R \ A <=> i < up
        <5>1. i \notin A => i < up
          BY <1>2, <4>1
        <5>2. i \in A => up <= i
          BY <1>18, <3>1
        <5> QED BY <1>20, <4>1, <5>1, <5>2
      <4> QED BY <4>1, <4>2
    <3>2. CASE A = {}
      <4>1. first = n
        BY <1>18, <2>1, <3>2
      <4> QED BY <1>16, <1>20, <3>2, <4>1
    <3> QED BY <3>1, <3>2
  <2>3. first - 1 = Largest(R \ A)
    BY <1>19, <2>2
  <2> QED BY <1>16, <1>17, <2>1, <2>3 DEF less_eq
<1>23. great_eq = Smallest(R \ B)
  <2>1. PICK x : x = IF low >= 0 THEN low ELSE up
    OBVIOUS
  <2>2. R \ B = E \cup A
    BY <1>2
  <2>3. (E \cup A # {} => x \in E \cup A /\ \A j \in E \cup A : x <= j) /\ (E \cup A = {} => x = -1)
    <3>1. CASE E # {}
      <4>1. x = low /\ low \in E
        BY <1>2, <1>18, <1>20, <2>1, <3>1
      <4>2. \A j \in A : low <= j
        <5>1. ASSUME NEW j \in A PROVE low <= j
          <6>1. low < j /\ low \in Int /\ j \in Int
            BY <1>2, <4>1
          <6> QED BY <6>1
        <5> QED BY <5>1
      <4> QED BY <1>18, <3>1, <4>1, <4>2
    <3>2. CASE E = {}
      <4>1. x = up
        BY <1>18, <2>1, <3>2
      <4> QED BY <1>18, <3>2, <4>1
    <3> QED BY <3>1, <3>2
  <2>4. E \cup A \subseteq Int
    BY <1>2
  <2>5. x = Smallest(E \cup A)
    <3>1. PICK S : S = E \cup A
      OBVIOUS
    <3>2. S \subseteq Int /\ (S # {} => x \in S /\ \A j \in S : x <= j) /\ (S = {} => x = -1)
      BY <2>3, <2>4, <3>1
    <3> QED BY <3>1, <3>2, SmallestIs
  <2> QED BY <1>17, <2>1, <2>2, <2>5 DEF great_eq
<1>24. BoundsCompose
  BY <1>1, <1>21, <1>22, <1>23 DEF BoundsCompose
<1> QED BY <1>14, <1>15, <1>24 DEF SearchesRight

\* In an array of any length, rising or falling, with any equal elements, all ten
\* searches find what their names say, at both ends and between equal elements too.
THEOREM SearchesRightAlways == SearchInit /\ [][SearchNext]_searchVars => []SearchesRight
<1>1. SearchInit => SearchInv
  BY SearchStart
<1>2. SearchInv /\ [SearchNext]_searchVars => SearchInv'
  BY SearchStep
<1>3. SearchInv => SearchesRight
  BY SearchesRightAt
<1> QED BY <1>1, <1>2, <1>3, PTL

-----------------------------------------------------------------------------
(* The static hash table. *)

Entry == [rowno : Int, link : Int, count : Nat]
HashStates == {"none", "rows", "chains", "done"}

\* The rows below m that have key k.
RowsOf(k, m) == {r \in 0 .. m - 1 : KeyAt(r) = k}
\* An entry tells of all the rows of its key below m.
Tells(e, m) ==
  /\ e.rowno \in RowsOf(KeyAt(e.rowno), m)
  /\ \A r \in RowsOf(KeyAt(e.rowno), m) : e.rowno <= r
  /\ e.count = Cardinality(RowsOf(KeyAt(e.rowno), m))

Filled(p) == hash[p].rowno # -1
KeyIn(p) == KeyAt(hash[p].rowno)
KeyOnStack(i) == KeyAt(stack[i].rowno)
\* The place the key in p hashes to.
HomeOf(p) == hashnum[KeyIn(p)]
RowsTaken == IF doing = "rows" THEN row ELSE Len(rows)

\* Each key below m is in one place or on the stack, and its entry tells of its rows.
PlacesTell(m) ==
  /\ \A p \in Places : IF Filled(p) THEN Tells(hash[p], m) ELSE hash[p] = NoRow
  /\ \A p, q \in Places : Filled(p) /\ Filled(q) /\ KeyIn(p) = KeyIn(q) => p = q
StackTells(m) ==
  /\ \A i \in DOMAIN stack : Tells(stack[i], m)
  /\ \A i, j \in DOMAIN stack : i < j => stack[j].rowno < stack[i].rowno
\* A key is on the stack because another one has its place.
StackWaits ==
  /\ \A i \in DOMAIN stack : stack[i].link = hashnum[KeyOnStack(i)]
  /\ \A i \in DOMAIN stack : Filled(stack[i].link) /\ HomeOf(stack[i].link) = stack[i].link
  /\ \A i \in DOMAIN stack, p \in Places : Filled(p) => KeyIn(p) # KeyOnStack(i)
AllHeld(m) ==
  \A r \in 0 .. m - 1 :
    \/ \E p \in Places : Filled(p) /\ KeyIn(p) = KeyAt(r)
    \/ \E i \in DOMAIN stack : KeyOnStack(i) = KeyAt(r)

\* Before the chains every key is where it hashes to.
AtHome == \A p \in Places : Filled(p) => HomeOf(p) = p /\ hash[p].link = -1
\* The places left over that a key of h has taken, and those of them beyond q.
Mine(h) == {q \in Places : Filled(q) /\ HomeOf(q) = h /\ q # h}
Later(q) == {x \in Mine(HomeOf(q)) : q # HomeOf(q) => q < x}
\* A chain goes from the key's own place up through the places left over.
ChainLinked(q) ==
  IF Later(q) = {} THEN hash[q].link = -1
  ELSE hash[q].link \in Later(q) /\ \A x \in Later(q) : hash[q].link <= x
Chained ==
  \A q \in Places : Filled(q) =>
    /\ Filled(HomeOf(q)) /\ HomeOf(HomeOf(q)) = HomeOf(q)
    /\ q # HomeOf(q) => q < row
    /\ ChainLinked(q)
FilledUp == \A p \in Places : p < row => Filled(p)

HashTypes ==
  /\ doing \in HashStates
  /\ rows \in Seq(HashKeys) /\ places \in Nat /\ row \in Nat
  /\ doing = "none" => stack = <<>>
  /\ doing # "none" =>
       /\ hashnum \in [HashKeys -> Places] /\ hash \in [Places -> Entry]
       /\ stack \in Seq(Entry) /\ Grouped(rows) /\ Cardinality(KeysIn(rows)) <= places

HashInv ==
  /\ HashTypes
  /\ doing # "none" => PlacesTell(RowsTaken) /\ StackTells(RowsTaken) /\ StackWaits /\ AllHeld(RowsTaken)
  /\ doing = "rows" => row <= Len(rows) /\ AtHome
  /\ doing \in {"chains", "done"} => row <= places /\ Chained /\ FilledUp
  /\ doing = "done" => stack = <<>>

\* A walk of n steps.
IsWalk(g, n, x, s) == g[0] = x /\ \A i \in 1 .. n : g[i] = s[g[i - 1]]

LEMMA WalkExists ==
  ASSUME NEW X, NEW n \in Nat, NEW x \in X, NEW s \in [X -> X]
  PROVE  \E g \in [0 .. n -> X] : IsWalk(g, n, x, s)
<1>1. PICK goes : goes = [pair \in Nat \X X |-> s[pair[2]]]
  OBVIOUS
<1>2. goes \in [Nat \X X -> X]
  BY <1>1
<1>3. PICK g \in [0 .. n -> X] : IsRec(g, n, x, goes)
  BY <1>2, RecExists
<1>4. \A i \in 1 .. n : i \in Nat /\ g[i - 1] \in X
  OBVIOUS
<1> QED BY <1>1, <1>3, <1>4 DEF IsRec, IsWalk

\* Every link leads to a place.
LEMMA LinksIn ==
  ASSUME HashInv, doing \in {"chains", "done"}
  PROVE  \A p \in Places : hash[p].link \in Places \cup {-1}
<1>1. /\ \A p \in Places : ~Filled(p) => hash[p] = NoRow
      /\ \A p \in Places : Filled(p) => ChainLinked(p)
  BY DEF HashInv, PlacesTell, Chained
<1>2. \A p \in Places : Later(p) \subseteq Places
  BY DEF Later, Mine
<1> QED BY <1>1, <1>2 DEF ChainLinked, NoRow

\* The walk to the end of a chain.
LEMMA EndWalk ==
  ASSUME HashInv, doing \in {"chains", "done"}, NEW h \in Places
  PROVE  \E g \in [0 .. places -> Places] :
           /\ g[0] = h /\ ChainEnd(h) = g[places]
           /\ \A i \in 1 .. places : g[i] = IF hash[g[i - 1]].link = -1 THEN g[i - 1] ELSE hash[g[i - 1]].link
<1> DEFINE Is(g) == g = [n \in 0 .. places |-> IF n = 0 THEN h
                           ELSE IF hash[g[n - 1]].link = -1 THEN g[n - 1] ELSE hash[g[n - 1]].link]
<1>1. PICK s : s = [p \in Places |-> IF hash[p].link = -1 THEN p ELSE hash[p].link]
  OBVIOUS
<1>2. s \in [Places -> Places] /\ places \in Nat
  BY <1>1, LinksIn DEF HashInv, HashTypes
<1>3. PICK f \in [0 .. places -> Places] : f[0] = h /\ \A i \in 1 .. places : f[i] = s[f[i - 1]]
  <2>1. \E f \in [0 .. places -> Places] : IsWalk(f, places, h, s)
    BY <1>2, WalkExists
  <2> QED BY <2>1 DEF IsWalk
<1>4. Is(f)
  <2>1. \A n \in 0 .. places : n = 0 \/ (n \in 1 .. places /\ n - 1 \in 0 .. places)
    BY <1>2
  <2>2. \A n \in 1 .. places : f[n] = IF hash[f[n - 1]].link = -1 THEN f[n - 1] ELSE hash[f[n - 1]].link
    BY <1>1, <1>3, <2>1
  <2>3. \A n \in 0 .. places : f[n] = IF n = 0 THEN h
                           ELSE IF hash[f[n - 1]].link = -1 THEN f[n - 1] ELSE hash[f[n - 1]].link
    BY <1>3, <2>1, <2>2
  <2> QED BY <1>3, <2>3
<1>5. ChainEnd(h) = (CHOOSE g : Is(g))[places]
  BY DEF ChainEnd
<1>6. PICK g : g = CHOOSE a : Is(a)
  OBVIOUS
<1>7. Is(g)
  <2> HIDE DEF Is
  <2> QED BY <1>4, <1>6
<1>8. /\ g[0] = h
      /\ \A i \in 1 .. places : g[i] = IF hash[g[i - 1]].link = -1 THEN g[i - 1] ELSE hash[g[i - 1]].link
  <2>1. 0 \in 0 .. places /\ \A i \in 1 .. places : i \in 0 .. places /\ i # 0
    BY <1>2
  <2> QED BY <1>7, <2>1
<1>9. \A n \in 0 .. places : g[n] \in Places
  <2>1. PICK S : S = {n \in 0 .. places : g[n] \in Places}
    OBVIOUS
  <2>2. 0 \in S
    BY <1>2, <1>8, <2>1
  <2>3. ASSUME NEW n \in 0 .. places - 1, n \in S PROVE n + 1 \in S
    <3>1. n + 1 \in 1 .. places /\ (n + 1) - 1 = n /\ n + 1 \in 0 .. places
      BY <1>2
    <3>2. g[n] \in Places
      BY <2>1, <2>3
    <3>3. g[n + 1] = IF hash[g[n]].link = -1 THEN g[n] ELSE hash[g[n]].link
      BY <1>8, <3>1
    <3> QED BY <2>1, <3>1, <3>2, <3>3, LinksIn
  <2>4. \A n \in 0 .. places : n \in S
    BY <1>2, <2>2, <2>3, AllNumbers
  <2> QED BY <2>1, <2>4
<1>10. g \in [0 .. places -> Places]
  BY <1>7, <1>9
<1>11. ChainEnd(h) = g[places]
  BY <1>5, <1>6
<1> HIDE DEF Is
<1> QED BY <1>8, <1>10, <1>11

\* A step along a chain: to a place left over, further up.
LEMMA ChainStep ==
  ASSUME HashInv, doing \in {"chains", "done"}, NEW h \in Places, Filled(h), HomeOf(h) = h,
         NEW p \in {h} \cup Mine(h), hash[p].link # -1
  PROVE  /\ hash[p].link \in Mine(h) /\ (p # h => p < hash[p].link)
         /\ \A x \in Mine(h) : (p = h \/ p < x) => hash[p].link <= x
<1>1. p \in Places /\ Filled(p) /\ HomeOf(p) = h
  BY DEF Mine
<1>2. ChainLinked(p)
  BY <1>1 DEF HashInv, Chained
<1>3. Later(p) # {}
  BY <1>2 DEF ChainLinked
<1>4. hash[p].link \in Later(p) /\ \A x \in Later(p) : hash[p].link <= x
  BY <1>2, <1>3 DEF ChainLinked
<1>5. Later(p) = {x \in Mine(h) : p # h => p < x}
  BY <1>1 DEF Later
<1> QED BY <1>4, <1>5

\* The end of a chain is a place of it that has no link.
LEMMA ChainEnds ==
  ASSUME HashInv, doing \in {"chains", "done"}, NEW h \in Places, Filled(h), HomeOf(h) = h
  PROVE  ChainEnd(h) \in {h} \cup Mine(h) /\ hash[ChainEnd(h)].link = -1
<1>1. PICK g \in [0 .. places -> Places] :
           /\ g[0] = h /\ ChainEnd(h) = g[places]
           /\ \A i \in 1 .. places : g[i] = IF hash[g[i - 1]].link = -1 THEN g[i - 1] ELSE hash[g[i - 1]].link
  BY EndWalk
<1>2. places \in Nat /\ h \in 0 .. places - 1
  BY DEF HashInv, HashTypes, Places
<1>3. \A p \in Mine(h) : p \in 0 .. places - 1 /\ p # h
  BY DEF Mine, Places
<1>4. PICK S : S = {n \in 0 .. places : /\ g[n] \in {h} \cup Mine(h)
                                        /\ n = 0 \/ hash[g[n]].link = -1 \/ (g[n] \in Mine(h) /\ g[n] >= n - 1)}
  OBVIOUS
<1>5. 0 \in S
  BY <1>1, <1>2, <1>4
<1>6. ASSUME NEW n \in 0 .. places - 1, n \in S PROVE n + 1 \in S
  <2>1. n + 1 \in 1 .. places /\ (n + 1) - 1 = n /\ n + 1 \in 0 .. places /\ n \in 0 .. places
    BY <1>2
  <2>2. PICK p, q : p = g[n] /\ q = g[n + 1]
    OBVIOUS
  <2>3. q = IF hash[p].link = -1 THEN p ELSE hash[p].link
    BY <1>1, <2>1, <2>2
  <2>4. p \in {h} \cup Mine(h) /\ (n = 0 \/ hash[p].link = -1 \/ (p \in Mine(h) /\ p >= n - 1))
    BY <1>4, <1>6, <2>2
  <2>5. CASE hash[p].link = -1
    BY <1>4, <2>1, <2>2, <2>3, <2>4, <2>5
  <2>6. CASE hash[p].link # -1
    <3>1. q \in Mine(h) /\ (p # h => p < q)
      BY <2>3, <2>4, <2>6, ChainStep
    <3>2. q \in 0 .. places - 1
      BY <1>3, <3>1
    <3>3. q >= n
      <4>1. CASE n = 0
        BY <3>2, <4>1
      <4>2. CASE n # 0
        <5>1. p \in Mine(h) /\ p >= n - 1
          BY <2>4, <2>6, <4>2
        <5>2. p < q /\ p \in 0 .. places - 1
          BY <1>3, <3>1, <5>1
        <5> QED BY <3>2, <5>1, <5>2
      <4> QED BY <4>1, <4>2
    <3> QED BY <1>4, <2>1, <2>2, <3>1, <3>3
  <2> QED BY <2>5, <2>6
<1>7. places \in S
  <2>1. \A n \in 0 .. places : n \in S
    BY <1>2, <1>5, <1>6, AllNumbers
  <2> QED BY <1>2, <2>1
<1>8. PICK e : e = g[places]
  OBVIOUS
<1>9. e \in {h} \cup Mine(h) /\ (places = 0 \/ hash[e].link = -1 \/ (e \in Mine(h) /\ e >= places - 1))
  BY <1>4, <1>7, <1>8
<1>10. hash[e].link = -1
  <2>1. SUFFICES ASSUME hash[e].link # -1 PROVE FALSE
    OBVIOUS
  <2>2. e \in Mine(h) /\ e >= places - 1
    BY <1>2, <1>9, <2>1
  <2>3. hash[e].link \in Mine(h) /\ e < hash[e].link
    BY <1>3, <1>9, <2>1, <2>2, ChainStep
  <2>4. PICK y : y = hash[e].link
    OBVIOUS
  <2>5. y \in 0 .. places - 1 /\ e \in 0 .. places - 1 /\ e < y
    BY <1>3, <2>2, <2>3, <2>4
  <2> QED BY <1>2, <2>2, <2>5
<1> QED BY <1>1, <1>8, <1>9, <1>10

\* The walk of multi_hash_find.
LEMMA FindWalk ==
  ASSUME HashInv, doing \in {"chains", "done"}, NEW k \in HashKeys
  PROVE  \E g \in [0 .. places -> Places] :
           /\ g[0] = hashnum[k]
           /\ \A i \in 1 .. places : g[i] = IF ChainStops(g[i - 1], k) THEN g[i - 1] ELSE hash[g[i - 1]].link
           /\ multi_hash_find(k) = LET f == hash[g[places]] IN IF f.rowno # -1 /\ KeyAt(f.rowno) = k THEN f ELSE NoRow
<1> DEFINE Is(g) == g = [n \in 0 .. places |-> IF n = 0 THEN hashnum[k]
                           ELSE IF ChainStops(g[n - 1], k) THEN g[n - 1] ELSE hash[g[n - 1]].link]
<1>1. PICK s : s = [p \in Places |-> IF ChainStops(p, k) THEN p ELSE hash[p].link]
  OBVIOUS
<1>2. places \in Nat /\ hashnum[k] \in Places
  BY DEF HashInv, HashTypes
<1>3. \A p \in Places : ~ChainStops(p, k) => hash[p].link \in Places
  <2>1. ASSUME NEW p \in Places, ~ChainStops(p, k) PROVE hash[p].link \in Places
    <3>1. ~(hash[p].link < 0)
      BY <2>1 DEF ChainStops
    <3>2. hash[p].link # -1
      BY <3>1
    <3> QED BY <3>2, LinksIn
  <2> QED BY <2>1
<1>4. s \in [Places -> Places]
  BY <1>1, <1>3
<1>5. PICK f \in [0 .. places -> Places] : f[0] = hashnum[k] /\ \A i \in 1 .. places : f[i] = s[f[i - 1]]
  <2>1. PICK x \in Places : x = hashnum[k]
    BY <1>2
  <2>2. \E f \in [0 .. places -> Places] : IsWalk(f, places, x, s)
    BY <1>2, <1>4, WalkExists
  <2> QED BY <2>1, <2>2 DEF IsWalk
<1>6. Is(f)
  <2>1. \A n \in 0 .. places : n = 0 \/ (n \in 1 .. places /\ n - 1 \in 0 .. places)
    BY <1>2
  <2>2. \A n \in 1 .. places : f[n] = IF ChainStops(f[n - 1], k) THEN f[n - 1] ELSE hash[f[n - 1]].link
    BY <1>1, <1>5, <2>1
  <2>3. \A n \in 0 .. places : f[n] = IF n = 0 THEN hashnum[k]
                           ELSE IF ChainStops(f[n - 1], k) THEN f[n - 1] ELSE hash[f[n - 1]].link
    BY <1>5, <2>1, <2>2
  <2> QED BY <1>5, <2>3
<1>7. PICK g : g = CHOOSE a : Is(a)
  OBVIOUS
<1>8. Is(g)
  <2> HIDE DEF Is
  <2> QED BY <1>6, <1>7
<1>9. multi_hash_find(k) = LET found == hash[g[places]] IN IF found.rowno # -1 /\ KeyAt(found.rowno) = k THEN found ELSE NoRow
  BY <1>7 DEF multi_hash_find
<1>10. /\ g[0] = hashnum[k]
       /\ \A i \in 1 .. places : g[i] = IF ChainStops(g[i - 1], k) THEN g[i - 1] ELSE hash[g[i - 1]].link
  <2>1. 0 \in 0 .. places /\ \A i \in 1 .. places : i \in 0 .. places /\ i # 0
    BY <1>2
  <2> QED BY <1>8, <2>1
<1>11. \A n \in 0 .. places : g[n] \in Places
  <2>1. PICK S : S = {n \in 0 .. places : g[n] \in Places}
    OBVIOUS
  <2>2. 0 \in S
    BY <1>2, <1>10, <2>1
  <2>3. ASSUME NEW n \in 0 .. places - 1, n \in S PROVE n + 1 \in S
    <3>1. n + 1 \in 1 .. places /\ (n + 1) - 1 = n /\ n + 1 \in 0 .. places
      BY <1>2
    <3>2. g[n] \in Places
      BY <2>1, <2>3
    <3>3. g[n + 1] = IF ChainStops(g[n], k) THEN g[n] ELSE hash[g[n]].link
      BY <1>10, <3>1
    <3> QED BY <1>3, <2>1, <3>1, <3>2, <3>3
  <2>4. \A n \in 0 .. places : n \in S
    BY <1>2, <2>2, <2>3, AllNumbers
  <2> QED BY <2>1, <2>4
<1>12. g \in [0 .. places -> Places]
  BY <1>8, <1>11
<1> HIDE DEF Is
<1> QED BY <1>9, <1>10, <1>12

\* It ends at the place that holds the key.
LEMMA FindEnds ==
  ASSUME HashInv, doing \in {"chains", "done"}, NEW k \in HashKeys,
         NEW x \in Places, Filled(x), KeyIn(x) = k
  PROVE  multi_hash_find(k) = hash[x]
<1>1. PICK g \in [0 .. places -> Places] :
           /\ g[0] = hashnum[k]
           /\ \A i \in 1 .. places : g[i] = IF ChainStops(g[i - 1], k) THEN g[i - 1] ELSE hash[g[i - 1]].link
           /\ multi_hash_find(k) = LET f == hash[g[places]] IN IF f.rowno # -1 /\ KeyAt(f.rowno) = k THEN f ELSE NoRow
  BY FindWalk
<1>2. PICK h : h = hashnum[k]
  OBVIOUS
<1>3. places \in Nat /\ h \in Places /\ h \in 0 .. places - 1
  BY <1>2 DEF HashInv, HashTypes, Places
<1>4. HomeOf(x) = h
  BY <1>2 DEF HomeOf
<1>5. Filled(h) /\ HomeOf(h) = h
  BY <1>4 DEF HashInv, Chained
<1>6. x \in {h} \cup Mine(h)
  BY <1>4 DEF Mine
<1>7. \A p \in Mine(h) : p \in Places /\ p \in 0 .. places - 1 /\ p # h /\ Filled(p)
  BY DEF Mine, Places
<1>8. \A p \in Places : Filled(p) /\ KeyIn(p) = k => p = x
  BY DEF HashInv, PlacesTell
<1>9. ChainStops(x, k)
  BY DEF ChainStops, KeyIn
\* On the way the place is still ahead.
<1>10. PICK S : S = {n \in 0 .. places : /\ g[n] \in {h} \cup Mine(h)
                                         /\ g[n] = x \/ (x \in Mine(h) /\ (g[n] = h \/ g[n] < x))
                                         /\ n = 0 \/ g[n] = x \/ (g[n] \in Mine(h) /\ g[n] >= n - 1)}
  OBVIOUS
<1>11. 0 \in S
  BY <1>1, <1>2, <1>3, <1>6, <1>10
<1>12. ASSUME NEW n \in 0 .. places - 1, n \in S PROVE n + 1 \in S
  <2>1. n + 1 \in 1 .. places /\ (n + 1) - 1 = n /\ n + 1 \in 0 .. places /\ n \in 0 .. places
    BY <1>3
  <2>2. PICK p, q : p = g[n] /\ q = g[n + 1]
    OBVIOUS
  <2>3. q = IF ChainStops(p, k) THEN p ELSE hash[p].link
    BY <1>1, <2>1, <2>2
  <2>4. /\ p \in {h} \cup Mine(h)
        /\ p = x \/ (x \in Mine(h) /\ (p = h \/ p < x))
        /\ n = 0 \/ p = x \/ (p \in Mine(h) /\ p >= n - 1)
    BY <1>10, <1>12, <2>2
  <2>5. CASE p = x
    <3>1. q = x
      BY <1>9, <2>3, <2>5
    <3> QED BY <1>6, <1>10, <2>1, <2>2, <3>1
  <2>6. CASE p # x
    <3>1. x \in Mine(h) /\ (p = h \/ p < x)
      BY <2>4, <2>6
    <3>2. Filled(p) /\ p \in Places
      BY <1>3, <1>5, <1>7, <2>4
    <3>3. KeyIn(p) # k
      BY <1>8, <2>6, <3>2
    <3>4. hash[p].link # -1
      <4>1. ChainLinked(p) /\ HomeOf(p) = h
        BY <1>5, <2>4, <3>2 DEF HashInv, Chained, Mine
      <4>2. x \in Later(p)
        BY <3>1, <4>1 DEF Later
      <4>3. hash[p].link \in Later(p)
        BY <4>1, <4>2 DEF ChainLinked
      <4>4. hash[p].link \in Mine(h)
        BY <4>1, <4>3 DEF Later
      <4>5. PICK y : y = hash[p].link
        OBVIOUS
      <4>6. y \in 0 .. places - 1
        BY <1>7, <4>4, <4>5
      <4> QED BY <1>3, <4>5, <4>6
    <3>5. /\ hash[p].link \in Mine(h) /\ (p # h => p < hash[p].link)
          /\ hash[p].link <= x
      BY <1>3, <1>5, <2>4, <3>1, <3>4, ChainStep
    <3>6. PICK y : y = hash[p].link
      OBVIOUS
    <3>7. y \in Mine(h) /\ y \in 0 .. places - 1 /\ y <= x /\ (p # h => p < y)
      BY <1>7, <3>5, <3>6
    <3>8. ~ChainStops(p, k)
      BY <3>2, <3>3, <3>6, <3>7 DEF ChainStops, KeyIn, Filled
    <3>9. q = y
      BY <2>3, <3>6, <3>8
    <3>10. y >= n
      <4>1. CASE n = 0
        BY <3>7, <4>1
      <4>2. CASE n # 0
        <5>1. p \in Mine(h) /\ p >= n - 1
          BY <2>4, <2>6, <4>2
        <5>2. p < y /\ p \in 0 .. places - 1
          BY <1>7, <3>7, <5>1
        <5> QED BY <3>7, <5>1, <5>2
      <4> QED BY <4>1, <4>2
    <3>11. x \in 0 .. places - 1
      BY <1>7, <3>1
    <3>12. y = x \/ y < x
      BY <3>7, <3>11
    <3> QED BY <1>10, <2>1, <2>2, <3>1, <3>7, <3>9, <3>10, <3>12
  <2> QED BY <2>5, <2>6
<1>13. places \in S
  <2>1. \A n \in 0 .. places : n \in S
    BY <1>3, <1>11, <1>12, AllNumbers
  <2> QED BY <1>3, <2>1
<1>14. PICK e : e = g[places]
  OBVIOUS
<1>15. e = x
  <2>1. SUFFICES ASSUME e # x PROVE FALSE
    OBVIOUS
  <2>2. x \in Mine(h) /\ (e = h \/ e < x) /\ e \in Mine(h) /\ e >= places - 1
    BY <1>3, <1>10, <1>13, <1>14, <2>1
  <2>3. e < x /\ x \in 0 .. places - 1 /\ e \in 0 .. places - 1
    BY <1>7, <2>2
  <2> QED BY <1>3, <2>2, <2>3
<1> QED BY <1>1, <1>14, <1>15 DEF Filled, KeyIn

LEMMA KeysFoundAt == HashInv => KeysFound
<1> SUFFICES ASSUME HashInv, doing = "done", NEW k \in HashKeys
             PROVE  LET mine == {r \in 0 .. Len(rows) - 1 : KeyAt(r) = k}
                        f == multi_hash_find(k)
                    IN /\ f.count = Cardinality(mine)
                       /\ mine = {} => f.rowno = -1
                       /\ mine # {} => f.rowno \in mine /\ \A r \in mine : f.rowno <= r
  BY DEF KeysFound
<1>1. PICK mine, f, m : mine = RowsOf(k, m) /\ f = multi_hash_find(k) /\ m = Len(rows)
  OBVIOUS
<1>2. PlacesTell(m) /\ AllHeld(m) /\ DOMAIN stack = {}
  BY <1>1 DEF HashInv, RowsTaken
<1>3. CASE mine = {}
  <2>1. \A p \in Places : Filled(p) => KeyIn(p) # k
    BY <1>1, <1>2, <1>3 DEF PlacesTell, Tells, KeyIn, RowsOf
  <2>2. PICK g \in [0 .. places -> Places] :
          f = LET a == hash[g[places]] IN IF a.rowno # -1 /\ KeyAt(a.rowno) = k THEN a ELSE NoRow
    BY <1>1, FindWalk
  <2>3. g[places] \in Places
    BY DEF HashInv, HashTypes
  <2>4. f = NoRow
    BY <2>1, <2>2, <2>3 DEF Filled, KeyIn
  <2>5. Cardinality(mine) = 0
    BY <1>3, FS_EmptySet
  <2>6. f.count = Cardinality(mine) /\ f.rowno = -1
    BY <2>4, <2>5 DEF NoRow
  <2> QED BY <1>1, <1>3, <2>6 DEF RowsOf
<1>4. CASE mine # {}
  <2>1. PICK r \in 0 .. m - 1 : KeyAt(r) = k
    BY <1>1, <1>4 DEF RowsOf
  <2>2. PICK x \in Places : Filled(x) /\ KeyIn(x) = k
    BY <1>2, <2>1 DEF AllHeld
  <2>3. f = hash[x]
    BY <1>1, <2>2, FindEnds
  <2>4. Tells(f, m) /\ KeyAt(f.rowno) = k
    BY <1>2, <2>2, <2>3 DEF PlacesTell, KeyIn
  <2> QED BY <1>1, <1>4, <2>4 DEF Tells, RowsOf
<1> QED BY <1>3, <1>4

LEMMA KeysFinite ==
  ASSUME HashTypes
  PROVE  IsFiniteSet(KeysIn(rows)) /\ Cardinality(KeysIn(rows)) \in Nat
<1>1. KeysIn(rows) \subseteq HashKeys
  BY DEF HashTypes, KeysIn
<1>2. IsFiniteSet(KeysIn(rows))
  BY <1>1, HashAssumption, FS_Subset
<1> QED BY <1>2, FS_CardinalityType

LEMMA KeyOfRow ==
  ASSUME HashTypes
  PROVE  /\ \A r \in 0 .. Len(rows) - 1 : KeyAt(r) \in KeysIn(rows) /\ KeyAt(r) \in HashKeys
         /\ \A a \in KeysIn(rows) : \E r \in 0 .. Len(rows) - 1 : KeyAt(r) = a
<1>1. PICK n : n = Len(rows) /\ n \in Nat /\ DOMAIN rows = 1 .. n /\ \A i \in 1 .. n : rows[i] \in HashKeys
  BY DEF HashTypes
<1>2. ASSUME NEW r \in 0 .. n - 1 PROVE KeyAt(r) \in KeysIn(rows) /\ KeyAt(r) \in HashKeys
  <2>1. r + 1 \in 1 .. n
    BY <1>1
  <2> QED BY <1>1, <2>1 DEF KeyAt, KeysIn
<1>3. ASSUME NEW a \in KeysIn(rows) PROVE \E r \in 0 .. n - 1 : KeyAt(r) = a
  <2>1. PICK i \in 1 .. n : rows[i] = a
    BY <1>1 DEF KeysIn
  <2>2. PICK r : r = i - 1
    OBVIOUS
  <2>3. r \in 0 .. n - 1 /\ r + 1 = i
    BY <1>1, <2>2
  <2> QED BY <2>1, <2>3 DEF KeyAt
<1> QED BY <1>1, <1>2, <1>3

LEMMA EachPlacedAt == HashInv => EachPlaced
<1> SUFFICES ASSUME HashInv, doing = "done" PROVE EachPlaced
  BY DEF EachPlaced
<1>1. PICK P, K, m : P = {p \in Places : Filled(p)} /\ K = KeysIn(rows) /\ m = Len(rows)
  OBVIOUS
<1>2. stack = <<>> /\ PlacesTell(m) /\ AllHeld(m) /\ HashTypes
  BY <1>1 DEF HashInv, RowsTaken
<1>3. IsFiniteSet(K)
  BY <1>1, <1>2, KeysFinite
<1>4. PICK f : f = [p \in P |-> KeyIn(p)]
  OBVIOUS
<1>5. f \in Injection(P, K) /\ f \in Surjection(P, K)
  <2>1. \A p \in P : KeyIn(p) \in K
    <3>1. \A p \in P : hash[p].rowno \in 0 .. m - 1
      BY <1>1, <1>2 DEF PlacesTell, Tells, RowsOf
    <3> QED BY <1>1, <1>2, <3>1, KeyOfRow DEF KeyIn
  <2>2. \A p, q \in P : KeyIn(p) = KeyIn(q) => p = q
    BY <1>1, <1>2 DEF PlacesTell
  <2>3. ASSUME NEW a \in K PROVE \E p \in P : KeyIn(p) = a
    <3>1. PICK r \in 0 .. m - 1 : KeyAt(r) = a
      BY <1>1, <1>2, KeyOfRow
    <3>2. DOMAIN stack = {}
      BY <1>2
    <3> QED BY <1>1, <1>2, <3>1, <3>2 DEF AllHeld
  <2>4. f \in [P -> K] /\ (\A p, q \in P : f[p] = f[q] => p = q) /\ (\A a \in K : \E p \in P : f[p] = a)
    BY <1>4, <2>1, <2>2, <2>3
  <2> QED BY <2>4 DEF Injection, Surjection, IsInjective
<1>6. Cardinality(P) = Cardinality(K)
  BY <1>3, <1>5, FS_Injection
<1> QED BY <1>1, <1>2, <1>6 DEF EachPlaced, Filled

\* One row more.
LEMMA RowsOfMore ==
  ASSUME NEW m \in Nat, NEW k
  PROVE  /\ KeyAt(m) = k => /\ RowsOf(k, m + 1) = RowsOf(k, m) \cup {m}
                            /\ Cardinality(RowsOf(k, m + 1)) = Cardinality(RowsOf(k, m)) + 1
         /\ KeyAt(m) # k => RowsOf(k, m + 1) = RowsOf(k, m)
         /\ Cardinality(RowsOf(k, m)) \in Nat
<1>1. PICK S : S = RowsOf(k, m)
  OBVIOUS
<1>2. S \subseteq 0 .. m - 1
  BY <1>1 DEF RowsOf
<1>3. IsFiniteSet(0 .. m - 1)
  BY FS_Interval
<1>4. IsFiniteSet(S) /\ Cardinality(S) \in Nat
  BY <1>2, <1>3, FS_Subset, FS_CardinalityType
<1>5. \A r : r \in 0 .. (m + 1) - 1 <=> r \in 0 .. m - 1 \/ r = m
  OBVIOUS
<1>6. ASSUME KeyAt(m) = k PROVE RowsOf(k, m + 1) = S \cup {m}
  BY <1>1, <1>5, <1>6 DEF RowsOf
<1>7. m \notin S
  BY <1>2
<1>8. Cardinality(S \cup {m}) = Cardinality(S) + 1
  BY <1>4, <1>7, FS_AddElement
<1>9. ASSUME KeyAt(m) # k PROVE RowsOf(k, m + 1) = S
  BY <1>1, <1>5, <1>9 DEF RowsOf
<1> QED BY <1>1, <1>4, <1>6, <1>8, <1>9

LEMMA TellsStill ==
  ASSUME NEW m \in Nat, NEW e, Tells(e, m), KeyAt(e.rowno) # KeyAt(m)
  PROVE  Tells(e, m + 1)
<1>1. RowsOf(KeyAt(e.rowno), m + 1) = RowsOf(KeyAt(e.rowno), m)
  BY RowsOfMore
<1> QED BY <1>1 DEF Tells

LEMMA TellsOneMore ==
  ASSUME NEW m \in Nat, NEW e \in Entry, Tells(e, m), KeyAt(e.rowno) = KeyAt(m)
  PROVE  Tells([e EXCEPT !.count = @ + 1], m + 1)
<1>1. PICK k, f : k = KeyAt(m) /\ f = [e EXCEPT !.count = @ + 1]
  OBVIOUS
<1>2. f.rowno = e.rowno /\ f.count = e.count + 1 /\ KeyAt(f.rowno) = k
  BY <1>1 DEF Entry
<1>3. /\ RowsOf(k, m + 1) = RowsOf(k, m) \cup {m}
      /\ Cardinality(RowsOf(k, m + 1)) = Cardinality(RowsOf(k, m)) + 1
  BY <1>1, RowsOfMore
<1>4. /\ e.rowno \in RowsOf(k, m) /\ (\A r \in RowsOf(k, m) : e.rowno <= r)
      /\ e.count = Cardinality(RowsOf(k, m))
  BY <1>1 DEF Tells
<1>5. e.rowno <= m
  <2>1. PICK x : x = e.rowno
    OBVIOUS
  <2>2. x \in 0 .. m - 1
    BY <1>4, <2>1 DEF RowsOf
  <2> QED BY <2>1, <2>2
<1>6. \A r \in RowsOf(k, m + 1) : f.rowno <= r
  BY <1>2, <1>3, <1>4, <1>5
<1>7. f.rowno \in RowsOf(k, m + 1) /\ f.count = Cardinality(RowsOf(k, m + 1))
  BY <1>2, <1>3, <1>4
<1>8. Tells(f, m + 1)
  BY <1>2, <1>6, <1>7 DEF Tells
<1> QED BY <1>1, <1>8

LEMMA TellsFirst ==
  ASSUME NEW m \in Nat, NEW l, RowsOf(KeyAt(m), m) = {}
  PROVE  Tells([rowno |-> m, link |-> l, count |-> 1], m + 1)
<1>1. PICK k, f : k = KeyAt(m) /\ f = [rowno |-> m, link |-> l, count |-> 1]
  OBVIOUS
<1>2. RowsOf(k, m + 1) = {m} /\ Cardinality(RowsOf(k, m + 1)) = Cardinality({}) + 1
  BY <1>1, RowsOfMore
<1>3. Cardinality(RowsOf(k, m + 1)) = 1
  BY <1>2, FS_EmptySet
<1>4. Tells(f, m + 1)
  BY <1>1, <1>2, <1>3 DEF Tells
<1> QED BY <1>1, <1>4

\* The invariant of the next state, said of its places H and its stack S.
Renewed(H, S, m) ==
  /\ \A p \in Places : IF H[p].rowno # -1 THEN Tells(H[p], m) ELSE H[p] = NoRow
  /\ \A p, q \in Places :
       H[p].rowno # -1 /\ H[q].rowno # -1 /\ KeyAt(H[p].rowno) = KeyAt(H[q].rowno) => p = q
  /\ \A i \in DOMAIN S : Tells(S[i], m)
  /\ \A i, j \in DOMAIN S : i < j => S[j].rowno < S[i].rowno
  /\ \A i \in DOMAIN S : S[i].link = hashnum[KeyAt(S[i].rowno)]
  /\ \A i \in DOMAIN S : H[S[i].link].rowno # -1 /\ hashnum[KeyAt(H[S[i].link].rowno)] = S[i].link
  /\ \A i \in DOMAIN S, p \in Places : H[p].rowno # -1 => KeyAt(H[p].rowno) # KeyAt(S[i].rowno)
  /\ \A r \in 0 .. m - 1 :
       \/ \E p \in Places : H[p].rowno # -1 /\ KeyAt(H[p].rowno) = KeyAt(r)
       \/ \E i \in DOMAIN S : KeyAt(S[i].rowno) = KeyAt(r)

LEMMA HeldNext ==
  ASSUME NEW H, NEW S, H = hash', S = stack', NEW m,
         rows' = rows, places' = places, hashnum' = hashnum, Renewed(H, S, m)
  PROVE  PlacesTell(m)' /\ StackTells(m)' /\ StackWaits' /\ AllHeld(m)'
<1>1. Places' = Places
  BY DEF Places
<1>2. PlacesTell(m)'
  <2>1. ASSUME NEW p \in Places PROVE (IF Filled(p) THEN Tells(hash[p], m) ELSE hash[p] = NoRow)'
    <3>1. CASE H[p].rowno # -1
      <4>1. Tells(H[p], m)
        BY <3>1 DEF Renewed
      <4>2. Tells(hash[p], m)'
        BY <4>1 DEF Tells, RowsOf, KeyAt
      <4> QED BY <3>1, <4>2 DEF Filled
    <3>2. CASE H[p].rowno = -1
      BY <3>2 DEF Renewed, Filled, NoRow
    <3> QED BY <3>1, <3>2
  <2>2. (\A p, q \in Places : Filled(p) /\ Filled(q) /\ KeyIn(p) = KeyIn(q) => p = q)'
    BY <1>1 DEF Renewed, Filled, KeyIn, KeyAt
  <2> QED BY <1>1, <2>1, <2>2 DEF PlacesTell
<1>3. StackTells(m)'
  BY DEF Renewed, StackTells, Tells, RowsOf, KeyAt
<1>4. StackWaits'
  BY <1>1 DEF Renewed, StackWaits, KeyOnStack, KeyAt, Filled, KeyIn, HomeOf
<1>5. AllHeld(m)'
  BY <1>1 DEF Renewed, AllHeld, KeyOnStack, KeyAt, Filled, KeyIn
<1> QED BY <1>2, <1>3, <1>4, <1>5

\* The same invariant of this state.
LEMMA HeldNow ==
  ASSUME HashTypes, doing # "none", NEW m \in 0 .. Len(rows),
         PlacesTell(m), StackTells(m), StackWaits, AllHeld(m)
  PROVE  /\ Renewed(hash, stack, m)
         /\ \A p \in Places : Filled(p) => KeyIn(p) \in HashKeys /\ hash[p].rowno \in RowsOf(KeyIn(p), m)
         /\ \A i \in DOMAIN stack : /\ KeyOnStack(i) \in HashKeys /\ stack[i].rowno \in RowsOf(KeyOnStack(i), m)
                                    /\ stack[i].link \in Places
<1>1. Renewed(hash, stack, m)
  BY DEF Renewed, PlacesTell, StackTells, StackWaits, AllHeld, Filled, KeyIn, KeyOnStack, HomeOf
<1>2. \A r \in 0 .. m - 1 : KeyAt(r) \in HashKeys
  <2>1. \A r \in 0 .. m - 1 : r \in 0 .. Len(rows) - 1
    BY DEF HashTypes
  <2> QED BY <2>1, KeyOfRow
<1>3. ASSUME NEW p \in Places, Filled(p) PROVE KeyIn(p) \in HashKeys /\ hash[p].rowno \in RowsOf(KeyIn(p), m)
  <2>1. hash[p].rowno \in RowsOf(KeyIn(p), m)
    BY <1>3 DEF PlacesTell, Tells, KeyIn
  <2> QED BY <1>2, <2>1 DEF RowsOf, KeyIn
<1>4. ASSUME NEW i \in DOMAIN stack
      PROVE  /\ KeyOnStack(i) \in HashKeys /\ stack[i].rowno \in RowsOf(KeyOnStack(i), m)
             /\ stack[i].link \in Places
  <2>1. stack[i].rowno \in RowsOf(KeyOnStack(i), m)
    BY DEF StackTells, Tells, KeyOnStack
  <2>2. KeyOnStack(i) \in HashKeys
    BY <1>2, <2>1 DEF RowsOf, KeyOnStack
  <2>3. stack[i].link = hashnum[KeyOnStack(i)]
    BY DEF StackWaits
  <2> QED BY <2>1, <2>2, <2>3 DEF HashTypes
<1> QED BY <1>1, <1>3, <1>4

\* The places H and the stack S after one more row, with the places still at home.
RowTaken(H, S, m) ==
  /\ H \in [Places -> Entry] /\ S \in Seq(Entry) /\ Renewed(H, S, m)
  /\ \A p \in Places : H[p].rowno # -1 => hashnum[KeyAt(H[p].rowno)] = p /\ H[p].link = -1

\* What the three branches start from.
RowAhead(m, k, h) ==
  /\ HashTypes /\ m \in Nat /\ m < Len(rows) /\ k = KeyAt(m) /\ h \in Places /\ h = hashnum[k]
  /\ hash \in [Places -> Entry] /\ stack \in Seq(Entry) /\ Renewed(hash, stack, m)
  /\ \A p \in Places : Filled(p) => /\ KeyIn(p) \in HashKeys /\ hash[p].rowno \in RowsOf(KeyIn(p), m)
                                    /\ HomeOf(p) = p /\ hash[p].link = -1
  /\ \A i \in DOMAIN stack : /\ KeyOnStack(i) \in HashKeys /\ stack[i].rowno \in RowsOf(KeyOnStack(i), m)
                             /\ stack[i].link \in Places

LEMMA NoRowsYet ==
  ASSUME NEW m, NEW k, NEW h, RowAhead(m, k, h)
  PROVE  /\ (\A p \in Places : Filled(p) => KeyIn(p) # k) /\ (\A i \in DOMAIN stack : KeyOnStack(i) # k)
              => RowsOf(k, m) = {}
         /\ RowsOf(k, m) = {} => (\A p \in Places : Filled(p) => KeyIn(p) # k) /\ (\A i \in DOMAIN stack : KeyOnStack(i) # k)
  BY DEF RowAhead, Renewed, RowsOf, Filled, KeyIn, KeyOnStack

\* A new key in its place.
LEMMA NewKey ==
  ASSUME NEW m, NEW k, NEW h, RowAhead(m, k, h), ~Filled(h),
         NEW H, H = [hash EXCEPT ![h] = [rowno |-> m, link |-> -1, count |-> 1]]
  PROVE  RowTaken(H, stack, m + 1)
<1>0. PICK e : e = [rowno |-> m, link |-> -1, count |-> 1]
  OBVIOUS
<1>1. /\ m \in Nat /\ k = KeyAt(m) /\ h \in Places /\ h = hashnum[k] /\ Renewed(hash, stack, m)
      /\ hash \in [Places -> Entry] /\ stack \in Seq(Entry)
  BY DEF RowAhead
<1>2. e.rowno = m /\ e.link = -1 /\ m # -1 /\ e \in Entry
  BY <1>0, <1>1 DEF Entry
<1>3. H[h] = e /\ (\A p \in Places : p # h => H[p] = hash[p]) /\ H \in [Places -> Entry]
  BY <1>0, <1>1, <1>2
<1>4. RowsOf(k, m) = {}
  <2>1. \A p \in Places : Filled(p) => KeyIn(p) # k
    <3>1. ASSUME NEW p \in Places, Filled(p), KeyIn(p) = k PROVE FALSE
      <4>1. p = h
        BY <1>1, <3>1 DEF RowAhead, HomeOf
      <4> QED BY <3>1, <4>1
    <3> QED BY <3>1
  <2>2. \A i \in DOMAIN stack : KeyOnStack(i) # k
    <3>1. ASSUME NEW i \in DOMAIN stack, KeyOnStack(i) = k PROVE FALSE
      <4>1. stack[i].link = h
        BY <1>1, <3>1 DEF Renewed, KeyOnStack
      <4> QED BY <1>1, <4>1 DEF Renewed, Filled
    <3> QED BY <3>1
  <2> QED BY <2>1, <2>2, NoRowsYet
<1>5. (\A p \in Places : Filled(p) => KeyIn(p) # k) /\ (\A i \in DOMAIN stack : KeyOnStack(i) # k)
  BY <1>4, NoRowsYet
<1>6. Tells(e, m + 1)
  BY <1>0, <1>1, <1>4, TellsFirst
<1>7. ASSUME NEW p \in Places PROVE IF H[p].rowno # -1 THEN Tells(H[p], m + 1) ELSE H[p] = NoRow
  <2>1. CASE p = h
    BY <1>2, <1>3, <1>6, <2>1
  <2>2. CASE p # h /\ Filled(p)
    <3>1. Tells(hash[p], m) /\ KeyAt(hash[p].rowno) # KeyAt(m)
      BY <1>1, <1>5, <2>2 DEF Renewed, Filled, KeyIn
    <3>2. Tells(hash[p], m + 1)
      BY <1>1, <3>1, TellsStill
    <3> QED BY <1>3, <2>2, <3>2 DEF Filled
  <2>3. CASE p # h /\ ~Filled(p)
    BY <1>1, <1>3, <2>3 DEF Renewed, Filled
  <2> QED BY <2>1, <2>2, <2>3
<1>8. \A p, q \in Places :
       H[p].rowno # -1 /\ H[q].rowno # -1 /\ KeyAt(H[p].rowno) = KeyAt(H[q].rowno) => p = q
  BY <1>1, <1>2, <1>3, <1>5 DEF Renewed, Filled, KeyIn
<1>9. ASSUME NEW i \in DOMAIN stack PROVE Tells(stack[i], m + 1)
  <2>1. Tells(stack[i], m) /\ KeyAt(stack[i].rowno) # KeyAt(m)
    BY <1>1, <1>5 DEF Renewed, KeyOnStack
  <2> QED BY <1>1, <2>1, TellsStill
<1>10. ASSUME NEW i \in DOMAIN stack
       PROVE  H[stack[i].link].rowno # -1 /\ hashnum[KeyAt(H[stack[i].link].rowno)] = stack[i].link
  <2>1. PICK l \in Places : l = stack[i].link
    BY DEF RowAhead
  <2>2. hash[l].rowno # -1 /\ hashnum[KeyAt(hash[l].rowno)] = l
    BY <1>1, <2>1 DEF Renewed
  <2>3. H[l] = hash[l]
    BY <1>3, <2>2 DEF Filled
  <2> QED BY <2>1, <2>2, <2>3
<1>11. \A i \in DOMAIN stack, p \in Places : H[p].rowno # -1 => KeyAt(H[p].rowno) # KeyAt(stack[i].rowno)
  BY <1>1, <1>2, <1>3, <1>5 DEF Renewed, KeyOnStack
<1>12. ASSUME NEW r \in 0 .. (m + 1) - 1
       PROVE  \/ \E p \in Places : H[p].rowno # -1 /\ KeyAt(H[p].rowno) = KeyAt(r)
              \/ \E i \in DOMAIN stack : KeyAt(stack[i].rowno) = KeyAt(r)
  <2>1. CASE r = m
    BY <1>1, <1>2, <1>3, <2>1
  <2>2. CASE r \in 0 .. m - 1
    <3>1. \A p \in Places : hash[p].rowno # -1 => H[p] = hash[p]
      BY <1>3 DEF Filled
    <3>2. \/ \E p \in Places : hash[p].rowno # -1 /\ KeyAt(hash[p].rowno) = KeyAt(r)
          \/ \E i \in DOMAIN stack : KeyAt(stack[i].rowno) = KeyAt(r)
      BY <1>1, <2>2 DEF Renewed
    <3> QED BY <3>1, <3>2
  <2> QED BY <1>1, <2>1, <2>2
<1>13. (\A i, j \in DOMAIN stack : i < j => stack[j].rowno < stack[i].rowno)
       /\ (\A i \in DOMAIN stack : stack[i].link = hashnum[KeyAt(stack[i].rowno)])
  BY <1>1 DEF Renewed
<1>14. Renewed(H, stack, m + 1)
  BY <1>7, <1>8, <1>9, <1>10, <1>11, <1>12, <1>13 DEF Renewed
<1>15. \A p \in Places : H[p].rowno # -1 => hashnum[KeyAt(H[p].rowno)] = p /\ H[p].link = -1
  BY <1>1, <1>2, <1>3 DEF RowAhead, Filled, KeyIn, HomeOf
<1> QED BY <1>1, <1>3, <1>14, <1>15 DEF RowTaken

\* One more row of the key in its place.
LEMMA SameKey ==
  ASSUME NEW m, NEW k, NEW h, RowAhead(m, k, h), Filled(h), KeyIn(h) = k,
         NEW H, H = [hash EXCEPT ![h].count = @ + 1]
  PROVE  RowTaken(H, stack, m + 1)
<1>1. /\ m \in Nat /\ k = KeyAt(m) /\ h \in Places /\ h = hashnum[k] /\ Renewed(hash, stack, m)
      /\ hash \in [Places -> Entry] /\ stack \in Seq(Entry)
  BY DEF RowAhead
<1>2. PICK e \in Entry : e = hash[h]
  BY <1>1
<1>3. PICK f : f = [e EXCEPT !.count = @ + 1]
  OBVIOUS
<1>4. f \in Entry /\ f.rowno = e.rowno /\ f.link = e.link
  BY <1>2, <1>3 DEF Entry
<1>5. H = [hash EXCEPT ![h] = f]
  BY <1>2, <1>3
<1>6. H[h] = f /\ (\A p \in Places : p # h => H[p] = hash[p]) /\ H \in [Places -> Entry]
  BY <1>1, <1>4, <1>5
<1>7. \A p \in Places : H[p].rowno = hash[p].rowno /\ H[p].link = hash[p].link
  BY <1>2, <1>4, <1>6
<1>8. \A p \in Places : p # h /\ Filled(p) => KeyIn(p) # k
  BY <1>1 DEF Renewed, Filled, KeyIn
<1>9. \A i \in DOMAIN stack : KeyOnStack(i) # k
  BY <1>1 DEF Renewed, Filled, KeyIn, KeyOnStack
<1>10. ASSUME NEW p \in Places PROVE IF H[p].rowno # -1 THEN Tells(H[p], m + 1) ELSE H[p] = NoRow
  <2>1. CASE p = h
    <3>1. Tells(e, m) /\ KeyAt(e.rowno) = KeyAt(m)
      BY <1>1, <1>2 DEF Renewed, Filled, KeyIn
    <3>2. Tells(f, m + 1)
      BY <1>1, <1>3, <3>1, TellsOneMore
    <3>3. f.rowno # -1
      BY <1>2, <1>4 DEF Filled
    <3> QED BY <1>6, <2>1, <3>2, <3>3
  <2>2. CASE p # h /\ Filled(p)
    <3>1. Tells(hash[p], m) /\ KeyAt(hash[p].rowno) # KeyAt(m)
      BY <1>1, <1>8, <2>2 DEF Renewed, Filled, KeyIn
    <3>2. Tells(hash[p], m + 1)
      BY <1>1, <3>1, TellsStill
    <3> QED BY <1>6, <2>2, <3>2 DEF Filled
  <2>3. CASE p # h /\ ~Filled(p)
    BY <1>1, <1>6, <2>3 DEF Renewed, Filled
  <2> QED BY <2>1, <2>2, <2>3
<1>11. ASSUME NEW i \in DOMAIN stack PROVE Tells(stack[i], m + 1)
  <2>1. Tells(stack[i], m) /\ KeyAt(stack[i].rowno) # KeyAt(m)
    BY <1>1, <1>9 DEF Renewed, KeyOnStack
  <2> QED BY <1>1, <2>1, TellsStill
<1>12. \A p, q \in Places :
       H[p].rowno # -1 /\ H[q].rowno # -1 /\ KeyAt(H[p].rowno) = KeyAt(H[q].rowno) => p = q
  BY <1>1, <1>7 DEF Renewed
<1>13. ASSUME NEW i \in DOMAIN stack
       PROVE  H[stack[i].link].rowno # -1 /\ hashnum[KeyAt(H[stack[i].link].rowno)] = stack[i].link
  <2>1. PICK l \in Places : l = stack[i].link
    BY DEF RowAhead
  <2>2. hash[l].rowno # -1 /\ hashnum[KeyAt(hash[l].rowno)] = l
    BY <1>1, <2>1 DEF Renewed
  <2> QED BY <1>7, <2>1, <2>2
<1>14. \A i \in DOMAIN stack, p \in Places : H[p].rowno # -1 => KeyAt(H[p].rowno) # KeyAt(stack[i].rowno)
  BY <1>1, <1>7 DEF Renewed
<1>15. ASSUME NEW r \in 0 .. (m + 1) - 1
       PROVE  \/ \E p \in Places : H[p].rowno # -1 /\ KeyAt(H[p].rowno) = KeyAt(r)
              \/ \E i \in DOMAIN stack : KeyAt(stack[i].rowno) = KeyAt(r)
  <2>1. CASE r = m
    BY <1>1, <1>7, <2>1 DEF Filled, KeyIn
  <2>2. CASE r \in 0 .. m - 1
    <3>1. \/ \E p \in Places : hash[p].rowno # -1 /\ KeyAt(hash[p].rowno) = KeyAt(r)
          \/ \E i \in DOMAIN stack : KeyAt(stack[i].rowno) = KeyAt(r)
      BY <1>1, <2>2 DEF Renewed
    <3> QED BY <1>7, <3>1
  <2> QED BY <1>1, <2>1, <2>2
<1>16. (\A i, j \in DOMAIN stack : i < j => stack[j].rowno < stack[i].rowno)
       /\ (\A i \in DOMAIN stack : stack[i].link = hashnum[KeyAt(stack[i].rowno)])
  BY <1>1 DEF Renewed
<1>17. Renewed(H, stack, m + 1)
  BY <1>10, <1>11, <1>12, <1>13, <1>14, <1>15, <1>16 DEF Renewed
<1>18. \A p \in Places : H[p].rowno # -1 => hashnum[KeyAt(H[p].rowno)] = p /\ H[p].link = -1
  BY <1>7 DEF RowAhead, Filled, KeyIn, HomeOf
<1> QED BY <1>1, <1>6, <1>17, <1>18 DEF RowTaken

\* One more row of the key on top of the stack.
LEMMA SameTop ==
  ASSUME NEW m, NEW k, NEW h, RowAhead(m, k, h), stack # <<>>, KeyOnStack(1) = k,
         NEW S, S = [stack EXCEPT ![1].count = @ + 1]
  PROVE  RowTaken(hash, S, m + 1)
<1>1. /\ m \in Nat /\ k = KeyAt(m) /\ h \in Places /\ h = hashnum[k] /\ Renewed(hash, stack, m)
      /\ hash \in [Places -> Entry] /\ stack \in Seq(Entry)
  BY DEF RowAhead
<1>2. PICK n \in Nat : n = Len(stack) /\ DOMAIN stack = 1 .. n /\ 1 \in 1 .. n /\ stack \in [1 .. n -> Entry]
  BY <1>1
<1>3. PICK e \in Entry : e = stack[1]
  BY <1>2
<1>4. PICK f : f = [e EXCEPT !.count = @ + 1]
  OBVIOUS
<1>5. f \in Entry /\ f.rowno = e.rowno /\ f.link = e.link
  BY <1>3, <1>4 DEF Entry
<1>6. S = [stack EXCEPT ![1] = f]
  BY <1>3, <1>4
<1>7. DOMAIN S = 1 .. n /\ S[1] = f /\ (\A i \in 1 .. n : i # 1 => S[i] = stack[i]) /\ S \in [1 .. n -> Entry]
  BY <1>2, <1>5, <1>6
<1>8. S \in Seq(Entry)
  BY <1>2, <1>7
<1>9. \A i \in 1 .. n : S[i].rowno = stack[i].rowno /\ S[i].link = stack[i].link
  BY <1>3, <1>5, <1>7
<1>10. \A p \in Places : Filled(p) => KeyIn(p) # k
  BY <1>1, <1>2 DEF Renewed, Filled, KeyIn, KeyOnStack
<1>11. ASSUME NEW i \in 1 .. n, i # 1 PROVE KeyOnStack(i) # k
  <2>1. SUFFICES ASSUME KeyOnStack(i) = k PROVE FALSE
    OBVIOUS
  <2>2. stack[i].rowno < stack[1].rowno
    BY <1>1, <1>2, <1>11 DEF Renewed
  <2>3. Tells(stack[1], m) /\ Tells(stack[i], m)
    BY <1>1, <1>2 DEF Renewed
  <2>4. stack[i].rowno \in RowsOf(k, m) /\ (\A r \in RowsOf(k, m) : stack[1].rowno <= r)
    BY <2>1, <2>3 DEF Tells, KeyOnStack
  <2>5. PICK a, b : a = stack[1].rowno /\ b = stack[i].rowno
    OBVIOUS
  <2>6. a \in Int /\ b \in Int
    BY <1>2, <2>5 DEF Entry
  <2>7. b < a /\ a <= b
    BY <2>2, <2>4, <2>5
  <2> QED BY <2>6, <2>7
<1>12. ASSUME NEW p \in Places PROVE IF hash[p].rowno # -1 THEN Tells(hash[p], m + 1) ELSE hash[p] = NoRow
  <2>1. CASE Filled(p)
    <3>1. Tells(hash[p], m) /\ KeyAt(hash[p].rowno) # KeyAt(m)
      BY <1>1, <1>10, <2>1 DEF Renewed, Filled, KeyIn
    <3>2. Tells(hash[p], m + 1)
      BY <1>1, <3>1, TellsStill
    <3> QED BY <2>1, <3>2 DEF Filled
  <2>2. CASE ~Filled(p)
    BY <1>1, <2>2 DEF Renewed, Filled
  <2> QED BY <2>1, <2>2
<1>13. ASSUME NEW i \in 1 .. n PROVE Tells(S[i], m + 1)
  <2>1. CASE i = 1
    <3>1. Tells(e, m) /\ KeyAt(e.rowno) = KeyAt(m)
      BY <1>1, <1>2, <1>3 DEF Renewed, KeyOnStack
    <3> QED BY <1>1, <1>4, <1>7, <2>1, <3>1, TellsOneMore
  <2>2. CASE i # 1
    <3>1. Tells(stack[i], m) /\ KeyAt(stack[i].rowno) # KeyAt(m)
      BY <1>1, <1>2, <1>11, <2>2 DEF Renewed, KeyOnStack
    <3> QED BY <1>1, <1>7, <2>2, <3>1, TellsStill
  <2> QED BY <2>1, <2>2
<1>14. \A p, q \in Places :
       hash[p].rowno # -1 /\ hash[q].rowno # -1 /\ KeyAt(hash[p].rowno) = KeyAt(hash[q].rowno) => p = q
  BY <1>1 DEF Renewed
<1>15. \A i, j \in 1 .. n : i < j => S[j].rowno < S[i].rowno
  BY <1>1, <1>2, <1>9 DEF Renewed
<1>16. \A i \in 1 .. n :
         /\ S[i].link = hashnum[KeyAt(S[i].rowno)]
         /\ hash[S[i].link].rowno # -1 /\ hashnum[KeyAt(hash[S[i].link].rowno)] = S[i].link
  BY <1>1, <1>2, <1>9 DEF Renewed
<1>17. \A i \in 1 .. n, p \in Places : hash[p].rowno # -1 => KeyAt(hash[p].rowno) # KeyAt(S[i].rowno)
  BY <1>1, <1>2, <1>9 DEF Renewed
<1>18. ASSUME NEW r \in 0 .. (m + 1) - 1
       PROVE  \/ \E p \in Places : hash[p].rowno # -1 /\ KeyAt(hash[p].rowno) = KeyAt(r)
              \/ \E i \in 1 .. n : KeyAt(S[i].rowno) = KeyAt(r)
  <2>1. CASE r = m
    BY <1>1, <1>2, <1>9, <2>1 DEF KeyOnStack
  <2>2. CASE r \in 0 .. m - 1
    <3>1. \/ \E p \in Places : hash[p].rowno # -1 /\ KeyAt(hash[p].rowno) = KeyAt(r)
          \/ \E i \in 1 .. n : KeyAt(stack[i].rowno) = KeyAt(r)
      BY <1>1, <1>2, <2>2 DEF Renewed
    <3> QED BY <1>9, <3>1
  <2> QED BY <1>1, <2>1, <2>2
<1>19. Renewed(hash, S, m + 1)
  BY <1>7, <1>12, <1>13, <1>14, <1>15, <1>16, <1>17, <1>18 DEF Renewed
<1> QED BY <1>1, <1>8, <1>19 DEF RowTaken, RowAhead, Filled, KeyIn, HomeOf

\* A key whose place another one has: it has no row before.
LEMMA ForTheStack ==
  ASSUME NEW m, NEW k, NEW h, RowAhead(m, k, h), Filled(h), KeyIn(h) # k,
         ~(stack # <<>> /\ KeyOnStack(1) = k),
         NEW S, S = <<[rowno |-> m, link |-> h, count |-> 1]>> \o stack
  PROVE  RowTaken(hash, S, m + 1)
<1>1. /\ m \in Nat /\ k = KeyAt(m) /\ h \in Places /\ h = hashnum[k] /\ Renewed(hash, stack, m)
      /\ hash \in [Places -> Entry] /\ stack \in Seq(Entry)
  BY DEF RowAhead
<1>2. PICK n \in Nat : n = Len(stack) /\ DOMAIN stack = 1 .. n /\ stack \in [1 .. n -> Entry]
  BY <1>1
<1>3. PICK e : e = [rowno |-> m, link |-> h, count |-> 1]
  OBVIOUS
<1>4. e \in Entry /\ e.rowno = m /\ e.link = h
  <2>1. h \in Int
    BY <1>1 DEF Places
  <2> QED BY <1>1, <1>3, <2>1 DEF Entry
<1>5. /\ DOMAIN S = 1 .. n + 1 /\ S[1] = e /\ (\A i \in 2 .. n + 1 : S[i] = stack[i - 1])
      /\ S \in Seq(Entry) /\ (\A i \in 1 .. n : i + 1 \in 2 .. n + 1 /\ S[i + 1] = stack[i])
  BY <1>1, <1>2, <1>3, <1>4
<1>6. \A i \in 1 .. n + 1 : i = 1 \/ (i \in 2 .. n + 1 /\ i - 1 \in 1 .. n)
  BY <1>2
<1>7. \A p \in Places : Filled(p) => KeyIn(p) # k
  BY <1>1 DEF RowAhead, HomeOf
<1>8. \A i \in 1 .. n : stack[i].rowno \in 0 .. m - 1 /\ KeyAt(stack[i].rowno) = KeyOnStack(i)
  BY <1>2 DEF RowAhead, RowsOf, KeyOnStack
\* Its rows would go on without the top of the stack between.
<1>9. ASSUME NEW i \in 1 .. n PROVE KeyOnStack(i) # k
  <2>1. SUFFICES ASSUME KeyOnStack(i) = k PROVE FALSE
    OBVIOUS
  <2>2. 1 \in 1 .. n /\ stack # <<>>
    BY <1>2
  <2>3. KeyOnStack(1) # k /\ i # 1
    BY <2>1, <2>2
  <2>4. PICK a, b : a = stack[i].rowno /\ b = stack[1].rowno
    OBVIOUS
  <2>5. a < b
    <3>1. 1 < i
      BY <1>2, <2>3
    <3> QED BY <1>1, <1>2, <2>2, <2>4, <3>1 DEF Renewed
  <2>6. a \in 0 .. m - 1 /\ b \in 0 .. m - 1 /\ KeyAt(a) = k /\ KeyAt(b) # k
    BY <1>8, <2>1, <2>2, <2>3, <2>4
  <2>7. PICK N \in Nat : N = Len(rows) /\ DOMAIN rows = 1 .. N /\ m < N
    BY DEF RowAhead, HashTypes
  <2>8. a + 1 \in 1 .. N /\ m + 1 \in 1 .. N /\ a + 1 < m + 1 /\ b + 1 \in a + 1 .. m + 1
    BY <1>1, <2>5, <2>6, <2>7
  <2>9. rows[a + 1] = rows[m + 1]
    BY <1>1, <2>6 DEF KeyAt
  <2>10. Grouped(rows)
    BY <1>2 DEF RowAhead, HashTypes, RowsOf
  <2>11. rows[b + 1] = rows[a + 1]
    BY <2>7, <2>8, <2>9, <2>10 DEF Grouped
  <2> QED BY <2>6, <2>11 DEF KeyAt
<1>10. RowsOf(k, m) = {}
  BY <1>2, <1>7, <1>9, NoRowsYet
<1>11. Tells(e, m + 1)
  BY <1>1, <1>3, <1>10, TellsFirst
<1>12. ASSUME NEW p \in Places PROVE IF hash[p].rowno # -1 THEN Tells(hash[p], m + 1) ELSE hash[p] = NoRow
  <2>1. CASE Filled(p)
    <3>1. Tells(hash[p], m) /\ KeyAt(hash[p].rowno) # KeyAt(m)
      BY <1>1, <1>7, <2>1 DEF Renewed, Filled, KeyIn
    <3>2. Tells(hash[p], m + 1)
      BY <1>1, <3>1, TellsStill
    <3> QED BY <2>1, <3>2 DEF Filled
  <2>2. CASE ~Filled(p)
    BY <1>1, <2>2 DEF Renewed, Filled
  <2> QED BY <2>1, <2>2
<1>13. \A i \in 1 .. n : Tells(stack[i], m + 1)
  <2>1. ASSUME NEW i \in 1 .. n PROVE Tells(stack[i], m + 1)
    <3>1. Tells(stack[i], m) /\ KeyAt(stack[i].rowno) # KeyAt(m)
      BY <1>1, <1>2, <1>9 DEF Renewed, KeyOnStack
    <3> QED BY <1>1, <3>1, TellsStill
  <2> QED BY <2>1
<1>14. \A i \in 1 .. n + 1 : Tells(S[i], m + 1)
  BY <1>5, <1>6, <1>11, <1>13
<1>15. \A p, q \in Places :
       hash[p].rowno # -1 /\ hash[q].rowno # -1 /\ KeyAt(hash[p].rowno) = KeyAt(hash[q].rowno) => p = q
  BY <1>1 DEF Renewed
<1>16. ASSUME NEW i \in 1 .. n + 1, NEW j \in 1 .. n + 1, i < j PROVE S[j].rowno < S[i].rowno
  <2>1. j \in 2 .. n + 1 /\ j - 1 \in 1 .. n /\ S[j] = stack[j - 1]
    BY <1>5, <1>6, <1>16
  <2>2. CASE i = 1
    <3>1. PICK a : a = stack[j - 1].rowno
      OBVIOUS
    <3>2. a \in 0 .. m - 1
      BY <1>8, <2>1, <3>1
    <3>3. a < m
      BY <1>1, <3>2
    <3> QED BY <1>4, <1>5, <2>1, <2>2, <3>1, <3>3
  <2>3. CASE i # 1
    <3>1. i - 1 \in 1 .. n /\ S[i] = stack[i - 1] /\ i - 1 < j - 1
      BY <1>5, <1>6, <1>16, <2>3
    <3> QED BY <1>1, <1>2, <2>1, <3>1 DEF Renewed
  <2> QED BY <2>2, <2>3
<1>17. ASSUME NEW i \in 1 .. n + 1
       PROVE  /\ S[i].link = hashnum[KeyAt(S[i].rowno)]
              /\ hash[S[i].link].rowno # -1 /\ hashnum[KeyAt(hash[S[i].link].rowno)] = S[i].link
  <2>1. CASE i = 1
    <3>1. hash[h].rowno # -1 /\ hashnum[KeyAt(hash[h].rowno)] = h
      BY <1>1 DEF RowAhead, Filled, KeyIn, HomeOf
    <3> QED BY <1>1, <1>4, <1>5, <2>1, <3>1
  <2>2. CASE i # 1
    <3>1. PICK j \in 1 .. n : S[i] = stack[j]
      BY <1>5, <1>6, <2>2
    <3>2. /\ stack[j].link = hashnum[KeyAt(stack[j].rowno)]
          /\ hash[stack[j].link].rowno # -1 /\ hashnum[KeyAt(hash[stack[j].link].rowno)] = stack[j].link
      BY <1>1, <1>2 DEF Renewed
    <3> QED BY <3>1, <3>2
  <2> QED BY <2>1, <2>2
<1>18. ASSUME NEW i \in 1 .. n + 1, NEW p \in Places, hash[p].rowno # -1
       PROVE  KeyAt(hash[p].rowno) # KeyAt(S[i].rowno)
  <2>1. CASE i = 1
    BY <1>1, <1>4, <1>5, <1>7, <1>18, <2>1 DEF Filled, KeyIn
  <2>2. CASE i # 1
    <3>1. PICK j \in 1 .. n : S[i] = stack[j]
      BY <1>5, <1>6, <2>2
    <3>2. KeyAt(hash[p].rowno) # KeyAt(stack[j].rowno)
      BY <1>1, <1>2, <1>18 DEF Renewed
    <3> QED BY <3>1, <3>2
  <2> QED BY <2>1, <2>2
<1>19. ASSUME NEW r \in 0 .. (m + 1) - 1
       PROVE  \/ \E p \in Places : hash[p].rowno # -1 /\ KeyAt(hash[p].rowno) = KeyAt(r)
              \/ \E i \in 1 .. n + 1 : KeyAt(S[i].rowno) = KeyAt(r)
  <2>1. CASE r = m
    <3>1. 1 \in 1 .. n + 1
      BY <1>2
    <3> QED BY <1>4, <1>5, <2>1, <3>1
  <2>2. CASE r \in 0 .. m - 1
    <3>1. \/ \E p \in Places : hash[p].rowno # -1 /\ KeyAt(hash[p].rowno) = KeyAt(r)
          \/ \E i \in 1 .. n : KeyAt(stack[i].rowno) = KeyAt(r)
      BY <1>1, <1>2, <2>2 DEF Renewed
    <3>2. \A i \in 1 .. n : i + 1 \in 1 .. n + 1 /\ S[i + 1] = stack[i]
      BY <1>5
    <3> QED BY <3>1, <3>2
  <2>3. r = m \/ r \in 0 .. m - 1
    BY <1>1
  <2> QED BY <2>1, <2>2, <2>3
<1>20. Renewed(hash, S, m + 1)
  BY <1>5, <1>12, <1>14, <1>15, <1>16, <1>17, <1>18, <1>19 DEF Renewed
<1> QED BY <1>1, <1>5, <1>20 DEF RowTaken, RowAhead, Filled, KeyIn, HomeOf

LEMMA TakeRowKeeps ==
  ASSUME HashInv, TakeRow
  PROVE  HashInv'
<1>1. PICK m, k, h, H, S : m = row /\ k = KeyAt(row) /\ h = hashnum[k] /\ H = hash' /\ S = stack'
  OBVIOUS
<1>2. /\ doing = "rows" /\ m \in Nat /\ m < Len(rows)
      /\ m \in 0 .. Len(rows) /\ m \in 0 .. Len(rows) - 1 /\ m + 1 \in Nat /\ m + 1 <= Len(rows)
  BY <1>1 DEF TakeRow, HashInv, HashTypes
<1>3. /\ HashTypes /\ PlacesTell(m) /\ StackTells(m) /\ StackWaits /\ AllHeld(m) /\ AtHome
  BY <1>1, <1>2 DEF HashInv, RowsTaken
<1>4. k \in HashKeys
  BY <1>1, <1>2, <1>3, KeyOfRow
<1>5. h \in Places /\ hash \in [Places -> Entry] /\ stack \in Seq(Entry) /\ hashnum \in [HashKeys -> Places]
  BY <1>1, <1>2, <1>3, <1>4 DEF HashTypes
<1>6. RowAhead(m, k, h)
  <2>1. /\ Renewed(hash, stack, m)
        /\ \A p \in Places : Filled(p) => KeyIn(p) \in HashKeys /\ hash[p].rowno \in RowsOf(KeyIn(p), m)
        /\ \A i \in DOMAIN stack : /\ KeyOnStack(i) \in HashKeys /\ stack[i].rowno \in RowsOf(KeyOnStack(i), m)
                                   /\ stack[i].link \in Places
    BY <1>2, <1>3, HeldNow
  <2> QED BY <1>1, <1>2, <1>3, <1>5, <2>1 DEF RowAhead, AtHome
<1>7. RowTaken(H, S, m + 1)
  <2>1. CASE hash[h].rowno = -1
    <3>1. H = [hash EXCEPT ![h] = [rowno |-> m, link |-> -1, count |-> 1]] /\ S = stack
      BY <1>1, <2>1 DEF TakeRow
    <3> QED BY <1>6, <2>1, <3>1, NewKey DEF Filled
  <2>2. CASE hash[h].rowno # -1 /\ KeyAt(hash[h].rowno) = k
    <3>1. H = [hash EXCEPT ![h].count = @ + 1] /\ S = stack
      BY <1>1, <2>2 DEF TakeRow
    <3> QED BY <1>6, <2>2, <3>1, SameKey DEF Filled, KeyIn
  <2>3. CASE hash[h].rowno # -1 /\ KeyAt(hash[h].rowno) # k
    <3>1. /\ H = hash
          /\ S = IF stack # <<>> /\ KeyAt(stack[1].rowno) = k THEN [stack EXCEPT ![1].count = @ + 1]
                 ELSE <<[rowno |-> m, link |-> h, count |-> 1]>> \o stack
      BY <1>1, <2>3 DEF TakeRow
    <3>2. CASE stack # <<>> /\ KeyAt(stack[1].rowno) = k
      BY <1>6, <3>1, <3>2, SameTop DEF KeyOnStack
    <3>3. CASE ~(stack # <<>> /\ KeyAt(stack[1].rowno) = k)
      BY <1>6, <2>3, <3>1, <3>3, ForTheStack DEF KeyOnStack, Filled, KeyIn
    <3> QED BY <3>2, <3>3
  <2> QED BY <2>1, <2>2, <2>3
<1>8. rows' = rows /\ places' = places /\ hashnum' = hashnum /\ doing' = "rows" /\ row' = m + 1
  BY <1>1, <1>2 DEF TakeRow
<1>9. Places' = Places
  BY <1>8 DEF Places
<1>10. PICK n : n = m + 1
  OBVIOUS
<1>11. PlacesTell(n)' /\ StackTells(n)' /\ StackWaits' /\ AllHeld(n)'
  BY <1>1, <1>7, <1>8, <1>10, HeldNext DEF RowTaken
<1>12. AtHome'
  BY <1>1, <1>7, <1>8, <1>9 DEF RowTaken, AtHome, Filled, KeyIn, KeyAt, HomeOf
<1>13. HashTypes'
  <2>1. H \in [Places -> Entry] /\ S \in Seq(Entry)
    BY <1>7 DEF RowTaken
  <2>2. rows \in Seq(HashKeys) /\ places \in Nat /\ Grouped(rows) /\ Cardinality(KeysIn(rows)) <= places
    BY <1>2, <1>3 DEF HashTypes
  <2>3. Grouped(rows)' /\ (Cardinality(KeysIn(rows)) <= places)'
    BY <1>8, <2>2
  <2>4. (hash \in [Places -> Entry])' /\ (stack \in Seq(Entry))'
    BY <1>1, <1>9, <2>1
  <2>5. (hashnum \in [HashKeys -> Places])'
    BY <1>5, <1>8, <1>9
  <2> QED BY <1>2, <1>8, <2>2, <2>3, <2>4, <2>5 DEF HashTypes, HashStates
<1>14. (RowsTaken = n)'
  BY <1>8, <1>10 DEF RowsTaken
<1>15. PlacesTell(RowsTaken)' /\ StackTells(RowsTaken)' /\ AllHeld(RowsTaken)'
  BY <1>11, <1>14
<1>16. (row <= Len(rows))'
  BY <1>2, <1>8
<1> QED BY <1>8, <1>11, <1>12, <1>13, <1>15, <1>16 DEF HashInv

LEMMA HashStart == HashInit => HashInv
  BY DEF HashInit, HashInv, HashTypes, HashStates

LEMMA PrepareKeeps ==
  ASSUME HashInv, Prepare
  PROVE  HashInv'
<1>0. PICK n \in 0 .. MaxRows :
        \E s \in [1 .. n -> HashKeys], p \in 1 .. Cardinality(HashKeys) :
        \E f \in [HashKeys -> 0 .. p - 1] :
          /\ Grouped(s) /\ Cardinality(KeysIn(s)) <= p
          /\ rows' = s /\ places' = p /\ hashnum' = f
          /\ hash' = [i \in 0 .. p - 1 |-> NoRow]
  BY DEF Prepare
<1>1. PICK s, p, f :
        /\ s \in [1 .. n -> HashKeys] /\ p \in 1 .. Cardinality(HashKeys) /\ f \in [HashKeys -> 0 .. p - 1]
        /\ Grouped(s) /\ Cardinality(KeysIn(s)) <= p
        /\ rows' = s /\ places' = p /\ hashnum' = f
        /\ hash' = [i \in 0 .. p - 1 |-> NoRow]
  BY <1>0
<1>2. doing' = "rows" /\ row' = 0 /\ stack' = <<>>
  BY DEF Prepare, HashInv, HashTypes
<1>3. Places' = 0 .. p - 1
  BY <1>1 DEF Places
<1>4. PICK H : H = hash'
  OBVIOUS
<1>5. \A q \in 0 .. p - 1 : H[q] = NoRow /\ H[q].rowno = -1
  BY <1>1, <1>4 DEF NoRow
<1>6. H \in [0 .. p - 1 -> Entry]
  BY <1>1, <1>4 DEF NoRow, Entry
<1>7. n \in Nat /\ p \in Nat
  BY <1>1, HashAssumption, FS_CardinalityType
<1>8. s \in Seq(HashKeys) /\ Len(s) = n
  BY <1>1, <1>7
<1>9. HashTypes'
  <2>1. Grouped(rows)' /\ (Cardinality(KeysIn(rows)) <= places)'
    BY <1>1
  <2>2. (hash \in [Places -> Entry])' /\ (stack \in Seq(Entry))' /\ (hashnum \in [HashKeys -> Places])'
    <3>1. (stack \in Seq(Entry))' /\ (hashnum \in [HashKeys -> Places])'
      BY <1>1, <1>2, <1>3
    <3> QED BY <1>3, <1>4, <1>6, <3>1
  <2> QED BY <1>1, <1>2, <1>7, <1>8, <2>1, <2>2 DEF HashTypes, HashStates
<1>10. \A q \in Places' : ~(Filled(q)') /\ H[q] = NoRow
  BY <1>3, <1>4, <1>5 DEF Filled
<1>11. PlacesTell(RowsTaken)'
  BY <1>4, <1>10 DEF PlacesTell
<1>12. StackTells(RowsTaken)' /\ StackWaits'
  BY <1>2 DEF StackTells, StackWaits
<1>13. AllHeld(RowsTaken)'
  BY <1>2 DEF AllHeld, RowsTaken
<1>14. AtHome'
  BY <1>10 DEF AtHome
<1>15. (row <= Len(rows))'
  BY <1>1, <1>2, <1>7, <1>8
<1> QED BY <1>2, <1>9, <1>11, <1>12, <1>13, <1>14, <1>15 DEF HashInv

LEMMA EndRowsKeeps ==
  ASSUME HashInv, EndRows
  PROVE  HashInv'
<1>1. /\ rows' = rows /\ places' = places /\ hashnum' = hashnum /\ hash' = hash /\ stack' = stack
      /\ doing = "rows" /\ row = Len(rows) /\ doing' = "chains" /\ row' = 0
  BY DEF EndRows
<1>2. RowsTaken' = RowsTaken
  BY <1>1 DEF RowsTaken
<1>3. HashTypes' /\ Places' = Places
  BY <1>1 DEF HashInv, HashTypes, HashStates, Places
<1>4. PICK m : m = RowsTaken
  OBVIOUS
<1>5. PlacesTell(m)' /\ StackTells(m)' /\ StackWaits' /\ AllHeld(m)'
  <2>1. HashTypes /\ doing # "none" /\ m \in 0 .. Len(rows) /\ PlacesTell(m) /\ StackTells(m) /\ StackWaits /\ AllHeld(m)
    BY <1>1, <1>4 DEF HashInv, HashTypes, RowsTaken
  <2>2. Renewed(hash, stack, m)
    BY <2>1, HeldNow
  <2> QED BY <1>1, <2>2, HeldNext
<1>6. \A q \in Places : Filled(q) => HomeOf(q) = q /\ hash[q].link = -1
  BY <1>1 DEF HashInv, AtHome
<1>7. ASSUME NEW q \in Places, Filled(q) PROVE Filled(HomeOf(q)) /\ HomeOf(HomeOf(q)) = HomeOf(q) /\ q = HomeOf(q) /\ ChainLinked(q)
  <2>1. Mine(q) = {}
    BY <1>6 DEF Mine
  <2>2. Later(q) = {}
    BY <1>6, <1>7, <2>1 DEF Later
  <2> QED BY <1>6, <1>7, <2>2 DEF ChainLinked
<1>8. \A q : (Filled(q)' <=> Filled(q)) /\ HomeOf(q)' = HomeOf(q) /\ (ChainLinked(q)' <=> ChainLinked(q))
  BY <1>1, <1>3 DEF Filled, HomeOf, KeyIn, KeyAt, ChainLinked, Later, Mine
<1>9. Chained'
  BY <1>3, <1>7, <1>8 DEF Chained
<1>10. FilledUp' /\ (row <= places)'
  <2>1. places \in Nat
    BY DEF HashInv, HashTypes
  <2> QED BY <1>1, <1>3, <2>1 DEF FilledUp, Places
<1> QED BY <1>1, <1>2, <1>3, <1>4, <1>5, <1>9, <1>10 DEF HashInv

\* What FillPlace makes of the places: place x takes the entry e off the stack, and
\* the end z of the chain of h links to it.
PlaceGiven(H, x, e, h, z) ==
  /\ x \in Places /\ ~Filled(x) /\ e \in Entry /\ h \in Places /\ z \in Places
  /\ H \in [Places -> Entry]
  /\ H[x].rowno = e.rowno /\ H[x].count = e.count /\ H[x].link = -1 /\ e.rowno # -1
  /\ z # x /\ z \in {h} \cup Mine(h) /\ Filled(z) /\ H[z].link = x /\ hash[z].link = -1
  /\ \A q \in Places : q # x => H[q].rowno = hash[q].rowno /\ H[q].count = hash[q].count
  /\ \A q \in Places : q # x /\ q # z => H[q] = hash[q]
  /\ Filled(h) /\ HomeOf(h) = h /\ hashnum[KeyAt(e.rowno)] = h /\ KeyAt(e.rowno) \in HashKeys

LEMMA PlaceGoes ==
  ASSUME HashInv, doing = "chains", stack # <<>>, row < places, ~(hash[row].rowno > -1),
         NEW H, H = [hash EXCEPT ![row] = [stack[1] EXCEPT !.link = -1], ![ChainEnd(stack[1].link)].link = row]
  PROVE  PlaceGiven(H, row, stack[1], stack[1].link, ChainEnd(stack[1].link))
<1>1. PICK x, m : x = row /\ m = Len(rows)
  OBVIOUS
<1>2. /\ HashTypes /\ x \in Places /\ hash \in [Places -> Entry] /\ stack \in Seq(Entry)
      /\ hashnum \in [HashKeys -> Places] /\ m \in 0 .. Len(rows) /\ 1 \in DOMAIN stack
  BY <1>1 DEF HashInv, HashTypes, Places
<1>3. PlacesTell(m) /\ StackTells(m) /\ StackWaits /\ AllHeld(m)
  BY <1>1 DEF HashInv, RowsTaken
<1>4. ~Filled(x)
  <2>1. ASSUME Filled(x) PROVE FALSE
    <3>1. hash[x].rowno \in 0 .. m - 1
      BY <1>2, <1>3, <2>1 DEF PlacesTell, Tells, RowsOf
    <3> QED BY <1>1, <3>1
  <2> QED BY <2>1
<1>5. PICK e, f, h, z : e = stack[1] /\ f = [stack[1] EXCEPT !.link = -1] /\ h = stack[1].link /\ z = ChainEnd(stack[1].link)
  OBVIOUS
<1>6. e \in Entry /\ f \in Entry /\ f.rowno = e.rowno /\ f.count = e.count /\ f.link = -1 /\ h = e.link
  <2>1. e \in Entry
    BY <1>2, <1>5
  <2>2. f = [e EXCEPT !.link = -1] /\ h = e.link
    BY <1>5
  <2> QED BY <2>1, <2>2 DEF Entry
<1>7. /\ KeyOnStack(1) \in HashKeys /\ e.rowno \in RowsOf(KeyOnStack(1), m) /\ h \in Places
  BY <1>2, <1>3, <1>5, HeldNow
<1>8. h = hashnum[KeyAt(e.rowno)] /\ Filled(h) /\ HomeOf(h) = h /\ KeyAt(e.rowno) \in HashKeys
  BY <1>2, <1>3, <1>5, <1>7 DEF StackWaits, KeyOnStack
<1>9. z \in {h} \cup Mine(h) /\ hash[z].link = -1
  BY <1>5, <1>7, <1>8, ChainEnds
<1>10. z \in Places /\ Filled(z) /\ z # x
  BY <1>4, <1>7, <1>8, <1>9 DEF Mine
<1>11. H = [hash EXCEPT ![x] = f, ![z].link = x]
  BY <1>1, <1>5
<1>12. PICK G : G = [hash EXCEPT ![x] = f]
  OBVIOUS
<1>13. G[x] = f /\ (\A q \in Places : q # x => G[q] = hash[q]) /\ G \in [Places -> Entry]
  BY <1>2, <1>6, <1>12
<1>14. H = [G EXCEPT ![z].link = x]
  BY <1>11, <1>12
<1>15. PICK a \in Entry : a = hash[z]
  BY <1>2, <1>10
<1>16. PICK b : b = [a EXCEPT !.link = x]
  OBVIOUS
<1>17. b \in Entry /\ b.rowno = a.rowno /\ b.count = a.count /\ b.link = x
  <2>1. x \in Int
    BY <1>2 DEF Places
  <2> QED BY <1>15, <1>16, <2>1 DEF Entry
<1>18. H = [G EXCEPT ![z] = b]
  BY <1>10, <1>13, <1>14, <1>15, <1>16
<1>19. H[z] = b /\ (\A q \in Places : q # z => H[q] = G[q]) /\ H \in [Places -> Entry]
  BY <1>10, <1>13, <1>17, <1>18
<1>20. H[x] = f /\ \A q \in Places : q # x /\ q # z => H[q] = hash[q]
  BY <1>2, <1>10, <1>13, <1>19
<1>21. \A q \in Places : q # x => H[q].rowno = hash[q].rowno /\ H[q].count = hash[q].count
  BY <1>15, <1>17, <1>19, <1>20
<1>22. e.rowno # -1
  BY <1>7 DEF RowsOf
<1>23. PlaceGiven(H, x, e, h, z)
  BY <1>2, <1>4, <1>6, <1>7, <1>8, <1>9, <1>10, <1>17, <1>19, <1>20, <1>21, <1>22 DEF PlaceGiven
<1> QED BY <1>1, <1>5, <1>23

\* The keys are still in one place each.
LEMMA PlaceRenewed ==
  ASSUME HashInv, doing = "chains", stack # <<>>,
         NEW H, NEW x, NEW h, NEW z, PlaceGiven(H, x, stack[1], h, z),
         NEW m, m = Len(rows)
  PROVE  Renewed(H, Tail(stack), m) /\ Tail(stack) \in Seq(Entry)
<1>1. /\ HashTypes /\ PlacesTell(m) /\ StackTells(m) /\ StackWaits /\ AllHeld(m)
      /\ m \in 0 .. Len(rows) /\ stack \in Seq(Entry) /\ hash \in [Places -> Entry]
  BY DEF HashInv, HashTypes, RowsTaken
<1>2. /\ Renewed(hash, stack, m)
      /\ \A i \in DOMAIN stack : stack[i].link \in Places
  BY <1>1, HeldNow
<1>3. PICK n \in Nat : n + 1 = Len(stack) /\ DOMAIN stack = 1 .. n + 1 /\ stack \in [1 .. n + 1 -> Entry]
  <2>1. PICK n : n = Len(stack) - 1
    OBVIOUS
  <2> QED BY <1>1, <2>1
<1>4. PICK e, S : e = stack[1] /\ S = Tail(stack)
  OBVIOUS
<1>5. /\ S \in Seq(Entry) /\ DOMAIN S = 1 .. n
      /\ \A i \in 1 .. n : i + 1 \in 1 .. n + 1 /\ i + 1 # 1 /\ S[i] = stack[i + 1]
  BY <1>1, <1>3, <1>4
<1>6. 1 \in 1 .. n + 1
  OBVIOUS
<1>7. /\ x \in Places /\ ~Filled(x) /\ e \in Entry /\ e.rowno # -1
      /\ H[x].rowno = e.rowno /\ H[x].count = e.count
      /\ \A q \in Places : q # x => H[q].rowno = hash[q].rowno /\ H[q].count = hash[q].count
  BY <1>4 DEF PlaceGiven
<1>8. \A a, b : a.rowno = b.rowno /\ a.count = b.count /\ Tells(a, m) => Tells(b, m)
  BY DEF Tells
<1>9. ASSUME NEW p \in Places PROVE IF H[p].rowno # -1 THEN Tells(H[p], m) ELSE H[p] = NoRow
  <2>1. CASE p = x
    <3>1. Tells(e, m)
      BY <1>2, <1>3, <1>4, <1>6 DEF Renewed
    <3> QED BY <1>7, <1>8, <2>1, <3>1
  <2>2. CASE p # x /\ Filled(p)
    <3>1. Tells(hash[p], m)
      BY <1>2, <2>2 DEF Renewed, Filled
    <3> QED BY <1>7, <1>8, <2>2, <3>1 DEF Filled
  <2>3. CASE p # x /\ ~Filled(p)
    <3>1. H[p] = hash[p]
      BY <2>3 DEF PlaceGiven
    <3> QED BY <1>2, <2>3, <3>1 DEF Renewed, Filled
  <2> QED BY <2>1, <2>2, <2>3
<1>10. \A p \in Places : p # x /\ H[p].rowno # -1 => KeyAt(H[p].rowno) # KeyAt(e.rowno)
  BY <1>2, <1>3, <1>4, <1>6, <1>7 DEF Renewed
<1>11. \A p, q \in Places :
         H[p].rowno # -1 /\ H[q].rowno # -1 /\ KeyAt(H[p].rowno) = KeyAt(H[q].rowno) => p = q
  <2>1. ASSUME NEW p \in Places, NEW q \in Places, p # x, q # x, H[p].rowno # -1, H[q].rowno # -1,
               KeyAt(H[p].rowno) = KeyAt(H[q].rowno)
        PROVE  p = q
    BY <1>2, <1>7, <2>1 DEF Renewed
  <2> QED BY <1>7, <1>10, <2>1
<1>12. ASSUME NEW i \in 1 .. n PROVE /\ Tells(S[i], m) /\ S[i].link = hashnum[KeyAt(S[i].rowno)]
                                     /\ KeyAt(S[i].rowno) # KeyAt(e.rowno)
  <2>1. PICK j \in 1 .. n + 1 : j = i + 1 /\ S[i] = stack[j] /\ 1 < j
    BY <1>5
  <2>2. Tells(stack[j], m) /\ stack[j].link = hashnum[KeyAt(stack[j].rowno)]
    BY <1>2, <1>3 DEF Renewed
  <2>3. stack[j].rowno < stack[1].rowno /\ Tells(stack[1], m)
    BY <1>2, <1>3, <1>6, <2>1 DEF Renewed
  <2>4. ASSUME KeyAt(stack[j].rowno) = KeyAt(e.rowno) PROVE FALSE
    <3>1. stack[1].rowno <= stack[j].rowno
      BY <1>4, <2>2, <2>3, <2>4 DEF Tells
    <3>2. PICK a, b : a = stack[1].rowno /\ b = stack[j].rowno
      OBVIOUS
    <3>3. a \in Int /\ b \in Int
      BY <1>3, <1>6, <3>2 DEF Entry
    <3> QED BY <2>3, <3>1, <3>2, <3>3
  <2> QED BY <2>1, <2>2, <2>4
<1>13. ASSUME NEW i \in 1 .. n, NEW j \in 1 .. n, i < j PROVE S[j].rowno < S[i].rowno
  <2>1. PICK a, b : a = i + 1 /\ b = j + 1
    OBVIOUS
  <2>2. a \in 1 .. n + 1 /\ b \in 1 .. n + 1 /\ a < b /\ S[i] = stack[a] /\ S[j] = stack[b]
    BY <1>5, <1>13, <2>1
  <2> QED BY <1>2, <1>3, <2>2 DEF Renewed
<1>14. ASSUME NEW i \in 1 .. n
       PROVE  H[S[i].link].rowno # -1 /\ hashnum[KeyAt(H[S[i].link].rowno)] = S[i].link
  <2>1. PICK j \in 1 .. n + 1 : S[i] = stack[j]
    BY <1>5
  <2>2. PICK l \in Places : l = stack[j].link
    BY <1>2, <1>3
  <2>3. hash[l].rowno # -1 /\ hashnum[KeyAt(hash[l].rowno)] = l
    BY <1>2, <1>3, <2>2 DEF Renewed
  <2>4. H[l].rowno = hash[l].rowno
    BY <1>7, <2>3 DEF Filled
  <2> QED BY <2>1, <2>2, <2>3, <2>4
<1>15. ASSUME NEW i \in 1 .. n, NEW p \in Places, H[p].rowno # -1 PROVE KeyAt(H[p].rowno) # KeyAt(S[i].rowno)
  <2>1. CASE p = x
    BY <1>7, <1>12, <2>1
  <2>2. CASE p # x
    <3>1. PICK j \in 1 .. n + 1 : S[i] = stack[j]
      BY <1>5
    <3>2. H[p].rowno = hash[p].rowno
      BY <1>7, <2>2
    <3> QED BY <1>2, <1>3, <1>15, <3>1, <3>2 DEF Renewed
  <2> QED BY <2>1, <2>2
<1>16. ASSUME NEW r \in 0 .. m - 1
       PROVE  \/ \E p \in Places : H[p].rowno # -1 /\ KeyAt(H[p].rowno) = KeyAt(r)
              \/ \E i \in 1 .. n : KeyAt(S[i].rowno) = KeyAt(r)
  <2>1. \/ \E p \in Places : hash[p].rowno # -1 /\ KeyAt(hash[p].rowno) = KeyAt(r)
        \/ \E i \in 1 .. n + 1 : KeyAt(stack[i].rowno) = KeyAt(r)
    BY <1>2, <1>3 DEF Renewed
  <2>2. CASE \E p \in Places : hash[p].rowno # -1 /\ KeyAt(hash[p].rowno) = KeyAt(r)
    <3>1. PICK p \in Places : hash[p].rowno # -1 /\ KeyAt(hash[p].rowno) = KeyAt(r)
      BY <2>2
    <3>2. H[p].rowno = hash[p].rowno
      BY <1>7, <3>1 DEF Filled
    <3> QED BY <3>1, <3>2
  <2>3. CASE \E i \in 1 .. n + 1 : KeyAt(stack[i].rowno) = KeyAt(r)
    <3>1. PICK i \in 1 .. n + 1 : KeyAt(stack[i].rowno) = KeyAt(r)
      BY <2>3
    <3>2. CASE i = 1
      BY <1>4, <1>7, <3>1, <3>2
    <3>3. CASE i # 1
      <4>1. PICK j : j = i - 1
        OBVIOUS
      <4>2. j \in 1 .. n /\ j + 1 = i
        BY <3>3, <4>1
      <4>3. S[j] = stack[i]
        BY <1>5, <4>2
      <4> QED BY <3>1, <4>2, <4>3
    <3> QED BY <3>2, <3>3
  <2> QED BY <2>1, <2>2, <2>3
<1>17. Renewed(H, S, m)
  BY <1>5, <1>9, <1>11, <1>12, <1>13, <1>14, <1>15, <1>16 DEF Renewed
<1> QED BY <1>4, <1>5, <1>17

\* The chain of h has one place more, at its end.
LEMMA ChainGrows ==
  ASSUME HashInv, doing = "chains",
         NEW x, x = row, NEW e, NEW h, NEW z, NEW H, H = hash', PlaceGiven(H, x, e, h, z),
         rows' = rows, places' = places, hashnum' = hashnum, row' = x + 1
  PROVE  Chained' /\ FilledUp'
<1>1. Places' = Places /\ \A q \in Places : q \in Int /\ q # -1
  BY DEF Places
<1>2. /\ x \in Places /\ ~Filled(x) /\ e \in Entry /\ h \in Places /\ z \in Places
      /\ H[x].rowno = e.rowno /\ H[x].link = -1 /\ e.rowno # -1
      /\ z # x /\ z \in {h} \cup Mine(h) /\ Filled(z) /\ H[z].link = x /\ hash[z].link = -1
      /\ \A q \in Places : q # x => H[q].rowno = hash[q].rowno
      /\ \A q \in Places : q # x /\ q # z => H[q] = hash[q]
      /\ Filled(h) /\ HomeOf(h) = h /\ hashnum[KeyAt(e.rowno)] = h
  BY DEF PlaceGiven
<1>3. Chained /\ FilledUp
  BY DEF HashInv
<1>4. \A q \in Places : Filled(q)' <=> Filled(q) \/ q = x
  BY <1>2 DEF Filled
<1>5. /\ \A q \in Places : Filled(q) => HomeOf(q)' = HomeOf(q)
      /\ HomeOf(x)' = h
  BY <1>2 DEF HomeOf, KeyIn, KeyAt, Filled
<1>6. h # x
  BY <1>2
<1>7. Mine(h)' = Mine(h) \cup {x} /\ \A g : g # h => Mine(g)' = Mine(g)
  <2>1. ASSUME NEW g, NEW q
        PROVE  q \in Mine(g)' <=> q \in Mine(g) \/ (q = x /\ g = h)
    <3>1. q \in Mine(g)' <=> q \in Places /\ Filled(q)' /\ HomeOf(q)' = g /\ q # g
      BY <1>1 DEF Mine
    <3>2. CASE q = x
      BY <1>2, <1>4, <1>5, <1>6, <3>1, <3>2 DEF Mine
    <3>3. CASE q # x
      BY <1>4, <1>5, <3>1, <3>3 DEF Mine
    <3> QED BY <3>2, <3>3
  <2>2. \A q : q \in Mine(h)' <=> q \in Mine(h) \cup {x}
    BY <2>1
  <2>3. ASSUME NEW g, g # h PROVE Mine(g)' = Mine(g)
    <3>1. \A q : q \in Mine(g)' <=> q \in Mine(g)
      BY <2>1, <2>3
    <3> QED BY <3>1
  <2>4. Mine(h)' = Mine(h) \cup {x}
    BY <2>2
  <2> QED BY <2>3, <2>4
<1>8. \A q \in Mine(h) : q < x /\ q \in Places /\ Filled(q) /\ HomeOf(q) = h
  BY <1>3 DEF Mine, Chained
<1>9. ChainLinked(x)'
  <2>1. \A y \in Mine(h) \cup {x} : ~(x < y)
    BY <1>1, <1>2, <1>8
  <2>2. Later(x)' = {}
    BY <1>5, <1>6, <1>7, <2>1 DEF Later
  <2> QED BY <1>2, <2>2 DEF ChainLinked
<1>10. ASSUME NEW q \in Places, Filled(q), HomeOf(q) = h
       PROVE  ChainLinked(q)' /\ q # x
  <2>1. q # x
    BY <1>2, <1>10
  <2>2. q # h => q \in Mine(h) /\ q < x
    BY <1>8, <1>10 DEF Mine
  <2>3. Later(q)' = Later(q) \cup {x}
    BY <1>5, <1>7, <1>10, <2>2 DEF Later
  <2>4. ChainLinked(q) /\ Later(q) \subseteq Mine(h)
    BY <1>3, <1>10 DEF Chained, Later
  <2>5. ChainLinked(z) /\ HomeOf(z) = h
    BY <1>2, <1>3, <1>8 DEF Chained
  <2>6. Later(z) = {}
    <3>1. Later(z) \subseteq Places
      BY DEF Later, Mine
    <3> QED BY <1>1, <1>2, <2>5, <3>1 DEF ChainLinked
  <2>7. CASE q = z
    <3>1. Later(q)' = {x}
      BY <2>3, <2>6, <2>7
    <3> QED BY <1>1, <1>2, <2>1, <2>7, <3>1 DEF ChainLinked
  <2>8. CASE q # z
    <3>1. Later(q) # {}
      <4>1. CASE z = h
        <5>1. q \in Mine(h)
          BY <2>2, <2>8, <4>1
        <5> QED BY <2>5, <2>6, <4>1, <5>1 DEF Later
      <4>2. CASE z \in Mine(h) /\ q = h
        BY <1>10, <4>2 DEF Later
      <4>3. CASE z \in Mine(h) /\ q # h
        <5>1. q \in Mine(h) /\ ~(z < q)
          BY <2>2, <2>5, <2>6, <4>3 DEF Later
        <5>2. q < z
          BY <1>1, <1>2, <2>8, <5>1
        <5> QED BY <1>10, <4>3, <5>2 DEF Later
      <4> QED BY <1>2, <4>1, <4>2, <4>3
    <3>2. PICK y : y = hash[q].link
      OBVIOUS
    <3>3. y \in Later(q) /\ (\A a \in Later(q) : y <= a)
      BY <2>4, <3>1, <3>2 DEF ChainLinked
    <3>4. y < x /\ y \in Int /\ x \in Int
      BY <1>1, <1>2, <1>8, <2>4, <3>3
    <3>5. y <= x
      BY <3>4
    <3>6. H[q].link = y
      BY <1>2, <2>1, <2>8, <3>2
    <3>7. PICK L : L = Later(q)'
      OBVIOUS
    <3>8. y \in L /\ (\A a \in L : y <= a)
      BY <2>3, <3>3, <3>5, <3>7
    <3>9. (hash[q].link = y)'
      BY <3>6
    <3> QED BY <2>1, <3>7, <3>8, <3>9 DEF ChainLinked
  <2> QED BY <2>1, <2>7, <2>8
<1>11. ASSUME NEW q \in Places, Filled(q), HomeOf(q) # h
       PROVE  ChainLinked(q)' /\ q # x
  <2>1. q # x /\ q # z
    BY <1>2, <1>8, <1>11
  <2>2. Later(q)' = Later(q)
    BY <1>5, <1>7, <1>11 DEF Later
  <2>3. ChainLinked(q) /\ H[q] = hash[q]
    BY <1>2, <1>3, <1>11, <2>1 DEF Chained
  <2> QED BY <2>1, <2>2, <2>3 DEF ChainLinked
<1>12. ASSUME NEW q \in Places, Filled(q)'
       PROVE  (/\ Filled(HomeOf(q)) /\ HomeOf(HomeOf(q)) = HomeOf(q)
               /\ q # HomeOf(q) => q < row
               /\ ChainLinked(q))'
  <2>1. CASE q = x
    <3>1. HomeOf(q)' = h /\ Filled(h)' /\ HomeOf(h)' = h
      BY <1>2, <1>4, <1>5, <2>1
    <3>2. Filled(HomeOf(q))' /\ (HomeOf(HomeOf(q)) = HomeOf(q))'
      BY <3>1 DEF HomeOf, KeyIn, KeyAt, Filled
    <3>3. (q < row)'
      BY <1>1, <1>2, <2>1
    <3> QED BY <1>9, <2>1, <3>2, <3>3
  <2>2. CASE q # x
    <3>1. PICK g : g = HomeOf(q)
      OBVIOUS
    <3>2. /\ Filled(q) /\ Filled(g) /\ HomeOf(g) = g /\ (q # g => q < x) /\ HomeOf(q)' = g
      BY <1>3, <1>4, <1>5, <1>12, <2>2, <3>1 DEF Chained
    <3>3. g \in Places
      <4>1. g = h \/ g # h
        OBVIOUS
      <4>2. Tells(hash[q], Len(rows))
        BY <3>2 DEF HashInv, PlacesTell, RowsTaken
      <4>3. hash[q].rowno \in 0 .. Len(rows) - 1
        BY <4>2 DEF Tells, RowsOf
      <4>4. KeyIn(q) \in HashKeys
        BY <4>3, KeyOfRow DEF KeyIn, HashInv
      <4> QED BY <3>1, <4>4 DEF HomeOf, HashInv, HashTypes
    <3>4. Filled(g)' /\ HomeOf(g)' = g
      BY <1>4, <1>5, <3>2, <3>3
    <3>5. Filled(HomeOf(q))' /\ (HomeOf(HomeOf(q)) = HomeOf(q))'
      BY <3>2, <3>4 DEF HomeOf, KeyIn, KeyAt, Filled
    <3>6. (q # HomeOf(q) => q < row)'
      BY <1>1, <1>2, <3>2
    <3> QED BY <1>10, <1>11, <3>2, <3>5, <3>6
  <2> QED BY <2>1, <2>2
<1>13. Chained'
  BY <1>1, <1>12 DEF Chained
<1>14. FilledUp'
  <2>1. \A q \in Places : q < x + 1 => q < x \/ q = x
    BY <1>1, <1>2
  <2> QED BY <1>1, <1>3, <1>4, <2>1 DEF FilledUp
<1> QED BY <1>13, <1>14

\* A place that has its key is not taken again; a place left over goes to the end of a chain.
LEMMA FillPlaceKeeps ==
  ASSUME HashInv, FillPlace
  PROVE  HashInv'
<1>1. PICK x, m : x = row /\ m = RowsTaken
  OBVIOUS
<1>2. /\ doing = "chains" /\ stack # <<>> /\ x < places /\ x \in Nat /\ places \in Nat /\ m = Len(rows)
      /\ HashTypes /\ x \in Places /\ hash \in [Places -> Entry] /\ stack \in Seq(Entry)
      /\ hashnum \in [HashKeys -> Places]
  BY <1>1 DEF FillPlace, HashInv, HashTypes, RowsTaken, Places
<1>3. rows' = rows /\ places' = places /\ hashnum' = hashnum /\ doing' = "chains" /\ row' = x + 1
  BY <1>1, <1>2 DEF FillPlace
<1>4. Places' = Places
  BY <1>3 DEF Places
<1>5. (RowsTaken = m)'
  BY <1>2, <1>3 DEF RowsTaken
<1>6. PlacesTell(m) /\ StackTells(m) /\ StackWaits /\ AllHeld(m) /\ Chained /\ FilledUp
  BY <1>1, <1>2 DEF HashInv
<1>7. m \in 0 .. Len(rows)
  BY <1>2 DEF HashTypes
<1>8. Renewed(hash, stack, m)
  BY <1>2, <1>6, <1>7, HeldNow
<1>9. \A y \in 0 .. places - 1 : y < x + 1 => y < x \/ y = x
  BY <1>2
<1>10. (row <= places)'
  BY <1>2, <1>3
<1>11. CASE hash[x].rowno > -1
  <2>1. hash' = hash /\ stack' = stack
    BY <1>1, <1>11 DEF FillPlace
  <2>2. Filled(x)
    BY <1>11 DEF Filled
  <2>3. PlacesTell(m)' /\ StackTells(m)' /\ StackWaits' /\ AllHeld(m)'
    BY <1>3, <1>8, <2>1, HeldNext
  <2>4. \A q : (Filled(q)' <=> Filled(q)) /\ HomeOf(q)' = HomeOf(q) /\ (ChainLinked(q)' <=> ChainLinked(q))
    BY <1>3, <1>4, <2>1 DEF Filled, HomeOf, KeyIn, KeyAt, ChainLinked, Later, Mine
  <2>5. \A q \in Places : q \in 0 .. places - 1 /\ (q < x => q < x + 1)
    BY <1>2 DEF Places
  <2>6. Chained'
    BY <1>1, <1>3, <1>4, <1>6, <2>4, <2>5 DEF Chained
  <2>7. FilledUp'
    BY <1>1, <1>3, <1>4, <1>6, <1>9, <2>2, <2>4, <2>5 DEF FilledUp
  <2>8. HashTypes'
    BY <1>2, <1>3, <1>4, <2>1 DEF HashTypes, HashStates
  <2> QED BY <1>3, <1>5, <1>10, <2>3, <2>6, <2>7, <2>8 DEF HashInv
<1>12. CASE ~(hash[x].rowno > -1)
  <2>1. PICK H, S : H = hash' /\ S = stack'
    OBVIOUS
  <2>2. H = [hash EXCEPT ![row] = [stack[1] EXCEPT !.link = -1], ![ChainEnd(stack[1].link)].link = row] /\ S = Tail(stack)
    BY <1>1, <1>12, <2>1 DEF FillPlace
  <2>3. PICK e, h, z : e = stack[1] /\ h = stack[1].link /\ z = ChainEnd(stack[1].link)
    OBVIOUS
  <2>4. PlaceGiven(H, x, e, h, z)
    BY <1>1, <1>2, <1>12, <2>2, <2>3, PlaceGoes
  <2>5. Renewed(H, S, m) /\ S \in Seq(Entry)
    BY <1>2, <2>2, <2>3, <2>4, PlaceRenewed
  <2>6. PlacesTell(m)' /\ StackTells(m)' /\ StackWaits' /\ AllHeld(m)'
    BY <1>3, <2>1, <2>5, HeldNext
  <2>7. Chained' /\ FilledUp'
    BY <1>1, <1>2, <1>3, <2>1, <2>4, ChainGrows
  <2>8. HashTypes'
    <3>1. H \in [Places -> Entry]
      BY <2>4 DEF PlaceGiven
    <3>2. (hash \in [Places -> Entry])' /\ (stack \in Seq(Entry))' /\ (hashnum \in [HashKeys -> Places])'
      BY <1>2, <1>3, <1>4, <2>1, <2>5, <3>1
    <3>3. rows \in Seq(HashKeys) /\ Grouped(rows) /\ Cardinality(KeysIn(rows)) <= places
      BY <1>2 DEF HashTypes
    <3>4. Grouped(rows)' /\ (Cardinality(KeysIn(rows)) <= places)'
      BY <1>3, <3>3
    <3> QED BY <1>2, <1>3, <3>2, <3>3, <3>4 DEF HashTypes, HashStates
  <2> QED BY <1>3, <1>5, <1>10, <2>6, <2>7, <2>8 DEF HashInv
<1> QED BY <1>11, <1>12

\* Every place has a key of its own, so there is none left for a key on the stack.
LEMMA StackEmpty ==
  ASSUME HashInv, doing = "chains", row = places
  PROVE  stack = <<>>
<1>1. SUFFICES ASSUME stack # <<>> PROVE FALSE
  OBVIOUS
<1>2. PICK K, k, m : K = KeysIn(rows) /\ k = KeyOnStack(1) /\ m = Len(rows)
  OBVIOUS
<1>3. HashTypes /\ PlacesTell(m) /\ StackTells(m) /\ StackWaits /\ AllHeld(m) /\ m \in 0 .. Len(rows)
  BY <1>2 DEF HashInv, HashTypes, RowsTaken
<1>4. places \in Nat /\ stack \in Seq(Entry) /\ 1 \in DOMAIN stack /\ Cardinality(K) <= places
  BY <1>1, <1>2 DEF HashInv, HashTypes
<1>5. IsFiniteSet(K) /\ Cardinality(K) \in Nat
  BY <1>2, <1>3, KeysFinite
<1>6. \A p \in Places : Filled(p)
  BY <1>4 DEF HashInv, FilledUp, Places
<1>7. /\ \A p \in Places : hash[p].rowno \in RowsOf(KeyIn(p), m)
      /\ stack[1].rowno \in RowsOf(k, m)
  BY <1>2, <1>3, <1>4, <1>6, HeldNow
<1>8. k \in K /\ \A p \in Places : KeyIn(p) \in K
  BY <1>2, <1>3, <1>7, KeyOfRow DEF RowsOf, KeyIn
<1>9. \A p \in Places : KeyIn(p) # k
  BY <1>2, <1>3, <1>4, <1>6 DEF StackWaits
<1>10. PICK f : f = [p \in Places |-> KeyIn(p)]
  OBVIOUS
<1>11. \A p, q \in Places : KeyIn(p) = KeyIn(q) => p = q
  BY <1>3, <1>6 DEF PlacesTell
<1>12. f \in [Places -> K \ {k}] /\ \A p, q \in Places : f[p] = f[q] => p = q
  BY <1>8, <1>9, <1>10, <1>11
<1>13. f \in Injection(Places, K \ {k})
  BY <1>12 DEF Injection, IsInjective
<1>14. IsFiniteSet(K \ {k}) /\ Cardinality(K \ {k}) = Cardinality(K) - 1
  BY <1>5, <1>8, FS_RemoveElement
<1>15. Cardinality(Places) <= Cardinality(K \ {k})
  BY <1>13, <1>14, FS_Injection
<1>16. Cardinality(Places) = places
  BY <1>4, FS_Interval DEF Places
<1> QED BY <1>4, <1>5, <1>14, <1>15, <1>16

LEMMA EndChainsKeeps ==
  ASSUME HashInv, EndChains
  PROVE  HashInv'
<1>1. /\ rows' = rows /\ places' = places /\ hashnum' = hashnum /\ hash' = hash /\ stack' = stack
      /\ doing = "chains" /\ row' = row /\ doing' = "done"
  BY DEF EndChains
<1>2. stack = <<>>
  BY StackEmpty DEF EndChains
<1>3. PICK m : m = RowsTaken
  OBVIOUS
<1>4. RowsTaken' = m /\ Places' = Places
  BY <1>1, <1>3 DEF RowsTaken, Places
<1>5. PlacesTell(m)' /\ StackTells(m)' /\ StackWaits' /\ AllHeld(m)'
  <2>1. HashTypes /\ doing # "none" /\ m \in 0 .. Len(rows) /\ PlacesTell(m) /\ StackTells(m) /\ StackWaits /\ AllHeld(m)
    BY <1>1, <1>3 DEF HashInv, HashTypes, RowsTaken
  <2>2. Renewed(hash, stack, m)
    BY <2>1, HeldNow
  <2> QED BY <1>1, <2>2, HeldNext
<1>6. \A q : (Filled(q)' <=> Filled(q)) /\ HomeOf(q)' = HomeOf(q) /\ (ChainLinked(q)' <=> ChainLinked(q))
  BY <1>1, <1>4 DEF Filled, HomeOf, KeyIn, KeyAt, ChainLinked, Later, Mine
<1>7. Chained'
  BY <1>1, <1>4, <1>6 DEF Chained, HashInv
<1>8. FilledUp' /\ (row <= places)'
  BY <1>1, <1>4, <1>6 DEF FilledUp, HashInv
<1>9. HashTypes'
  BY <1>1, <1>4 DEF HashInv, HashTypes, HashStates
<1> QED BY <1>1, <1>2, <1>4, <1>5, <1>7, <1>8, <1>9 DEF HashInv

LEMMA HashStep == HashInv /\ [HashNext]_hashVars => HashInv'
<1> SUFFICES ASSUME HashInv, [HashNext]_hashVars PROVE HashInv'
  OBVIOUS
<1>1. CASE Prepare
  BY <1>1, PrepareKeeps
<1>2. CASE TakeRow
  BY <1>2, TakeRowKeeps
<1>3. CASE EndRows
  BY <1>3, EndRowsKeeps
<1>4. CASE FillPlace
  BY <1>4, FillPlaceKeeps
<1>5. CASE EndChains
  BY <1>5, EndChainsKeeps
<1>6. CASE UNCHANGED hashVars
  <2>1. /\ rows' = rows /\ places' = places /\ hashnum' = hashnum /\ row' = row /\ hash' = hash
        /\ stack' = stack /\ doing' = doing
    BY <1>6 DEF hashVars
  <2>2. RowsTaken' = RowsTaken /\ Places' = Places
    BY <2>1 DEF RowsTaken, Places
  <2>3. HashTypes'
    BY <2>1, <2>2 DEF HashInv, HashTypes, HashStates
  <2>4. \A q : (Filled(q)' <=> Filled(q)) /\ HomeOf(q)' = HomeOf(q) /\ (ChainLinked(q)' <=> ChainLinked(q))
    BY <2>1, <2>2 DEF Filled, HomeOf, KeyIn, KeyAt, ChainLinked, Later, Mine
  <2>5. PICK m : m = RowsTaken
    OBVIOUS
  <2>6. ASSUME doing # "none" PROVE PlacesTell(m)' /\ StackTells(m)' /\ StackWaits' /\ AllHeld(m)'
    <3>1. HashTypes /\ m \in 0 .. Len(rows) /\ PlacesTell(m) /\ StackTells(m) /\ StackWaits /\ AllHeld(m)
      BY <2>5, <2>6 DEF HashInv, HashTypes, RowsTaken
    <3>2. Renewed(hash, stack, m)
      BY <2>6, <3>1, HeldNow
    <3> QED BY <2>1, <3>2, HeldNext
  <2>7. doing \in {"chains", "done"} => Chained' /\ FilledUp'
    BY <2>1, <2>2, <2>4 DEF Chained, FilledUp, HashInv
  <2>8. doing = "rows" => AtHome'
    BY <2>1, <2>2, <2>4 DEF AtHome, HashInv
  <2> QED BY <2>1, <2>2, <2>3, <2>5, <2>6, <2>7, <2>8 DEF HashInv
<1> QED BY <1>1, <1>2, <1>3, <1>4, <1>5, <1>6 DEF HashNext

\* In an array of any length, whatever the hash function, with as many places as keys
\* or more, every key is found at its first row with the number of its rows, no other
\* key is found, and no collision is left without a place.
THEOREM HashFindsAlways == HashInit /\ [][HashNext]_hashVars => []HashFinds
<1>1. HashInv => HashFinds
  BY KeysFoundAt, EachPlacedAt DEF HashFinds
<1> QED BY <1>1, HashStart, HashStep, PTL
=============================================================================
