-------------------------------- MODULE DmApp --------------------------------
(***************************************************************************)
(* The dynamic modules of scsrv/dm_app.c: dm_app loads a shared object at  *)
(* its first call, keeps it in a tree with a counter of the calls that are *)
(* in it, and runs its command; dmmgr_app replaces the file of a module,   *)
(* waits until no call is in it and unloads it.  The tree is guarded by    *)
(* the reader/writer lock dmlock, a counter by the mutex of its node.      *)
(***************************************************************************)
EXTENDS Integers, FiniteSets

CONSTANTS
  Users,     \* the threads that call dm_app and dmmgr_app
  Modules,   \* the modules
  Unfit,     \* the modules whose file does not hold their command
  Windows,   \* the narrow races that may happen, see the actions that name them
  MaxUses,   \* bound: a counter that is never given back stays below it
  NoUser     \* no thread, no module

ASSUME DmAssumption ==
  /\ IsFiniteSet(Users) /\ NoUser \notin Users \cup Modules
  /\ MaxUses \in Nat \ {0} /\ Unfit \subseteq Modules
  /\ Windows \subseteq {"loaders", "signal"}

VARIABLES
  cmd_tree,  \* the modules that have a node in the tree
  uses,      \* uses[m]: the counter lock of the node
  handles,   \* handles[m]: how often the module was opened and not closed
  readers,   \* the threads that hold dmlock for reading
  writer,    \* the thread that holds it for writing
  step,      \* step[u]: where thread u is
  model      \* model[u]: the module it is about

dmVars == <<cmd_tree, uses, handles, readers, writer, step, model>>

DmInit ==
  /\ cmd_tree = {}
  /\ uses = [m \in Modules |-> 0]
  /\ handles = [m \in Modules |-> 0]
  /\ readers = {} /\ writer = NoUser
  /\ step = [u \in Users |-> "out"]
  /\ model = [u \in Users |-> NoUser]
-----------------------------------------------------------------------------
Goto(u, l) == step' = [step EXCEPT ![u] = l]

Leaves(u) == model' = [model EXCEPT ![u] = NoUser]

(* dm_app *)

\* dmlock is taken for reading.
Call(u, m) ==
  /\ step[u] = "out" /\ writer = NoUser
  /\ readers' = readers \cup {u}
  /\ model' = [model EXCEPT ![u] = m]
  /\ Goto(u, "find")
  /\ UNCHANGED <<cmd_tree, uses, handles, writer>>

\* BB_Tree_Find does not come upon the module.  BB_Tree_Add of another thread
\* turns the tree under the same read lock: what is there may be missed then
\* ("loaders").
Missed(m) ==
  m \notin cmd_tree \/ ("loaders" \in Windows /\ \E v \in Users : step[v] = "add")

\* A module in the tree is counted.  Any other is loaded, still under the read
\* lock, which another thread may hold for the same purpose ("loaders"); there
\* may be no such file.
Find(u) ==
  LET m == model[u] IN
  /\ step[u] = "find"
  /\ \/ /\ m \in cmd_tree /\ uses[m] < MaxUses
        /\ uses' = [uses EXCEPT ![m] = @ + 1]
        /\ UNCHANGED handles /\ Goto(u, "unlock")
     \/ /\ Missed(m) /\ UNCHANGED <<uses, handles>>
        /\ Goto(u, "failed")
     \/ /\ Missed(m)
        /\ "loaders" \in Windows \/ \A v \in Users : step[v] # "add"
        /\ handles' = [handles EXCEPT ![m] = @ + 1]
        /\ UNCHANGED uses /\ Goto(u, "add")
  /\ UNCHANGED <<cmd_tree, readers, writer, model>>

\* BB_Tree_Add puts a node with the counter at 1 into the tree; a node that is
\* there by now stays as it is.
Add(u) ==
  LET m == model[u] IN
  /\ step[u] = "add"
  /\ cmd_tree' = cmd_tree \cup {m}
  /\ uses' = IF m \in cmd_tree THEN uses ELSE [uses EXCEPT ![m] = 1]
  /\ Goto(u, "unlock")
  /\ UNCHANGED <<handles, readers, writer, model>>

\* The read lock is given back.  A module without its command stays counted.
Unlock(u) ==
  /\ step[u] \in {"unlock", "failed"}
  /\ readers' = readers \ {u}
  /\ IF step[u] = "unlock" /\ model[u] \notin Unfit
     THEN Goto(u, "run") /\ UNCHANGED model
     ELSE Leaves(u) /\ Goto(u, "out")
  /\ UNCHANGED <<cmd_tree, uses, handles, writer>>

\* Mutant: the count is given back before the command runs to its end.
RunEarly(u) ==
  /\ step[u] = "run" /\ uses[model[u]] > 0
  /\ uses' = [uses EXCEPT ![model[u]] = @ - 1]
  /\ UNCHANGED <<cmd_tree, handles, readers, writer, step, model>>

\* The command ends and gives its count back under the mutex of the node.
Run(u) ==
  /\ step[u] = "run"
  /\ uses' = [uses EXCEPT ![model[u]] = @ - 1]
  /\ Goto(u, "signal")
  /\ UNCHANGED <<cmd_tree, handles, readers, writer, model>>

\* Mutant: nobody is woken.
SignalNobody(u) ==
  /\ step[u] = "signal"
  /\ Goto(u, "out") /\ Leaves(u)
  /\ UNCHANGED <<cmd_tree, uses, handles, readers, writer>>

\* Without the mutex: whoever waits for the last call is woken.
Signal(u) ==
  LET woken == {v \in Users : step[v] = "asleep" /\ model[v] = model[u] /\ uses[model[u]] = 0}
  IN
  /\ step[u] = "signal"
  /\ step' = [v \in Users |-> IF v = u THEN "out" ELSE IF v \in woken THEN "await" ELSE step[v]]
  /\ Leaves(u)
  /\ UNCHANGED <<cmd_tree, uses, handles, readers, writer>>
-----------------------------------------------------------------------------
(* dmmgr_app *)

\* Under dmlock for writing the file is replaced, which may fail; so may the
\* search for the node.
Replace(u, m) ==
  /\ step[u] = "out" /\ readers = {} /\ writer = NoUser
  /\ model' = [model EXCEPT ![u] = m]
  /\ m \in cmd_tree
  /\ writer' = u /\ Goto(u, "await")
  /\ UNCHANGED <<cmd_tree, uses, handles, readers>>

\* Under the mutex of the node: calls that are in the module are waited for,
\* with dmlock held.
Await(u) ==
  /\ step[u] = "await"
  /\ Goto(u, IF uses[model[u]] > 0 THEN "asleep" ELSE "unload")
  /\ UNCHANGED <<cmd_tree, uses, handles, readers, writer, model>>

\* Mutant: the object stays open.
UnloadOpen(u) ==
  /\ step[u] = "unload"
  /\ cmd_tree' = cmd_tree \ {model[u]}
  /\ writer' = NoUser /\ Goto(u, "out") /\ Leaves(u)
  /\ UNCHANGED <<uses, handles, readers>>

\* dlclose, and the node is freed; a call that has ended may still be about to
\* signal it ("signal").
Unload(u) ==
  LET m == model[u] IN
  /\ step[u] = "unload"
  /\ "signal" \in Windows \/ \A v \in Users : step[v] = "signal" => model[v] # m
  /\ handles' = [handles EXCEPT ![m] = @ - 1]
  /\ cmd_tree' = cmd_tree \ {m}
  /\ writer' = NoUser /\ Goto(u, "out") /\ Leaves(u)
  /\ UNCHANGED <<uses, readers>>
-----------------------------------------------------------------------------
Goes(u) ==
  \/ Find(u) \/ Add(u) \/ Unlock(u) \/ Run(u) \/ Signal(u) \/ Await(u) \/ Unload(u)

DmNext == \E u \in Users :
  Goes(u) \/ \E m \in Modules : Call(u, m) \/ Replace(u, m)

\* Threads that can go on do so; commands end.
DmFairness == \A u \in Users : WF_dmVars(Goes(u))

DmSpec == DmInit /\ [][DmNext]_dmVars /\ DmFairness
-----------------------------------------------------------------------------
DmTypeOK ==
  /\ cmd_tree \subseteq Modules
  /\ uses \in [Modules -> Nat] /\ handles \in [Modules -> Nat]
  /\ readers \subseteq Users /\ writer \in Users \cup {NoUser}
  /\ step \in [Users -> {"out", "find", "failed", "add", "unlock", "run", "signal",
                         "await", "asleep", "unload"}]
  /\ model \in [Users -> Modules \cup {NoUser}]

\* No command runs in a module that was unloaded, though its caller holds no
\* lock while it runs (dm_app.c:89-92).
LoadedWhileRun ==
  \A u \in Users : step[u] = "run" => model[u] \in cmd_tree /\ handles[model[u]] > 0

\* A module that has its command counts the calls that are in it, from the
\* moment they have found it (dm_app.c:40, 85) to the moment they end (94).
CallsCounted ==
  \A m \in cmd_tree \ Unfit :
    uses[m] = Cardinality({u \in Users : model[u] = m /\ step[u] \in {"unlock", "run"}})

\* What is not in the tree is not loaded: the next call loads the new file, not
\* the old one again (dm_app.c:161).
GoneIsClosed ==
  \A m \in Modules \ cmd_tree :
    handles[m] = Cardinality({u \in Users : model[u] = m /\ step[u] = "add"})

\* The counts cover the calls, the module of a call that runs stays loaded though
\* others look for it, replace it and wait for it (dm_app.c:89-92, 154), and one
\* that was taken out is closed.
DmSafe == DmTypeOK /\ LoadedWhileRun /\ CallsCounted /\ GoneIsClosed

\* To unload a module that has its command ends, though new calls to all others
\* wait for it meanwhile.
UnloadEnds ==
  \A u \in Users : step[u] = "asleep" /\ model[u] \notin Unfit ~> step[u] = "out"
=============================================================================
