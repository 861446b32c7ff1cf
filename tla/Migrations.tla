----------------------------- MODULE Migrations -----------------------------
(* The migration runner (scripts/migrate.py).  Runners are processes on one  *)
(* database: a migration is one transaction that inserts its row, runs its   *)
(* script and marks the row applied; a row that another transaction has      *)
(* written and not committed makes a writer of that row wait.  Statements    *)
(* read committed.  A crash at any point takes the open transaction with it. *)
(*                                                                           *)
(* Operators run `up' several at a time, or `down', not both together, and   *)
(* change migration files only while no runner is active.                    *)
(*                                                                           *)
(* What exists of a migration is its own objects, replaced or not by a later *)
(* migration, and those that the down script of a later one has put back in  *)
(* their earlier form (`create or replace').  Not counted is what two down   *)
(* scripts leave on purpose: the vector extension (0017), and the form that  *)
(* a function of 0001 was given (0003), until that of 0001 drops it.         *)
EXTENDS Naturals

CONSTANTS
  Runner,     \* processes of migrate.py
  Last,       \* migrations are numbered 1..Last, in the order of their names
  Sum,        \* checksums a file may have
  base,       \* whose objects the down script of a migration puts back; 0, nobody's
  Null

ASSUME LastAssumption == Last \in Nat \ {0}
ASSUME NullAssumption == Null \notin Sum

ASSUME BaseAssumption ==
  base \in [1 .. Last -> 0 .. Last] /\ \A v \in 1 .. Last : base[v] < v

VARIABLES
  file,       \* [Version -> Sum], the checksum of the up file
  ledger,     \* schema_migrations: [Version -> row or Null], committed
  schema,     \* [Version -> Sum or Null], the script whose objects exist
  restored,   \* the migrations that have put objects back that still exist
  runner,     \* [Runner -> its command, step and migration]
  overlapped  \* history: a down was started while another one was active

vars == <<file, ledger, schema, restored, runner, overlapped>>

Version == 1 .. Last
\* A row 'applying' or 'rolling_back' is never committed.
State == {"applied", "failed"}
Row == [state : State, sum : Sum]
Step == {"idle", "look", "insert", "script", "mark", "drop", "failed"}

ASSUME NullRowAssumption == Null \notin Row

TypeOK ==
  /\ file \in [Version -> Sum]
  /\ ledger \in [Version -> Row \cup {Null}]
  /\ schema \in [Version -> Sum \cup {Null}]
  /\ restored \subseteq {v \in Version : base[v] # 0}
  /\ runner \in [Runner -> [cmd : {"up", "down"}, step : Step, at : 0 .. Last + 1]]
  /\ overlapped \in BOOLEAN

Init ==
  /\ file \in [Version -> Sum]
  /\ ledger = [v \in Version |-> Null]
  /\ schema = [v \in Version |-> Null]
  /\ restored = {}
  /\ runner = [r \in Runner |-> [cmd |-> "up", step |-> "idle", at |-> 0]]
  /\ overlapped = FALSE

Active(r) == runner[r].step # "idle"
At(r, cmd, step) == runner[r].cmd = cmd /\ runner[r].step = step
Goto(r, step, v) == runner' = [runner EXCEPT ![r].step = step, ![r].at = v]
\* The process ends: done, SystemExit, or the exception goes on up.
Exit(r) == Goto(r, "idle", 0)

RowState(v) == IF ledger[v] = Null THEN "none" ELSE ledger[v].state

\* Another transaction has written the row of v and is still open.
RowLocked(r, v) ==
  \E q \in Runner \ {r} :
    /\ runner[q].at = v
    /\ runner[q].step = "script" \/ (runner[q].step = "drop" /\ ledger[v] # Null)

------------------------------------------------------------------------------
\* apply_all.
Start(r, cmd) ==
  /\ ~ Active(r)
  /\ \A q \in Runner : Active(q) => runner[q].cmd = cmd
  /\ runner' = [runner EXCEPT ![r] = [cmd |-> cmd, step |-> "look",
                                      at |-> IF cmd = "up" THEN 1 ELSE Last]]
  /\ overlapped' = (overlapped \/ (cmd = "down" /\ \E q \in Runner : Active(q)))
  /\ UNCHANGED <<file, ledger, schema, restored>>

\* A file that changed is seen only where a row is compared with it.
FaultyLookUp(r) ==
  LET v == runner[r].at IN
  /\ At(r, "up", "look")
  /\ \/ v > Last /\ Exit(r)
     \/ v <= Last /\ ledger[v] = Null /\ Goto(r, "insert", v)
     \/ v <= Last /\ RowState(v) = "applied" /\ Goto(r, "look", v + 1)
     \/ v <= Last /\ RowState(v) = "failed" /\ Exit(r)
  /\ UNCHANGED <<file, ledger, schema, restored, overlapped>>

LookUp(r) ==
  LET v == runner[r].at IN
  /\ At(r, "up", "look")
  /\ \/ v > Last /\ Exit(r)
     \/ v <= Last /\ ledger[v] = Null /\ Goto(r, "insert", v)
     \/ v <= Last /\ ledger[v] = [state |-> "applied", sum |-> file[v]] /\ Goto(r, "look", v + 1)
     \/ v <= Last /\ ledger[v] \notin {Null, [state |-> "applied", sum |-> file[v]]} /\ Exit(r)
  /\ UNCHANGED <<file, ledger, schema, restored, overlapped>>

\* The row of the migration, 'applying'; the primary key refuses a second one
\* once the first is committed.
Insert(r) ==
  LET v == runner[r].at IN
  /\ At(r, "up", "insert")
  /\ ~ RowLocked(r, v)
  /\ Goto(r, IF ledger[v] = Null THEN "script" ELSE "failed", v)
  /\ UNCHANGED <<file, ledger, schema, restored, overlapped>>

\* The script, the row to 'applied' and the commit; a script that fails is
\* rolled back with its row.  What was put back is replaced.
Script(r) ==
  LET v == runner[r].at IN
  /\ At(r, "up", "script")
  /\ \/ /\ ledger' = [ledger EXCEPT ![v] = [state |-> "applied", sum |-> file[v]]]
        /\ schema' = [schema EXCEPT ![v] = file[v]]
        /\ restored' = {u \in restored : u # v /\ base[u] # v}
        /\ Goto(r, "look", v + 1)
     \/ Goto(r, "failed", v) /\ UNCHANGED <<ledger, schema, restored>>
  /\ UNCHANGED <<file, overlapped>>

\* The handler records the failure in a transaction of its own, over a row that
\* is there: the checksum of that row stays.
RecordFailure(r) ==
  LET v == runner[r].at IN
  /\ At(r, "up", "failed")
  /\ ~ RowLocked(r, v)
  /\ ledger' = [ledger EXCEPT ![v] =
       [state |-> "failed", sum |-> IF @ = Null THEN file[v] ELSE @.sum]]
  /\ Exit(r)
  /\ UNCHANGED <<file, schema, restored, overlapped>>

------------------------------------------------------------------------------
\* rollback_all.
LookDown(r) ==
  LET v == runner[r].at IN
  /\ At(r, "down", "look")
  /\ \/ v = 0 /\ Exit(r)
     \/ v > 0 /\ RowState(v) # "applied" /\ Goto(r, "look", v - 1)
     \/ v > 0 /\ RowState(v) = "applied" /\ Goto(r, "mark", v)
  /\ UNCHANGED <<file, ledger, schema, restored, overlapped>>

\* The update to 'rolling_back' finds no row when another runner has been
\* here first, and the down script runs all the same.
Mark(r) ==
  LET v == runner[r].at IN
  /\ At(r, "down", "mark")
  /\ ~ RowLocked(r, v)
  /\ Goto(r, "drop", v)
  /\ UNCHANGED <<file, ledger, schema, restored, overlapped>>

\* What exists of put back objects when the down script of v is through: it drops
\* those of v itself, if any, and puts back those of its base.
RestoredBy(v) == {u \in restored : base[u] # v} \cup (IF base[v] = 0 THEN {} ELSE {v})

\* The row is deleted in a transaction of its own.
FaultyDrop(r) ==
  LET v == runner[r].at IN
  /\ At(r, "down", "drop")
  /\ \/ /\ schema' = [schema EXCEPT ![v] = Null]
        /\ restored' = RestoredBy(v)
        /\ Goto(r, "look", v - 1)
     \/ Exit(r) /\ UNCHANGED <<schema, restored>>
  /\ ledger' = [ledger EXCEPT ![v] = Null]
  /\ UNCHANGED <<file, overlapped>>

\* The down script, the row and the commit; a script that fails ends the process
\* and its transaction.  A script that another runner has run before may well run
\* again (`if exists', `create or replace'), and puts back once more.
Drop(r) ==
  LET v == runner[r].at IN
  /\ At(r, "down", "drop")
  /\ \/ /\ schema' = [schema EXCEPT ![v] = Null]
        /\ restored' = RestoredBy(v)
        /\ ledger' = [ledger EXCEPT ![v] = Null]
        /\ Goto(r, "look", v - 1)
     \/ Exit(r) /\ UNCHANGED <<ledger, schema, restored>>
  /\ UNCHANGED <<file, overlapped>>

------------------------------------------------------------------------------
\* The process is killed: an open transaction is rolled back.
Crash(r) == Active(r) /\ Exit(r) /\ UNCHANGED <<file, ledger, schema, restored, overlapped>>

\* A release changes a migration file.
EditFile(v) ==
  /\ \A r \in Runner : ~ Active(r)
  /\ \E s \in Sum \ {file[v]} : file' = [file EXCEPT ![v] = s]
  /\ UNCHANGED <<ledger, schema, restored, runner, overlapped>>

RunnerStep(r) ==
  \/ \E cmd \in {"up", "down"} : Start(r, cmd)
  \/ LookUp(r) \/ Insert(r) \/ Script(r) \/ RecordFailure(r)
  \/ LookDown(r) \/ Mark(r) \/ Drop(r)
  \/ Crash(r)

Next == (\E r \in Runner : RunnerStep(r)) \/ (\E v \in Version : EditFile(v))

Spec == Init /\ [][Next]_vars

------------------------------------------------------------------------------
\* What the ledger says of a migration is what the database holds: the objects of
\* an applied migration are those of the script whose checksum is recorded, none of
\* them in an earlier form; of a migration without a row, which the next up will
\* run, its script has left nothing behind, nor has the down script of a later one,
\* unless two downs overlapped.  It takes the row, the script and the commit of
\* every runner, with failures and crashes between them, to be one unit, and the
\* order of the downs (migrate.py apply_all and rollback_all).
LedgerTellsSchema ==
  /\ \A v \in Version :
       /\ RowState(v) = "applied" => schema[v] = ledger[v].sum /\ v \notin restored
       /\ ledger[v] = Null => schema[v] = Null
  /\ ~ overlapped => \A u \in restored : ledger[base[u]] # Null

\* An up that ends well (it has passed the last migration) leaves the schema of
\* exactly the files it was given, and nothing put back, whatever runners raced it
\* and whatever an earlier release had applied (migrate.py apply_all, the checksum
\* mismatch).
SuccessMeansSchema ==
  \A r \in Runner :
    (At(r, "up", "look") /\ runner[r].at = Last + 1) => schema = file /\ restored = {}
=============================================================================
