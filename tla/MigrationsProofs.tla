--------------------------- MODULE MigrationsProofs ---------------------------
(* Theorems about Migrations, for every number of runners, of migrations and  *)
(* of contents that a file may have.                                          *)
EXTENDS Migrations, TLAPS

-----------------------------------------------------------------------------
(* The inductive invariant. *)

\* Where a runner is, it has a migration to work on.
Placed(r) ==
  LET p == runner[r] IN
  /\ p.step \in {"insert", "script", "failed"} => p.cmd = "up" /\ p.at \in Version
  /\ p.step \in {"mark", "drop"} => p.cmd = "down" /\ p.at \in Version
  /\ p.step = "look" /\ p.cmd = "up" => p.at >= 1
  /\ p.step = "look" /\ p.cmd = "down" => p.at <= Last

Typed == TypeOK /\ \A r \in Runner : Placed(r)

\* Nobody rolls back while another applies.
OneCommand ==
  \A q, r \in Runner : Active(q) /\ Active(r) => runner[q].cmd = runner[r].cmd

\* What an up has passed is there, whoever applied it.
Passed ==
  \A r \in Runner : Active(r) /\ runner[r].cmd = "up" =>
    \A v \in Version : v < runner[r].at =>
      schema[v] = file[v] /\ v \notin restored /\ ledger[v] # Null

\* A down leaves no migration applied behind it.
Behind ==
  \A r \in Runner : Active(r) /\ runner[r].cmd = "down" =>
    \A v \in Version : v > runner[r].at => RowState(v) # "applied"

\* No migration is applied over one that has no row.
Prefix ==
  \A u, v \in Version : u < v /\ RowState(v) = "applied" => ledger[u] # Null

\* Unless two downs overlapped, there is one at most, and what it found applied
\* still is while it takes it back.
Alone ==
  ~ overlapped =>
    /\ \A q, r \in Runner : Active(q) /\ Active(r) /\ runner[r].cmd = "down" => q = r
    /\ \A r \in Runner : runner[r].step \in {"mark", "drop"} => RowState(runner[r].at) = "applied"

IInv == Typed /\ OneCommand /\ LedgerTellsSchema /\ Passed /\ Behind /\ Prefix /\ Alone

-----------------------------------------------------------------------------
(* A runner's place. *)

\* A runner that goes on to a place that suits its command is typed.
LEMMA GotoTyped ==
  ASSUME Typed, NEW r \in Runner, NEW step \in Step, NEW v \in 0 .. Last + 1, Goto(r, step, v),
         step \in {"insert", "script", "failed"} => runner[r].cmd = "up" /\ v \in Version,
         step \in {"mark", "drop"} => runner[r].cmd = "down" /\ v \in Version,
         step = "look" /\ runner[r].cmd = "up" => v >= 1,
         step = "look" /\ runner[r].cmd = "down" => v <= Last
  PROVE  /\ runner' \in [Runner -> [cmd : {"up", "down"}, step : Step, at : 0 .. Last + 1]]
         /\ \A q \in Runner : Placed(q)'
<1>1. runner' = [runner EXCEPT ![r] = [runner[r] EXCEPT !.step = step, !.at = v]]
  BY DEF Goto, Typed, TypeOK
<1>2. runner[r] \in [cmd : {"up", "down"}, step : Step, at : 0 .. Last + 1]
  BY DEF Typed, TypeOK
<1> DEFINE p == [runner[r] EXCEPT !.step = step, !.at = v]
<1>3. /\ p \in [cmd : {"up", "down"}, step : Step, at : 0 .. Last + 1]
      /\ p.cmd = runner[r].cmd /\ p.step = step /\ p.at = v
  BY <1>2
<1> HIDE DEF p
<1>4. runner' \in [Runner -> [cmd : {"up", "down"}, step : Step, at : 0 .. Last + 1]]
  BY <1>1, <1>3 DEF Typed, TypeOK, p
<1>5. runner'[r] = p /\ \A q \in Runner \ {r} : runner'[q] = runner[q]
  BY <1>1 DEF Typed, TypeOK, p
<1>6. Placed(r)'
  BY <1>3, <1>5 DEF Placed, Version
<1>7. \A q \in Runner \ {r} : Placed(q)'
  BY <1>5 DEF Placed, Typed, Version
<1> QED BY <1>4, <1>6, <1>7

\* Every step keeps the types and the places.
LEMMA NextTyped == Typed /\ [Next]_vars => Typed'
<1> SUFFICES ASSUME Typed, [Next]_vars PROVE Typed'
  OBVIOUS
<1> USE LastAssumption, NullAssumption, BaseAssumption
<1> DEFINE Places == /\ runner' \in [Runner -> [cmd : {"up", "down"}, step : Step, at : 0 .. Last + 1]]
                     /\ \A q \in Runner : Placed(q)'
<1>1. ASSUME NEW r \in Runner PROVE runner[r].at \in 0 .. Last + 1 /\ Placed(r)
  BY DEF Typed, TypeOK
<1>2. ASSUME NEW r \in Runner, Exit(r) PROVE Places
  BY <1>2, GotoTyped DEF Exit, Step
<1>3. ASSUME NEW r \in Runner, NEW cmd \in {"up", "down"}, Start(r, cmd) PROVE Typed'
  <2>1. runner' \in [Runner -> [cmd : {"up", "down"}, step : Step, at : 0 .. Last + 1]]
    BY <1>3 DEF Start, Typed, TypeOK, Step
  <2>2. \A q \in Runner : Placed(q)'
    BY <1>3 DEF Start, Placed, Typed, TypeOK, Version
  <2> QED BY <1>3, <2>1, <2>2 DEF Start, Typed, TypeOK, Version
<1>4. ASSUME NEW r \in Runner, LookUp(r) PROVE Typed'
  <2> DEFINE v == runner[r].at
  <2>1. v \in 0 .. Last + 1 /\ v >= 1 /\ runner[r].cmd = "up"
    BY <1>1, <1>4 DEF LookUp, At, Placed
  <2>2. CASE Exit(r)
    BY <1>2, <2>2, <1>4 DEF LookUp, Typed, TypeOK, Version
  <2>3. CASE v <= Last /\ Goto(r, "insert", v)
    BY <2>1, <2>3, GotoTyped, <1>4 DEF LookUp, Typed, TypeOK, Version, Step
  <2>4. CASE v <= Last /\ Goto(r, "look", v + 1)
    BY <2>1, <2>4, GotoTyped, <1>4 DEF LookUp, Typed, TypeOK, Version, Step
  <2> QED BY <1>4, <2>2, <2>3, <2>4 DEF LookUp
<1>5. ASSUME NEW r \in Runner, Insert(r) PROVE Typed'
  <2>1. runner[r].at \in Version /\ runner[r].cmd = "up" /\ runner[r].at \in 0 .. Last + 1
    BY <1>1, <1>5 DEF Insert, At, Placed
  <2>2. Places
    BY <2>1, GotoTyped, <1>5 DEF Insert, Step
  <2> QED BY <1>5, <2>2 DEF Insert, Typed, TypeOK, Version
<1>6. ASSUME NEW r \in Runner, Script(r) PROVE Typed'
  <2> DEFINE v == runner[r].at
  <2>1. v \in Version /\ runner[r].cmd = "up" /\ v \in 0 .. Last + 1
    BY <1>1, <1>6 DEF Script, At, Placed
  <2>2. Places
    BY <2>1, GotoTyped, <1>6 DEF Script, Step, Version
  <2>3. file' = file /\ file[v] \in Sum
    BY <2>1, <1>6 DEF Script, Typed, TypeOK
  <2>4. ledger' \in [Version -> Row \cup {Null}]
    BY <2>1, <2>3, <1>6 DEF Script, Typed, TypeOK, Row, State
  <2>5. schema' \in [Version -> Sum \cup {Null}]
    BY <2>1, <2>3, <1>6 DEF Script, Typed, TypeOK
  <2>6. restored' \subseteq restored /\ overlapped' = overlapped
    BY <1>6 DEF Script
  <2> QED BY <2>2, <2>3, <2>4, <2>5, <2>6 DEF Typed, TypeOK, Version
<1>7. ASSUME NEW r \in Runner, RecordFailure(r) PROVE Typed'
  <2> DEFINE v == runner[r].at
  <2>1. v \in Version
    BY <1>1, <1>7 DEF RecordFailure, At, Placed
  <2>2. (IF ledger[v] = Null THEN file[v] ELSE ledger[v].sum) \in Sum
    BY <2>1 DEF Typed, TypeOK, Row
  <2>3. ledger' \in [Version -> Row \cup {Null}]
    BY <2>1, <2>2, <1>7 DEF RecordFailure, Typed, TypeOK, Row, State
  <2> QED BY <1>2, <1>7, <2>3 DEF RecordFailure, Typed, TypeOK, Version
<1>8. ASSUME NEW r \in Runner, LookDown(r) PROVE Typed'
  <2> DEFINE v == runner[r].at
  <2>1. v \in 0 .. Last /\ runner[r].cmd = "down"
    BY <1>1, <1>8 DEF LookDown, At, Placed
  <2>2. CASE Exit(r)
    BY <1>2, <2>2, <1>8 DEF LookDown, Typed, TypeOK, Version
  <2>3. CASE v > 0 /\ Goto(r, "look", v - 1)
    BY <2>1, <2>3, GotoTyped, <1>8 DEF LookDown, Typed, TypeOK, Version, Step
  <2>4. CASE v > 0 /\ Goto(r, "mark", v)
    BY <2>1, <2>4, GotoTyped, <1>8 DEF LookDown, Typed, TypeOK, Version, Step
  <2> QED BY <1>8, <2>2, <2>3, <2>4 DEF LookDown
<1>9. ASSUME NEW r \in Runner, Mark(r) PROVE Typed'
  <2>1. runner[r].at \in Version /\ runner[r].cmd = "down" /\ runner[r].at \in 0 .. Last + 1
    BY <1>1, <1>9 DEF Mark, At, Placed
  <2> QED BY <2>1, GotoTyped, <1>9 DEF Mark, Step, Typed, TypeOK, Version
<1>10. ASSUME NEW r \in Runner, Drop(r) PROVE Typed'
  <2> DEFINE v == runner[r].at
  <2>1. v \in Version /\ runner[r].cmd = "down" /\ v \in 0 .. Last + 1
    BY <1>1, <1>10 DEF Drop, At, Placed
  <2>2. Places
    BY <1>2, <2>1, GotoTyped, <1>10 DEF Drop, Step, Version
  <2>3. ledger' \in [Version -> Row \cup {Null}] /\ schema' \in [Version -> Sum \cup {Null}]
    BY <2>1, <1>10 DEF Drop, Typed, TypeOK
  <2>4. restored' \subseteq {u \in Version : base[u] # 0}
    BY <2>1, <1>10 DEF Drop, RestoredBy, Typed, TypeOK
  <2> QED BY <2>2, <2>3, <2>4, <1>10 DEF Drop, Typed, TypeOK, Version
<1>11. ASSUME NEW r \in Runner, Crash(r) PROVE Typed'
  BY <1>2, <1>11 DEF Crash, Typed, TypeOK, Version
<1>12. ASSUME NEW v \in Version, EditFile(v) PROVE Typed'
  BY <1>12 DEF EditFile, Typed, TypeOK, Placed, Version
<1>13. CASE UNCHANGED vars
  BY <1>13 DEF vars, Typed, TypeOK, Placed, Version
<1> QED
  BY <1>3, <1>4, <1>5, <1>6, <1>7, <1>8, <1>9, <1>10, <1>11, <1>12, <1>13 DEF Next, RunnerStep

-----------------------------------------------------------------------------
(* The ledger and the schema. *)

\* What a script that ends well does to the tables.
LEMMA ScriptEffect ==
  ASSUME Typed, NEW r \in Runner, Script(r), ledger' # ledger \/ schema' # schema \/ restored' # restored
  PROVE  \E v \in Version :
         /\ v = runner[r].at /\ Goto(r, "look", v + 1)
         /\ restored' = {u \in restored : u # v /\ base[u] # v}
         /\ ledger'[v] # Null /\ ledger'[v].state = "applied"
         /\ ledger'[v].sum = file[v] /\ schema'[v] = file[v]
         /\ \A w \in Version \ {v} : ledger'[w] = ledger[w] /\ schema'[w] = schema[w]
<1> USE NullAssumption
<1> DEFINE v == runner[r].at
           row == [state |-> "applied", sum |-> file[v]]
<1>1. v \in Version
  BY DEF Script, At, Typed, Placed
<1>2. /\ ledger' = [ledger EXCEPT ![v] = row] /\ schema' = [schema EXCEPT ![v] = file[v]]
      /\ restored' = {u \in restored : u # v /\ base[u] # v} /\ Goto(r, "look", v + 1)
  BY DEF Script
<1>3. /\ ledger'[v] = row /\ schema'[v] = file[v]
      /\ \A w \in Version \ {v} : ledger'[w] = ledger[w] /\ schema'[w] = schema[w]
  BY <1>1, <1>2 DEF Typed, TypeOK
<1>4. row \in Row
  BY <1>1 DEF Typed, TypeOK, Row, State
<1>5. row # Null /\ row.state = "applied" /\ row.sum = file[v]
  BY <1>4, NullRowAssumption
<1> HIDE DEF row
<1> QED BY <1>1, <1>2, <1>3, <1>5

\* What a recorded failure does to the tables.
LEMMA FailureEffect ==
  ASSUME Typed, NEW r \in Runner, RecordFailure(r)
  PROVE  \E v \in Version :
         /\ v = runner[r].at /\ UNCHANGED <<schema, restored>>
         /\ ledger'[v] # Null /\ ledger'[v].state = "failed"
         /\ \A w \in Version \ {v} : ledger'[w] = ledger[w]
<1> USE NullAssumption
<1>1. runner[r].at \in Version
  BY DEF RecordFailure, At, Typed, Placed
<1> DEFINE v == runner[r].at
           row == [state |-> "failed", sum |-> IF ledger[v] = Null THEN file[v] ELSE ledger[v].sum]
<1>2. ledger' = [ledger EXCEPT ![v] = row] /\ UNCHANGED <<schema, restored>>
  BY DEF RecordFailure
<1>3. ledger'[v].state = "failed" /\ \A w \in Version \ {v} : ledger'[w] = ledger[w]
  BY <1>1, <1>2 DEF Typed, TypeOK
<1>4. ledger'[v] \in Row
  BY <1>1, <1>2 DEF Typed, TypeOK, Row, State
<1>5. ledger'[v] # Null
  BY <1>4, NullRowAssumption
<1> QED BY <1>1, <1>2, <1>3, <1>5

\* What a down script that ends well does to the tables.
LEMMA DropEffect ==
  ASSUME Typed, NEW r \in Runner, Drop(r), ledger' # ledger \/ schema' # schema \/ restored' # restored
  PROVE  \E v \in Version :
         /\ v = runner[r].at /\ Goto(r, "look", v - 1) /\ restored' = RestoredBy(v)
         /\ ledger'[v] = Null /\ schema'[v] = Null
         /\ \A w \in Version \ {v} : ledger'[w] = ledger[w] /\ schema'[w] = schema[w]
<1>1. runner[r].at \in Version
  BY DEF Drop, At, Typed, Placed
<1> QED BY <1>1 DEF Drop, Typed, TypeOK

\* Row and objects change in one commit, and what was put back goes before the
\* row of the migration that made it.
LEMMA NextLedger ==
  Typed /\ LedgerTellsSchema /\ Prefix /\ Alone /\ [Next]_vars => LedgerTellsSchema'
<1> SUFFICES ASSUME Typed, LedgerTellsSchema, Prefix, Alone, [Next]_vars PROVE LedgerTellsSchema'
  OBVIOUS
<1> USE NullAssumption, BaseAssumption
<1>1. \A u \in restored : u \in Version /\ base[u] \in Version /\ base[u] < u
  <2> SUFFICES ASSUME NEW u \in restored
               PROVE  u \in Version /\ base[u] \in Version /\ base[u] < u
    OBVIOUS
  <2>1. u \in Version /\ base[u] # 0
    BY DEF Typed, TypeOK
  <2> QED BY <2>1, LastAssumption DEF Version
<1>2. ASSUME UNCHANGED <<ledger, schema, restored>>, ~ overlapped' => ~ overlapped
      PROVE  LedgerTellsSchema'
  BY <1>2 DEF LedgerTellsSchema, RowState
<1>3. ASSUME NEW r \in Runner, Script(r) PROVE LedgerTellsSchema'
  <2>1. overlapped' = overlapped
    BY <1>3 DEF Script
  <2>2. CASE ~ UNCHANGED <<ledger, schema, restored>>
    <3>1. PICK v \in Version :
          /\ restored' = {u \in restored : u # v /\ base[u] # v}
          /\ ledger'[v] # Null /\ ledger'[v].state = "applied"
          /\ ledger'[v].sum = file[v] /\ schema'[v] = file[v]
          /\ \A w \in Version \ {v} : ledger'[w] = ledger[w] /\ schema'[w] = schema[w]
      BY <1>3, <2>2, ScriptEffect
    <3>2. \A w \in Version \ {v} : RowState(w)' = RowState(w)
      BY <3>1 DEF RowState
    <3>3. \A w \in Version :
            /\ RowState(w)' = "applied" => schema'[w] = ledger'[w].sum /\ w \notin restored'
            /\ ledger'[w] = Null => schema'[w] = Null
      BY <3>1, <3>2 DEF LedgerTellsSchema
    <3>4. ~ overlapped => \A u \in restored' : ledger'[base[u]] # Null
      BY <1>1, <3>1 DEF LedgerTellsSchema
    <3> QED BY <2>1, <3>3, <3>4 DEF LedgerTellsSchema, Version
  <2> QED BY <1>2, <2>1, <2>2
<1>4. ASSUME NEW r \in Runner, RecordFailure(r) PROVE LedgerTellsSchema'
  <2>1. PICK v \in Version :
        /\ UNCHANGED <<schema, restored>>
        /\ ledger'[v] # Null /\ ledger'[v].state = "failed"
        /\ \A w \in Version \ {v} : ledger'[w] = ledger[w]
    BY <1>4, FailureEffect
  <2>2. overlapped' = overlapped
    BY <1>4 DEF RecordFailure
  <2>3. RowState(v)' # "applied" /\ \A w \in Version \ {v} : RowState(w)' = RowState(w)
    BY <2>1 DEF RowState
  <2>4. ~ overlapped => \A u \in restored' : ledger'[base[u]] # Null
    BY <1>1, <2>1 DEF LedgerTellsSchema
  <2> QED BY <2>1, <2>2, <2>3, <2>4 DEF LedgerTellsSchema, Version
<1>5. ASSUME NEW r \in Runner, Drop(r) PROVE LedgerTellsSchema'
  <2>1. overlapped' = overlapped /\ runner[r].step = "drop"
    BY <1>5 DEF Drop, At
  <2>2. CASE ~ UNCHANGED <<ledger, schema, restored>>
    <3>1. PICK v \in Version :
          /\ v = runner[r].at /\ restored' = RestoredBy(v)
          /\ ledger'[v] = Null /\ schema'[v] = Null
          /\ \A w \in Version \ {v} : ledger'[w] = ledger[w] /\ schema'[w] = schema[w]
      BY <1>5, <2>2, DropEffect
    <3>2. ~ overlapped => RowState(v) = "applied"
      BY <2>1, <3>1 DEF Alone
    <3>3. RowState(v)' # "applied" /\ \A w \in Version \ {v} : RowState(w)' = RowState(w)
      BY <3>1 DEF RowState
    <3>4. \A w \in Version \ {v} : w \in restored' => w \in restored
      BY <3>1 DEF RestoredBy
    <3>5. \A w \in Version :
            /\ RowState(w)' = "applied" => schema'[w] = ledger'[w].sum /\ w \notin restored'
            /\ ledger'[w] = Null => schema'[w] = Null
      <4> SUFFICES ASSUME NEW w \in Version
                   PROVE  /\ RowState(w)' = "applied" =>
                               schema'[w] = ledger'[w].sum /\ w \notin restored'
                          /\ ledger'[w] = Null => schema'[w] = Null
        OBVIOUS
      <4> QED BY <3>1, <3>3, <3>4 DEF LedgerTellsSchema
    <3>6. ASSUME ~ overlapped, NEW u \in restored' PROVE ledger'[base[u]] # Null
      <4>1. CASE u \in restored /\ base[u] # v
        BY <1>1, <3>1, <3>6, <4>1 DEF LedgerTellsSchema
      <4>2. CASE u = v /\ base[v] # 0
        <5>1. base[v] \in Version /\ base[v] < v
          BY <3>1, <4>2, LastAssumption DEF Version
        <5>2. ledger[base[v]] # Null
          BY <3>1, <3>2, <3>6, <5>1 DEF Prefix
        <5>3. base[v] # v
          BY <3>1, <5>1, LastAssumption DEF Version
        <5> QED BY <3>1, <4>2, <5>1, <5>2, <5>3
      <4> QED BY <3>1, <3>6, <4>1, <4>2 DEF RestoredBy
    <3> QED BY <2>1, <3>5, <3>6 DEF LedgerTellsSchema, Version
  <2> QED BY <1>2, <2>1, <2>2
<1>6. ASSUME NEW r \in Runner, NEW cmd \in {"up", "down"}, Start(r, cmd) PROVE LedgerTellsSchema'
  BY <1>2, <1>6 DEF Start
<1>7. ASSUME NEW r \in Runner, LookUp(r) \/ Insert(r) \/ LookDown(r) \/ Mark(r) \/ Crash(r)
      PROVE  LedgerTellsSchema'
  BY <1>2, <1>7 DEF LookUp, Insert, LookDown, Mark, Crash
<1>8. CASE (\E v \in Version : EditFile(v)) \/ UNCHANGED vars
  BY <1>2, <1>8 DEF EditFile, vars
<1> QED
  BY <1>3, <1>4, <1>5, <1>6, <1>7, <1>8 DEF Next, RunnerStep

\* All runners that are active run the same command.
LEMMA NextOneCommand == Typed /\ OneCommand /\ [Next]_vars => OneCommand'
<1> SUFFICES ASSUME Typed, OneCommand, [Next]_vars PROVE OneCommand'
  OBVIOUS
<1>1. ASSUME NEW r \in Runner, NEW cmd \in {"up", "down"}, Start(r, cmd) PROVE OneCommand'
  BY <1>1 DEF Start, OneCommand, Active, Typed, TypeOK
<1>2. ASSUME NEW r \in Runner, Active(r), NEW step, NEW v, Goto(r, step, v) PROVE OneCommand'
  <2>1. \A q \in Runner : runner'[q].cmd = runner[q].cmd /\ (Active(q)' => Active(q))
    BY <1>2 DEF Goto, Active, Typed, TypeOK
  <2> QED BY <2>1 DEF OneCommand
<1>3. ASSUME runner' = runner PROVE OneCommand'
  BY <1>3 DEF OneCommand, Active
<1>4. ASSUME NEW r \in Runner,
             LookUp(r) \/ Insert(r) \/ Script(r) \/ RecordFailure(r)
               \/ LookDown(r) \/ Mark(r) \/ Drop(r) \/ Crash(r)
      PROVE  Active(r) /\ \E step, v : Goto(r, step, v)
  <2>1. Active(r)
    BY <1>4 DEF LookUp, Insert, Script, RecordFailure, LookDown, Mark, Drop, Crash, At, Active
  <2>2. \E step, v : Goto(r, step, v)
    BY <1>4 DEF LookUp, Insert, Script, RecordFailure, LookDown, Mark, Drop, Crash, Exit
  <2> QED BY <2>1, <2>2
<1> QED
  BY <1>1, <1>2, <1>3, <1>4 DEF Next, RunnerStep, EditFile, vars

\* What an up has passed stays: only a rollback takes it away, and only a release
\* of other files makes it wrong, and neither can be while an up is active.
LEMMA NextPassed ==
  Typed /\ OneCommand /\ LedgerTellsSchema /\ Passed /\ [Next]_vars => Passed'
<1> DEFINE Good(w) == schema[w] = file[w] /\ w \notin restored /\ ledger[w] # Null
<1> SUFFICES ASSUME Typed, OneCommand, LedgerTellsSchema, Passed, [Next]_vars,
                    NEW q \in Runner, Active(q)', runner'[q].cmd = "up",
                    NEW w \in Version, w < runner'[q].at
             PROVE  Good(w)'
  BY DEF Passed, Version
<1> USE NullAssumption, LastAssumption
<1>1. ASSUME Good(w) => Good(w)', runner'[q] = runner[q] PROVE Good(w)'
  BY <1>1 DEF Passed, Active
<1>2. ASSUME NEW r \in Runner, NEW step, NEW v, Goto(r, step, v)
      PROVE  /\ q # r => runner'[q] = runner[q]
             /\ q = r => /\ runner'[q].cmd = runner[q].cmd
                        /\ runner'[q].step = step /\ runner'[q].at = v
  BY <1>2 DEF Goto, Typed, TypeOK
<1>3. ASSUME NEW r \in Runner, Exit(r), Good(w) => Good(w)' PROVE Good(w)'
  BY <1>1, <1>2, <1>3 DEF Exit, Active
<1>4. ASSUME NEW r \in Runner, Active(r), NEW step, Goto(r, step, runner[r].at),
             Good(w) => Good(w)'
      PROVE  Good(w)'
  BY <1>2, <1>4 DEF Passed, Active
<1>5. ASSUME NEW r \in Runner, NEW cmd \in {"up", "down"}, Start(r, cmd) PROVE Good(w)'
  <2>1. q # r => runner'[q] = runner[q]
    BY <1>5 DEF Start, Typed, TypeOK
  <2>2. q = r => runner'[q].at = 1
    BY <1>5 DEF Start, Typed, TypeOK
  <2>3. Good(w) => Good(w)'
    BY <1>5 DEF Start
  <2>4. w >= 1
    BY DEF Version
  <2>5. q # r
    BY <2>2, <2>4 DEF Version
  <2> QED BY <1>1, <2>1, <2>3, <2>5
<1>6. ASSUME NEW r \in Runner, LookUp(r) PROVE Good(w)'
  <2> DEFINE v == runner[r].at
  <2>1. /\ Active(r) /\ runner[r].cmd = "up" /\ v \in 0 .. Last + 1
        /\ UNCHANGED <<file, schema, restored, ledger>>
    BY <1>6 DEF LookUp, At, Active, Typed, TypeOK
  <2>2. CASE /\ v <= Last /\ ledger[v] = [state |-> "applied", sum |-> file[v]]
             /\ Goto(r, "look", v + 1)
    <3>1. CASE q # r
      BY <1>1, <1>2, <2>1, <2>2, <3>1
    <3>2. CASE q = r
      <4>1. w < v + 1
        BY <1>2, <2>2, <3>2
      <4>2. w < v => Good(w)
        BY <2>1, <3>2 DEF Passed
      <4>3. v \in Version
        BY <1>6, <2>1, <2>2 DEF LookUp, At, Typed, Placed, Version
      <4>4. ledger[v] # Null /\ RowState(v) = "applied" /\ ledger[v].sum = file[v]
        <5>1. ledger[v] \in Row
          BY <2>2, <4>3 DEF Row, State, Typed, TypeOK
        <5> QED BY <2>2, <5>1, NullRowAssumption DEF RowState
      <4>5. Good(v)
        BY <4>3, <4>4 DEF LedgerTellsSchema
      <4>6. w = v \/ w < v
        BY <2>1, <4>1 DEF Version
      <4> QED BY <2>1, <4>2, <4>5, <4>6
    <3> QED BY <3>1, <3>2
  <2>3. Good(w) => Good(w)'
    BY <2>1
  <2> HIDE DEF Good
  <2> QED BY <1>3, <1>4, <1>6, <2>1, <2>2, <2>3 DEF LookUp
<1>7. ASSUME NEW r \in Runner, Script(r) PROVE Good(w)'
  <2>1. Active(r) /\ runner[r].cmd = "up" /\ UNCHANGED file
    BY <1>7 DEF Script, At, Active
  <2>2. CASE ~ UNCHANGED <<ledger, schema, restored>>
    <3>1. PICK v \in Version :
            /\ v = runner[r].at /\ Goto(r, "look", v + 1)
            /\ restored' = {u \in restored : u # v /\ base[u] # v}
            /\ ledger'[v] # Null /\ schema'[v] = file[v]
            /\ \A u \in Version \ {v} : ledger'[u] = ledger[u] /\ schema'[u] = schema[u]
      BY <1>7, <2>2, ScriptEffect
    <3>2. w = v => Good(w)'
      BY <2>1, <3>1
    <3>3. w # v => (Good(w) => Good(w)')
      BY <2>1, <3>1
    <3>4. q # r => runner'[q] = runner[q]
      BY <1>2, <3>1
    <3>5. q = r => w < v + 1
      BY <1>2, <3>1
    <3>6. w # v => Good(w)
      BY <2>1, <3>1, <3>4, <3>5 DEF Passed, Active, Version
    <3> QED BY <3>2, <3>3, <3>6
  <2>3. CASE UNCHANGED <<ledger, schema, restored>>
    <3>1. Good(w) => Good(w)'
      BY <2>1, <2>3
    <3>2. CASE Goto(r, "failed", runner[r].at)
      BY <1>4, <2>1, <3>1, <3>2
    <3>3. CASE /\ ledger' = [ledger EXCEPT ![runner[r].at] =
                              [state |-> "applied", sum |-> file[runner[r].at]]]
               /\ schema' = [schema EXCEPT ![runner[r].at] = file[runner[r].at]]
               /\ restored' = {u \in restored : u # runner[r].at /\ base[u] # runner[r].at}
               /\ Goto(r, "look", runner[r].at + 1)
      <4> DEFINE v == runner[r].at
      <4>1. v \in Version
        BY <1>7 DEF Script, At, Typed, Placed
      <4>2. schema[v] = file[v] /\ v \notin restored
        BY <2>3, <3>3, <4>1 DEF Typed, TypeOK
      <4>3. ledger[v] = [state |-> "applied", sum |-> file[v]]
        BY <2>3, <3>3, <4>1 DEF Typed, TypeOK
      <4>4. ledger[v] \in Row
        BY <4>1, <4>3 DEF Row, State, Typed, TypeOK
      <4>5. Good(v)
        BY <4>2, <4>4, NullRowAssumption
      <4>6. q # r => runner'[q] = runner[q]
        BY <1>2, <3>3
      <4>7. q = r => w < v + 1
        BY <1>2, <3>3
      <4>8. w # v => Good(w)
        BY <2>1, <4>1, <4>6, <4>7 DEF Passed, Active, Version
      <4> QED BY <3>1, <4>5, <4>8
    <3> QED BY <1>7, <3>2, <3>3 DEF Script
  <2> QED BY <2>2, <2>3
<1>8. ASSUME NEW r \in Runner, Insert(r) \/ RecordFailure(r) \/ Mark(r) \/ LookDown(r) \/ Crash(r)
      PROVE  Good(w)'
  <2>1. Good(w) => Good(w)'
    <3>1. CASE UNCHANGED <<file, schema, restored, ledger>>
      BY <3>1
    <3>2. CASE RecordFailure(r)
      <4>1. UNCHANGED file
        BY <3>2 DEF RecordFailure
      <4>2. PICK v \in Version :
              /\ UNCHANGED <<schema, restored>> /\ ledger'[v] # Null
              /\ \A u \in Version \ {v} : ledger'[u] = ledger[u]
        BY <3>2, FailureEffect
      <4> QED BY <4>1, <4>2
    <3> QED BY <1>8, <3>1, <3>2 DEF Insert, Mark, LookDown, Crash
  <2> HIDE DEF Good
  <2>2. CASE Exit(r)
    BY <1>3, <2>1, <2>2
  <2>3. CASE Active(r) /\ \E step \in Step : Goto(r, step, runner[r].at)
    BY <1>4, <2>1, <2>3
  <2>4. CASE runner[r].cmd = "down" /\ Goto(r, "look", runner[r].at - 1)
    BY <1>1, <1>2, <2>1, <2>4
  <2> QED BY <1>8, <2>2, <2>3, <2>4 DEF Insert, RecordFailure, Mark, LookDown, Crash, At, Active, Step
<1>9. ASSUME NEW r \in Runner, Drop(r) PROVE Good(w)'
  <2>1. Active(r) /\ runner[r].cmd = "down"
    BY <1>9 DEF Drop, At, Active
  <2>2. runner[q].cmd = "up" /\ q # r
    BY <1>2, <1>9, <2>1 DEF Drop, Exit
  <2>3. ~ Active(q)
    BY <2>1, <2>2 DEF OneCommand
  <2>4. runner'[q] = runner[q]
    BY <1>2, <1>9, <2>2 DEF Drop, Exit
  <2> QED BY <2>3, <2>4 DEF Active
<1>10. ASSUME NEW v \in Version, EditFile(v) PROVE Good(w)'
  BY <1>10 DEF EditFile, Active
<1>11. CASE UNCHANGED vars
  BY <1>1, <1>11 DEF vars
<1> HIDE DEF Good
<1> QED
  BY <1>5, <1>6, <1>7, <1>8, <1>9, <1>10, <1>11 DEF Next, RunnerStep

\* No down leaves an applied migration behind it: it looks at each once, and no up
\* is active meanwhile.
LEMMA NextBehind == Typed /\ OneCommand /\ Behind /\ [Next]_vars => Behind'
<1> SUFFICES ASSUME Typed, OneCommand, Behind, [Next]_vars,
                    NEW q \in Runner, Active(q)', runner'[q].cmd = "down",
                    NEW w \in Version, w > runner'[q].at
             PROVE  RowState(w)' # "applied"
  BY DEF Behind, Version
<1> USE LastAssumption, NullAssumption
<1> DEFINE Keeps == RowState(w)' = "applied" => RowState(w) = "applied"
<1>1. ASSUME Keeps, runner'[q] = runner[q] PROVE RowState(w)' # "applied"
  BY <1>1 DEF Behind, Active
<1>2. ASSUME NEW r \in Runner, NEW step, NEW v, Goto(r, step, v)
      PROVE  /\ q # r => runner'[q] = runner[q]
             /\ q = r => /\ runner'[q].cmd = runner[q].cmd
                        /\ runner'[q].step = step /\ runner'[q].at = v
  BY <1>2 DEF Goto, Typed, TypeOK
<1>3. ASSUME UNCHANGED ledger PROVE Keeps
  BY <1>3 DEF RowState
<1>4. ASSUME NEW r \in Runner, Exit(r), Keeps PROVE RowState(w)' # "applied"
  BY <1>1, <1>2, <1>4 DEF Exit, Active
<1>5. ASSUME NEW r \in Runner, Active(r), NEW step, Goto(r, step, runner[r].at), Keeps
      PROVE  RowState(w)' # "applied"
  BY <1>2, <1>5 DEF Behind, Active
<1>6. ASSUME NEW r \in Runner, NEW cmd \in {"up", "down"}, Start(r, cmd)
      PROVE  RowState(w)' # "applied"
  <2>1. q # r => runner'[q] = runner[q]
    BY <1>6 DEF Start, Typed, TypeOK
  <2>2. q = r => runner'[q].at = Last
    BY <1>6 DEF Start, Typed, TypeOK
  <2>3. q # r
    BY <2>2 DEF Version
  <2> QED BY <1>1, <1>3, <1>6, <2>1, <2>3 DEF Start
<1>7. ASSUME NEW r \in Runner, Active(r), runner[r].cmd = "up", NEW step, NEW v, Goto(r, step, v)
      PROVE  RowState(w)' # "applied"
  <2>1. q # r /\ runner'[q] = runner[q]
    BY <1>2, <1>7
  <2>2. runner[q].cmd = "down" /\ Active(q)
    BY <2>1 DEF Active
  <2> QED BY <1>7, <2>2 DEF OneCommand
<1>8. ASSUME NEW r \in Runner, LookUp(r) \/ Insert(r) \/ Script(r) \/ RecordFailure(r)
      PROVE  RowState(w)' # "applied"
  <2>1. Active(r) /\ runner[r].cmd = "up"
    BY <1>8 DEF LookUp, Insert, Script, RecordFailure, At, Active
  <2>2. \E step, v : Goto(r, step, v)
    BY <1>8 DEF LookUp, Insert, Script, RecordFailure, Exit
  <2> QED BY <1>7, <2>1, <2>2
<1>9. ASSUME NEW r \in Runner, LookDown(r) PROVE RowState(w)' # "applied"
  <2>1. Active(r) /\ UNCHANGED ledger /\ runner[r].cmd = "down" /\ runner[r].at \in 0 .. Last + 1
    BY <1>9 DEF LookDown, At, Active, Typed, TypeOK
  <2>2. Keeps
    BY <1>3, <2>1
  <2>3. CASE RowState(runner[r].at) # "applied" /\ Goto(r, "look", runner[r].at - 1)
    <3>1. CASE q # r
      BY <1>1, <1>2, <2>2, <2>3, <3>1
    <3>2. CASE q = r
      <4>1. w > runner[r].at - 1
        BY <1>2, <2>3, <3>2
      <4>2. w = runner[r].at \/ w > runner[r].at
        BY <2>1, <4>1 DEF Version
      <4> QED BY <2>1, <2>2, <2>3, <4>2 DEF Behind
    <3> QED BY <3>1, <3>2
  <2> HIDE DEF Keeps
  <2> QED BY <1>4, <1>5, <1>9, <2>1, <2>2, <2>3 DEF LookDown
<1>10. ASSUME NEW r \in Runner, Mark(r) PROVE RowState(w)' # "applied"
  BY <1>3, <1>5, <1>10 DEF Mark, At, Active
<1>11. ASSUME NEW r \in Runner, Drop(r) PROVE RowState(w)' # "applied"
  <2>1. Active(r) /\ runner[r].cmd = "down" /\ runner[r].at \in Version
    BY <1>11 DEF Drop, At, Active, Typed, Placed
  <2>2. CASE ledger' = [ledger EXCEPT ![runner[r].at] = Null] /\ Goto(r, "look", runner[r].at - 1)
    <3>1. w = runner[r].at => ledger'[w] = Null
      BY <2>1, <2>2 DEF Typed, TypeOK
    <3>2. w = runner[r].at => RowState(w)' # "applied"
      BY <3>1 DEF RowState
    <3>3. w # runner[r].at => ledger'[w] = ledger[w]
      BY <2>1, <2>2 DEF Typed, TypeOK
    <3>4. w # runner[r].at => Keeps
      BY <3>3 DEF RowState
    <3>5. CASE w # runner[r].at
      <4>1. CASE q # r
        BY <1>1, <1>2, <2>2, <3>4, <3>5, <4>1
      <4>2. CASE q = r
        <5>1. w > runner[r].at - 1
          BY <1>2, <2>2, <4>2
        <5>2. w > runner[r].at
          BY <2>1, <3>5, <5>1 DEF Version
        <5> QED BY <2>1, <3>4, <3>5, <5>2 DEF Behind
      <4> QED BY <4>1, <4>2
    <3> QED BY <3>2, <3>5
  <2> QED BY <1>3, <1>4, <1>11, <2>2 DEF Drop
<1>12. ASSUME NEW r \in Runner, Crash(r) PROVE RowState(w)' # "applied"
  BY <1>3, <1>4, <1>12 DEF Crash
<1>13. ASSUME NEW v \in Version, EditFile(v) PROVE RowState(w)' # "applied"
  BY <1>13 DEF EditFile, Active
<1>14. CASE UNCHANGED vars
  BY <1>1, <1>3, <1>14 DEF vars
<1> HIDE DEF Keeps
<1> QED
  BY <1>6, <1>8, <1>9, <1>10, <1>11, <1>12, <1>13, <1>14 DEF Next, RunnerStep

\* Ups apply in order, downs take back in the other.
LEMMA NextPrefix ==
  Typed /\ Passed /\ Behind /\ Prefix /\ [Next]_vars => Prefix'
<1> SUFFICES ASSUME Typed, Passed, Behind, Prefix, [Next]_vars,
                    NEW u \in Version, NEW w \in Version, u < w, RowState(w)' = "applied"
             PROVE  ledger'[u] # Null
  BY DEF Prefix, Version
<1> USE LastAssumption, NullAssumption
<1>1. ASSUME UNCHANGED ledger PROVE ledger'[u] # Null
  BY <1>1 DEF RowState, Prefix
<1>2. ASSUME NEW r \in Runner, Script(r) PROVE ledger'[u] # Null
  <2>1. CASE UNCHANGED ledger
    BY <1>1, <2>1
  <2>2. CASE ~ UNCHANGED ledger
    <3>1. PICK v \in Version :
            /\ v = runner[r].at /\ ledger'[v] # Null
            /\ \A x \in Version \ {v} : ledger'[x] = ledger[x]
      BY <1>2, <2>2, ScriptEffect
    <3>2. u < v => ledger[u] # Null
      BY <1>2, <3>1 DEF Script, At, Active, Passed
    <3>3. w # v => RowState(w) = "applied"
      BY <3>1 DEF RowState
    <3>4. w # v => ledger[u] # Null
      BY <3>3 DEF Prefix
    <3> QED BY <3>1, <3>2, <3>4
  <2> QED BY <2>1, <2>2
<1>3. ASSUME NEW r \in Runner, RecordFailure(r) PROVE ledger'[u] # Null
  <2>1. PICK v \in Version :
          /\ ledger'[v] # Null /\ ledger'[v].state = "failed"
          /\ \A x \in Version \ {v} : ledger'[x] = ledger[x]
    BY <1>3, FailureEffect
  <2>2. w # v
    BY <2>1 DEF RowState
  <2>3. RowState(w) = "applied"
    BY <2>1, <2>2 DEF RowState
  <2>4. ledger[u] # Null
    BY <2>3 DEF Prefix
  <2> QED BY <2>1, <2>4
<1>4. ASSUME NEW r \in Runner, Drop(r) PROVE ledger'[u] # Null
  <2>1. CASE UNCHANGED ledger
    BY <1>1, <2>1
  <2>2. CASE ~ UNCHANGED ledger
    <3>1. PICK v \in Version :
            /\ v = runner[r].at /\ ledger'[v] = Null
            /\ \A x \in Version \ {v} : ledger'[x] = ledger[x]
      BY <1>4, <2>2, DropEffect
    <3>2. w # v
      BY <3>1 DEF RowState
    <3>3. RowState(w) = "applied"
      BY <3>1, <3>2 DEF RowState
    <3>4. ~ w > v
      BY <1>4, <3>1, <3>3 DEF Behind, Drop, At, Active
    <3>5. u # v
      BY <3>4
    <3>6. ledger[u] # Null
      BY <3>3 DEF Prefix
    <3> QED BY <3>1, <3>5, <3>6
  <2> QED BY <2>1, <2>2
<1>5. ASSUME NEW r \in Runner,
             LookUp(r) \/ Insert(r) \/ LookDown(r) \/ Mark(r) \/ Crash(r)
               \/ \E cmd \in {"up", "down"} : Start(r, cmd)
      PROVE  ledger'[u] # Null
  BY <1>1, <1>5 DEF LookUp, Insert, LookDown, Mark, Crash, Start
<1>6. CASE (\E v \in Version : EditFile(v)) \/ UNCHANGED vars
  BY <1>1, <1>6 DEF EditFile, vars
<1> QED
  BY <1>2, <1>3, <1>4, <1>5, <1>6 DEF Next, RunnerStep

\* Only the start of a second down ends a down's solitude, and nobody else touches
\* the row that it is taking back.
LEMMA NextAlone == Typed /\ OneCommand /\ Alone /\ [Next]_vars => Alone'
<1> DEFINE Sole == \A q, r \in Runner : Active(q) /\ Active(r) /\ runner[r].cmd = "down" => q = r
           Found(q) == runner[q].step \in {"mark", "drop"} => RowState(runner[q].at) = "applied"
           Founds == \A q \in Runner : Found(q)
<1> SUFFICES ASSUME Typed, OneCommand, Alone, [Next]_vars, ~ overlapped' PROVE Sole' /\ Founds'
  BY DEF Alone
<1> USE LastAssumption, NullAssumption
<1>1. ~ overlapped
  BY DEF Next, RunnerStep, Start, LookUp, Insert, Script, RecordFailure, LookDown, Mark, Drop,
         Crash, EditFile, vars
<1>2. Sole /\ Founds
  BY <1>1 DEF Alone
<1>3. \A q \in Runner : runner[q].step \in {"mark", "drop"} =>
        Active(q) /\ runner[q].cmd = "down" /\ runner[q].at \in Version
  BY DEF Typed, Placed, Active
<1>4. ASSUME NEW r \in Runner, Active(r), NEW step, NEW v, Goto(r, step, v)
      PROVE  /\ Sole' /\ runner'[r].cmd = runner[r].cmd
             /\ runner'[r].step = step /\ runner'[r].at = v
             /\ \A q \in Runner \ {r} : runner'[q] = runner[q]
  <2>1. \A q \in Runner : runner'[q].cmd = runner[q].cmd /\ (Active(q)' => Active(q))
    BY <1>4 DEF Goto, Active, Typed, TypeOK
  <2>2. Sole'
    BY <1>2, <2>1
  <2> QED BY <1>4, <2>2 DEF Goto, Typed, TypeOK
<1>5. ASSUME NEW r \in Runner, Active(r), NEW step, NEW v, Goto(r, step, v),
             \/ step \notin {"mark", "drop"}
             \/ v = runner[r].at /\ RowState(v)' = "applied",
             \A q \in Runner \ {r} : runner[q].step \in {"mark", "drop"} => UNCHANGED ledger
      PROVE  Sole' /\ Founds'
  <2>1. Found(r)'
    BY <1>4, <1>5
  <2>2. \A q \in Runner \ {r} : Found(q)'
    BY <1>2, <1>4, <1>5 DEF RowState
  <2> HIDE DEF Found
  <2> QED BY <1>4, <1>5, <2>1, <2>2
<1>6. ASSUME NEW r \in Runner, NEW cmd \in {"up", "down"}, Start(r, cmd) PROVE Sole' /\ Founds'
  <2>1. /\ runner'[r].cmd = cmd /\ runner'[r].step = "look" /\ ~ Active(r) /\ UNCHANGED ledger
        /\ \A q \in Runner \ {r} : runner'[q] = runner[q]
        /\ cmd = "down" => \A q \in Runner : ~ Active(q)
        /\ cmd = "up" => \A q \in Runner : Active(q) => runner[q].cmd = "up"
    BY <1>6 DEF Start, Typed, TypeOK
  <2>2. Sole'
    BY <1>2, <2>1 DEF Active
  <2>3. Founds'
    BY <1>2, <2>1 DEF RowState
  <2> QED BY <2>2, <2>3
<1>7. ASSUME NEW r \in Runner, Active(r), runner[r].cmd = "up" \/ runner[r].step = "drop"
      PROVE  \A q \in Runner \ {r} : runner[q].step \notin {"mark", "drop"}
  BY <1>2, <1>3, <1>7 DEF OneCommand
<1>8. ASSUME NEW r \in Runner, LookUp(r) \/ Insert(r) \/ Script(r) \/ RecordFailure(r)
      PROVE  Sole' /\ Founds'
  <2>1. Active(r) /\ runner[r].cmd = "up"
    BY <1>8 DEF LookUp, Insert, Script, RecordFailure, At, Active
  <2>2. \E step \in Step \ {"mark", "drop"} : \E v : Goto(r, step, v)
    BY <1>8 DEF LookUp, Insert, Script, RecordFailure, Exit, Step
  <2> HIDE DEF Sole, Founds
  <2> QED BY <1>5, <1>7, <2>1, <2>2
<1>9. ASSUME NEW r \in Runner, LookDown(r) PROVE Sole' /\ Founds'
  <2>1. Active(r) /\ UNCHANGED ledger
    BY <1>9 DEF LookDown, At, Active
  <2>2. CASE Goto(r, "look", runner[r].at - 1) \/ Exit(r)
    <3> HIDE DEF Sole, Founds
    <3> QED BY <1>5, <2>1, <2>2 DEF Exit
  <2>3. CASE Goto(r, "mark", runner[r].at) /\ RowState(runner[r].at) = "applied"
    <3>1. PICK v : v = runner[r].at
      OBVIOUS
    <3>2. RowState(v)' = "applied"
      BY <2>1, <2>3, <3>1 DEF RowState
    <3> HIDE DEF Sole, Founds
    <3> QED BY <1>5, <2>1, <2>3, <3>1, <3>2
  <2> QED BY <1>9, <2>2, <2>3 DEF LookDown
<1>10. ASSUME NEW r \in Runner, Mark(r) PROVE Sole' /\ Founds'
  <2>1. Active(r) /\ UNCHANGED ledger /\ runner[r].step = "mark" /\ Goto(r, "drop", runner[r].at)
    BY <1>10 DEF Mark, At, Active
  <2>2. PICK v : v = runner[r].at
    OBVIOUS
  <2>3. RowState(v)' = "applied"
    BY <1>2, <2>1, <2>2 DEF RowState
  <2> HIDE DEF Sole, Founds
  <2> QED BY <1>5, <2>1, <2>2, <2>3
<1>11. ASSUME NEW r \in Runner, Drop(r) PROVE Sole' /\ Founds'
  <2>1. Active(r) /\ runner[r].step = "drop"
    BY <1>11 DEF Drop, At, Active
  <2>2. \E step \in {"look", "idle"} : \E v : Goto(r, step, v)
    BY <1>11 DEF Drop, Exit
  <2> HIDE DEF Sole, Founds
  <2> QED BY <1>5, <1>7, <2>1, <2>2
<1>12. ASSUME NEW r \in Runner, Crash(r) PROVE Sole' /\ Founds'
  <2> HIDE DEF Sole, Founds
  <2> QED BY <1>5, <1>12 DEF Crash, Exit
<1>13. CASE (\E v \in Version : EditFile(v)) \/ UNCHANGED vars
  <2>1. UNCHANGED <<runner, ledger>>
    BY <1>13 DEF EditFile, vars
  <2> QED BY <1>2, <2>1 DEF Active, RowState
<1> HIDE DEF Sole, Founds
<1> QED
  BY <1>6, <1>8, <1>9, <1>10, <1>11, <1>12, <1>13 DEF Next, RunnerStep

-----------------------------------------------------------------------------
(* The theorems. *)

\* In every reachable state the invariant holds.
LEMMA Invariance == Spec => []IInv
<1>1. Init => IInv
  <2> SUFFICES ASSUME Init PROVE IInv
    OBVIOUS
  <2>1. TypeOK
    <3>1. runner \in [Runner -> [cmd : {"up", "down"}, step : Step, at : 0 .. Last + 1]]
      BY LastAssumption DEF Init, Step
    <3>2. /\ file \in [Version -> Sum] /\ ledger \in [Version -> Row \cup {Null}]
          /\ schema \in [Version -> Sum \cup {Null}]
      BY DEF Init
    <3>3. restored \subseteq {v \in Version : base[v] # 0} /\ overlapped \in BOOLEAN
      BY DEF Init
    <3> QED BY <3>1, <3>2, <3>3 DEF TypeOK
  <2>2. \A r \in Runner : runner[r] = [cmd |-> "up", step |-> "idle", at |-> 0]
    BY DEF Init
  <2>3. (\A r \in Runner : Placed(r)) /\ OneCommand /\ Passed /\ Behind /\ Alone
    BY <2>2 DEF Placed, OneCommand, Passed, Behind, Alone, Active
  <2>4. LedgerTellsSchema /\ Prefix
    BY DEF Init, LedgerTellsSchema, Prefix, RowState
  <2> QED BY <2>1, <2>3, <2>4 DEF IInv, Typed
<1>2. IInv /\ [Next]_vars => IInv'
  BY NextTyped, NextOneCommand, NextLedger, NextPassed, NextBehind, NextPrefix, NextAlone
     DEF IInv
<1> QED BY <1>1, <1>2, PTL DEF Spec

\* Files, ledger, schema and runners are what they are declared as.
THEOREM TypeCorrect == Spec => []TypeOK
<1>1. IInv => TypeOK
  BY DEF IInv, Typed
<1> QED BY Invariance, <1>1, PTL

\* Whatever fails or is killed, the ledger tells what the database holds, but for
\* what overlapping downs have put back.
THEOREM LedgerIsTrue == Spec => []LedgerTellsSchema
<1>1. IInv => LedgerTellsSchema
  BY DEF IInv
<1> QED BY Invariance, <1>1, PTL

\* An up that ends well has left the schema of exactly its files, and nothing put
\* back.
THEOREM UpMeansSchema == Spec => []SuccessMeansSchema
<1>1. ASSUME IInv, NEW r \in Runner, At(r, "up", "look"), runner[r].at = Last + 1
      PROVE  schema = file /\ restored = {}
  <2>1. \A v \in Version : schema[v] = file[v] /\ v \notin restored
    BY <1>1, LastAssumption DEF IInv, Passed, Active, At, Version
  <2>2. restored \subseteq Version /\ schema \in [Version -> Sum \cup {Null}]
        /\ file \in [Version -> Sum]
    BY <1>1 DEF IInv, Typed, TypeOK
  <2>3. schema = file
    BY <2>1, <2>2
  <2> QED BY <2>1, <2>2, <2>3
<1>2. IInv => SuccessMeansSchema
  BY <1>1 DEF SuccessMeansSchema
<1> QED BY Invariance, <1>2, PTL
=============================================================================
