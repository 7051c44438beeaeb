----------------------------- MODULE Migrations -----------------------------
(***************************************************************************)
(* migrate() and rollbackAll() of the schema: every start of the BOT and   *)
(* every operator command runs migrate(), one caller at a time under a     *)
(* lock of the server.  MySQL commits each statement of a script by        *)
(* itself, and the row that records the version comes after them: a caller *)
(* whose connection is cut in between leaves a torn version behind.        *)
(*                                                                         *)
(* An action is one query; reads that follow each other under the lock are *)
(* one step.  A script is known by the number of its statements, and what  *)
(* is in place of a version by how many of its objects exist: the up       *)
(* script makes them in order, the down script drops them in reverse.      *)
(***************************************************************************)
EXTENDS Naturals, Sequences, FiniteSetsExt

CONSTANTS
  Callers,
  NoCaller,
  MaxCuts       \* bound: connections that are lost

ASSUME MigrationsAssumption == NoCaller \notin Callers /\ MaxCuts \in Nat

VARIABLES
  db,         \* the schema, and the table of the recorded versions
  namedLock,  \* who has the lock of the server
  call,       \* where each caller is
  torn,       \* for checking: versions in which a caller was cut off
  cuts        \* for checking: connections lost so far

migrationVars == <<db, namedLock, call, torn, cuts>>

\* The scripts: how many statements each has, both ways.
Scripts == <<5, 1, 1, 1, 1>>
Versions == DOMAIN Scripts

\* 003, 004 and 005 alter one table of an earlier version.
Altered == [v \in 3..5 |-> IF v = 4 THEN [version |-> 1, object |-> 5]
                                    ELSE [version |-> 2, object |-> 1]]
Alterations == DOMAIN Altered

\* CREATE TABLE IF NOT EXISTS
Repeatable == {1}

Idle == [op |-> "none", pc |-> "idle", version |-> 1, statement |-> 1,
         found |-> {}, result |-> "none"]

MigrationsInit ==
  /\ db = [made |-> [v \in Versions |-> 0], recorded |-> {}, table |-> FALSE]
  /\ namedLock = NoCaller
  /\ call = [c \in Callers |-> Idle]
  /\ torn = {} /\ cuts = 0

----------------------------------------------------------------------------
(* The statements                                                          *)

BaseExists(v) == db.made[Altered[v].version] >= Altered[v].object

UpFails(v, k) ==
  \/ v \notin Repeatable /\ db.made[v] >= k
  \/ v \in Alterations /\ ~BaseExists(v)

Up(v, k) == [db EXCEPT !.made[v] = Max({@, k})]

\* DROP TABLE IF EXISTS for what CREATE made; an alteration can be taken back
\* once.
DownFails(v) == v \in Alterations /\ db.made[v] = 0

\* A table takes its alterations with it.
Down(v, k) ==
  LET n == Scripts[v] - k + 1
      gone(w) == w \in Alterations /\ Altered[w] = [version |-> v, object |-> n]
  IN [db EXCEPT !.made = [w \in Versions |->
        IF w = v THEN Min({db.made[w], n - 1}) ELSE IF gone(w) THEN 0 ELSE db.made[w]]]

StatementFails(s) ==
  IF s.op = "migrate" THEN UpFails(s.version, s.statement) ELSE DownFails(s.version)

\* What the query a caller waits for does to the database.
Executed(s) ==
  CASE s.pc = "creating"  -> [db EXCEPT !.table = TRUE]
    [] s.pc = "running" /\ ~StatementFails(s) ->
         IF s.op = "migrate" THEN Up(s.version, s.statement) ELSE Down(s.version, s.statement)
    [] s.pc = "recording" -> [db EXCEPT !.recorded =
         IF s.op = "migrate" THEN @ \cup {s.version} ELSE @ \ {s.version}]
    [] s.pc = "dropping"  -> [db EXCEPT !.table = FALSE, !.recorded = {}]
    [] OTHER -> db

----------------------------------------------------------------------------
(* The callers                                                             *)

Goes(c, s) == call' = [call EXCEPT ![c] = s]

AtStatement(s, v, k) == [s EXCEPT !.pc = "running", !.version = v, !.statement = k]

Ending(s, result) == [s EXCEPT !.pc = "releasing", !.result = result]

\* A version is done: on to the next one.
Onward(s) ==
  IF s.op = "migrate"
    THEN IF s.version = Len(Scripts) THEN Ending(s, "ok")
         ELSE [s EXCEPT !.pc = "checking", !.version = @ + 1]
    ELSE LET left == {v \in s.found : v < s.version} IN
         IF left = {} THEN [s EXCEPT !.pc = "dropping"]
         ELSE AtStatement(s, Max(left), 1)

Call(c) ==
  /\ call[c].pc = "idle"
  /\ \E op \in {"migrate", "rollback"} : Goes(c, [Idle EXCEPT !.op = op, !.pc = "locking"])
  /\ UNCHANGED <<db, namedLock, torn, cuts>>

\* Seeded fault: the answer of GET_LOCK is not looked at.
GrantedAnyway == TRUE

\* GET_LOCK answers 1.
Granted == namedLock = NoCaller

GetLock(c) ==
  /\ call[c].pc = "locking" /\ Granted
  /\ namedLock' = c
  /\ Goes(c, [call[c] EXCEPT !.pc = IF call[c].op = "migrate"
                                      THEN "creating" ELSE "inspecting"])
  /\ UNCHANGED <<db, torn, cuts>>

\* The lock was not given back within ten seconds.
LockTimesOut(c) ==
  /\ call[c].pc = "locking" /\ namedLock # NoCaller
  /\ Goes(c, Ending(call[c], "unavailable"))
  /\ UNCHANGED <<db, namedLock, torn, cuts>>

CreateTable(c) ==
  /\ call[c].pc = "creating"
  /\ db' = Executed(call[c])
  /\ Goes(c, [call[c] EXCEPT !.pc = "checking"])
  /\ UNCHANGED <<namedLock, torn, cuts>>

Check(c) ==
  /\ call[c].pc = "checking"
  /\ Goes(c, IF call[c].version \in db.recorded THEN Onward(call[c])
             ELSE AtStatement(call[c], call[c].version, 1))
  /\ UNCHANGED <<db, namedLock, torn, cuts>>

\* Without the table there is nothing to roll back.
Inspect(c) ==
  /\ call[c].pc = "inspecting"
  /\ Goes(c, IF ~db.table THEN Ending(call[c], "ok")
             ELSE Onward([call[c] EXCEPT !.found = db.recorded,
                                        !.version = Len(Scripts) + 1]))
  /\ UNCHANGED <<db, namedLock, torn, cuts>>

Run(c) ==
  /\ call[c].pc = "running"
  /\ db' = Executed(call[c])
  /\ LET s == call[c] IN
     Goes(c, IF StatementFails(s) THEN Ending(s, "statement")
             ELSE IF s.statement < Scripts[s.version]
               THEN AtStatement(s, s.version, s.statement + 1)
               ELSE [s EXCEPT !.pc = "recording"])
  /\ UNCHANGED <<namedLock, torn, cuts>>

Record(c) ==
  /\ call[c].pc = "recording"
  /\ db' = Executed(call[c])
  /\ Goes(c, Onward(call[c]))
  /\ UNCHANGED <<namedLock, torn, cuts>>

DropTable(c) ==
  /\ call[c].pc = "dropping"
  /\ db' = Executed(call[c])
  /\ Goes(c, Ending(call[c], "ok"))
  /\ UNCHANGED <<namedLock, torn, cuts>>

Freed(c) == IF namedLock = c THEN NoCaller ELSE namedLock

\* RELEASE_LOCK, and the connection goes back to the pool.
Release(c) ==
  /\ call[c].pc = "releasing"
  /\ namedLock' = Freed(c)
  /\ Goes(c, Idle)
  /\ UNCHANGED <<db, torn, cuts>>

Whole(v) == db'.made[v] = IF v \in db'.recorded THEN Scripts[v] ELSE 0

\* The process dies or its connection is lost: the query under way is executed
\* or not, and the server ends the session and its lock with it.
Cut(c) ==
  /\ cuts < MaxCuts /\ call[c].pc # "idle"
  /\ cuts' = cuts + 1
  /\ db' \in {db, Executed(call[c])}
  /\ torn' = torn \cup (IF call[c].pc \in {"running", "recording"} /\ ~Whole(call[c].version)
                        THEN {[op |-> call[c].op, version |-> call[c].version]} ELSE {})
  /\ namedLock' = Freed(c)
  /\ Goes(c, Idle)

MigrationsNext ==
  \E c \in Callers :
    \/ Call(c) \/ GetLock(c) \/ LockTimesOut(c)
    \/ CreateTable(c) \/ Check(c) \/ Inspect(c)
    \/ Run(c) \/ Record(c) \/ DropTable(c)
    \/ Release(c) \/ Cut(c)

MigrationsSpec == MigrationsInit /\ [][MigrationsNext]_migrationVars

----------------------------------------------------------------------------
(* Properties                                                              *)

Database == [made : [Versions -> 0..5], recorded : SUBSET Versions, table : BOOLEAN]

CallerState ==
  [op : {"none", "migrate", "rollback"},
   pc : {"idle", "locking", "creating", "checking", "inspecting", "running",
         "recording", "dropping", "releasing"},
   version : 1..(Len(Scripts) + 1), statement : 1..5, found : SUBSET Versions,
   result : {"none", "ok", "statement", "unavailable"}]

\* The variables have their types.
MigrationsTypeOK ==
  /\ db \in Database
  /\ namedLock \in Callers \cup {NoCaller}
  /\ call \in [Callers -> CallerState]
  /\ torn \subseteq [op : {"migrate", "rollback"}, version : Versions]
  /\ cuts \in 0..MaxCuts

Complete == \A v \in Versions : v \in db.recorded /\ db.made[v] = Scripts[v]
Removed == ~db.table /\ \A v \in Versions : db.made[v] = 0

\* Callers do not disturb one another: migrate() leaves every version in place,
\* rollbackAll() none, and no statement fails, unless an earlier caller was cut
\* off between a statement and its row.  Version 1 may even be cut off: its
\* statements can be repeated.
CallsSucceedUnlessTorn ==
  \A c \in Callers : call[c].pc = "releasing" =>
    /\ call[c].result = "statement" =>
         torn \ {[op |-> "migrate", version |-> 1]} # {}
    /\ call[c].result = "ok" /\ call[c].op = "migrate" =>
         Complete \/ \E t \in torn : t.op = "rollback"
    /\ call[c].result = "ok" /\ call[c].op = "rollback" => Removed \/ torn # {}
=============================================================================
