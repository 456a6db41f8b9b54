----------------------------- MODULE NodeStartup -----------------------------
(***************************************************************************)
(* The files of one node, and the processes that open them: `tip-node      *)
(* serve` (serve in crates/tip-node/src/main.rs), which loads or makes the *)
(* node key (load_or_generate in adapters/node_key_file.rs), and `tip-node *)
(* sync`, which does not.  Both open the database, and migrate one that an *)
(* earlier version of the program left behind (SqliteEventStore::open in   *)
(* adapters/sqlite_event_store.rs).  Every system call and every statement *)
(* is a step; a process may die between any two of them.                   *)
(*                                                                         *)
(*   run[p]    where process p is ("off"; at the key file: "key", "create",*)
(*             "write"; at the database: "tables", "columns", "alter",     *)
(*             "number", "index"; "sync", "bind", "serve"), and its key    *)
(*   file      the key file: no file, one cut short, or a key              *)
(*   schema    the events table: none yet, one without a sequence column,  *)
(*             one with it, one with the unique index on it as well        *)
(*   rows      the sequence number of each row, in the order of rowids,    *)
(*             0 for NULL                                                  *)
(*   cut       whether a migration has stopped between its statements      *)
(*   shown     the keys under which the node has served                    *)
(*   cursor    the last sequence number a peer of the node has seen, and   *)
(*   pulled    the rows it was given                                       *)
(***************************************************************************)
EXTENDS Integers, Sequences, Functions, FiniteSetsExt

CONSTANTS
  Servers,    \* the processes that run serve
  Tools,      \* the processes that run sync
  Address,    \* where each server listens
  Keys,       \* the keys a server can generate
  NoFile, CutShort,   \* a key file that is not there, or not whole
  MaxOld,     \* how many rows an earlier version may have left
  MaxRows     \* a bound on the rows

Processes == Servers \cup Tools

ASSUME StartupAssumption ==
  /\ Servers \cap Tools = {}
  /\ NoFile \notin Keys /\ CutShort \notin Keys /\ NoFile # CutShort
  /\ MaxOld \in Nat
  /\ MaxRows \in Nat

VARIABLES run, file, schema, rows, cut, shown, cursor, pulled

database == << schema, rows, cut >>
peer == << cursor, pulled >>
vars == << run, file, schema, rows, cut, shown, cursor, pulled >>

Phases == {"off", "key", "create", "write", "tables", "columns", "alter",
           "number", "index", "sync", "bind", "serve"}

Off == [phase |-> "off", key |-> NoFile]

Init ==
  /\ run = [p \in Processes |-> Off]
  /\ file = NoFile
  /\ \/ schema = "none" /\ rows = << >>
     \/ schema = "old" /\ \E k \in 0 .. MaxOld : rows = [i \in 1 .. k |-> 0]
  /\ cut = FALSE
  /\ shown = {}
  /\ cursor = 0
  /\ pulled = {}

At(p, phase) == run[p].phase = phase

GoTo(p, phase) == run' = [run EXCEPT ![p].phase = phase]

Exit(p) == run' = [run EXCEPT ![p] = Off]

-----------------------------------------------------------------------------
(* The key file. *)

(* A server begins with its key, the other commands with the database.     *)
Start(p) ==
  /\ At(p, "off")
  /\ GoTo(p, IF p \in Servers THEN "key" ELSE "tables")
  /\ UNCHANGED << file, database, shown, peer >>

(* load_or_generate finds a file and reads it: what is not JSON ends the   *)
(* process.  The faulty form goes on with it.                              *)
LoadKeyUnparsed(p) ==
  /\ At(p, "key")
  /\ file # NoFile
  /\ run' = [run EXCEPT ![p] = [phase |-> "tables", key |-> file]]
  /\ UNCHANGED << file, database, shown, peer >>

LoadKey(p) ==
  /\ At(p, "key")
  /\ file # NoFile
  /\ IF file \in Keys
       THEN run' = [run EXCEPT ![p] = [phase |-> "tables", key |-> file]]
       ELSE Exit(p)
  /\ UNCHANGED << file, database, shown, peer >>

(* It finds none, and generates a key that no one else has.                *)
GenerateKey(p) ==
  /\ At(p, "key")
  /\ file = NoFile
  /\ \E k \in Keys :
       /\ \A q \in Processes : run[q].key # k
       /\ run' = [run EXCEPT ![p] = [phase |-> "create", key |-> k]]
  /\ UNCHANGED << file, database, shown, peer >>

(* The file is opened with create_new, which fails when there is one by    *)
(* now.  The faulty form truncates that one.                               *)
CreateOver(p) ==
  /\ At(p, "create")
  /\ file' = CutShort
  /\ GoTo(p, "write")
  /\ UNCHANGED << database, shown, peer >>

CreateKeyFile(p) ==
  /\ At(p, "create")
  /\ IF file = NoFile
       THEN file' = CutShort /\ GoTo(p, "write")
       ELSE file' = file /\ Exit(p)
  /\ UNCHANGED << database, shown, peer >>

WriteKeyFile(p) ==
  /\ At(p, "write")
  /\ file' = run[p].key
  /\ GoTo(p, "tables")
  /\ UNCHANGED << database, shown, peer >>

-----------------------------------------------------------------------------
(* The database. *)

(* migrate creates the tables that are not there. *)
CreateTables(p) ==
  /\ At(p, "tables")
  /\ schema' = IF schema = "none" THEN "numbered" ELSE schema
  /\ GoTo(p, "columns")
  /\ UNCHANGED << file, rows, cut, shown, peer >>

(* ensure_sequence_column looks at the columns of the table. *)
ReadColumns(p) ==
  /\ At(p, "columns")
  /\ GoTo(p, IF schema = "old" THEN "alter" ELSE "index")
  /\ UNCHANGED << file, database, shown, peer >>

(* ALTER TABLE fails when another process has added the column since.      *)
(* The faulty form goes straight on to the index.                          *)
AlterOnly(p) ==
  /\ At(p, "alter")
  /\ IF schema = "old"
       THEN schema' = "numbered" /\ GoTo(p, "index")
       ELSE schema' = schema /\ Exit(p)
  /\ UNCHANGED << file, rows, cut, shown, peer >>

Alter(p) ==
  /\ At(p, "alter")
  /\ IF schema = "old"
       THEN schema' = "numbered" /\ GoTo(p, "number")
       ELSE schema' = schema /\ Exit(p)
  /\ UNCHANGED << file, rows, cut, shown, peer >>

(***************************************************************************)
(* UPDATE gives every row without a number its rowid, or fails and changes *)
(* none of them: a row that another process has stored meanwhile may have  *)
(* the number.  The faulty form does without the index.                    *)
(***************************************************************************)
Numbered == [i \in DOMAIN rows |-> IF rows[i] = 0 THEN i ELSE rows[i]]

Distinct(numbers) ==
  \A i, j \in DOMAIN numbers : numbers[i] = numbers[j] /\ numbers[i] # 0 => i = j

NumberAnyway(p) ==
  /\ At(p, "number")
  /\ rows' = Numbered
  /\ GoTo(p, "index")
  /\ UNCHANGED << file, schema, cut, shown, peer >>

Number(p) ==
  /\ At(p, "number")
  /\ IF schema = "indexed" => Distinct(Numbered)
       THEN rows' = Numbered /\ cut' = cut /\ GoTo(p, "index")
       ELSE rows' = rows /\ cut' = TRUE /\ Exit(p)
  /\ UNCHANGED << file, schema, shown, peer >>

(* CREATE UNIQUE INDEX fails when two rows have the same number.           *)
CreateIndex(p) ==
  /\ At(p, "index")
  /\ IF Distinct(rows)
       THEN schema' = "indexed" /\ GoTo(p, "sync")
       ELSE schema' = schema /\ Exit(p)
  /\ UNCHANGED << file, rows, cut, shown, peer >>

(* append stores an event that is new under the number after the highest   *)
(* one: from the synchronisation of a process, the periodic one of a       *)
(* server included, which is there before bind, or from a request.         *)
AppendRow(p) ==
  /\ run[p].phase \in {"sync", "bind", "serve"}
  /\ Len(rows) < MaxRows
  /\ rows' = Append(rows, Max({0} \cup Range(rows)) + 1)
  /\ UNCHANGED << run, file, schema, cut, shown, peer >>

-----------------------------------------------------------------------------
(* Service. *)

(* The synchronisation is over, or not asked for: a server goes on to its  *)
(* address, sync is done.                                                  *)
Synced(p) ==
  /\ At(p, "sync")
  /\ IF p \in Servers THEN GoTo(p, "bind") ELSE Exit(p)
  /\ UNCHANGED << file, database, shown, peer >>

(* bind fails while another process listens. *)
Bind(p) ==
  /\ At(p, "bind")
  /\ IF \E q \in Servers : At(q, "serve") /\ Address[q] = Address[p]
       THEN Exit(p) /\ shown' = shown
       ELSE GoTo(p, "serve") /\ shown' = shown \cup {run[p].key}
  /\ UNCHANGED << file, database, peer >>

(* A peer asks a server for the row after its cursor. *)
Pull(p) ==
  /\ At(p, "serve")
  /\ \E i \in DOMAIN rows :
       /\ rows[i] > cursor
       /\ \A j \in DOMAIN rows : rows[j] > cursor => rows[i] <= rows[j]
       /\ cursor' = rows[i]
       /\ pulled' = pulled \cup {i}
  /\ UNCHANGED << run, file, database, shown >>

(* A process is stopped, or a statement, a write or the synchronisation at *)
(* the start fails.                                                        *)
Die(p) ==
  /\ ~At(p, "off")
  /\ Exit(p)
  /\ cut' = (cut \/ At(p, "number"))
  /\ UNCHANGED << file, schema, rows, shown, peer >>

-----------------------------------------------------------------------------

Proceed(p) ==
  \/ LoadKey(p)
  \/ GenerateKey(p)
  \/ CreateKeyFile(p)
  \/ WriteKeyFile(p)
  \/ CreateTables(p)
  \/ ReadColumns(p)
  \/ Alter(p)
  \/ Number(p)
  \/ CreateIndex(p)
  \/ Synced(p)
  \/ Bind(p)

Next ==
  \E p \in Processes :
    \/ Start(p)
    \/ Proceed(p)
    \/ AppendRow(p)
    \/ Pull(p)
    \/ Die(p)

Spec == Init /\ [][Next]_vars

-----------------------------------------------------------------------------
(* Properties. *)

TypeOK ==
  /\ run \in [Processes -> [phase : Phases, key : Keys \cup {NoFile}]]
  /\ \A p \in Servers : run[p].phase \notin {"off", "key"} => run[p].key \in Keys
  /\ file \in Keys \cup {NoFile, CutShort}
  /\ schema \in {"none", "old", "numbered", "indexed"}
  /\ rows \in Seq(Nat)
  /\ cut \in BOOLEAN
  /\ shown \subseteq Keys
  /\ cursor \in Nat
  /\ pulled \subseteq DOMAIN rows

(* However many processes start at the same time, die and start again, the *)
(* node never shows its peers, who may have pinned its key, two keys: one  *)
(* process creates the file, and the others do not start (create_new in    *)
(* write_secret_file).                                                     *)
OneIdentity == \A k, l \in shown : k = l

(* A peer that follows the sequence numbers has been given every row up to *)
(* its cursor: no row gets a number below one that was handed out, by a    *)
(* migration next to a running process either (the unique index of         *)
(* ensure_sequence_column makes UPDATE fail as a whole then).              *)
NothingSkipped ==
  \A i \in DOMAIN rows : 0 < rows[i] /\ rows[i] <= cursor => i \in pulled

(* Every event of a database that processes have opened is on offer to     *)
(* peers, except while a migration is between its ALTER TABLE and its      *)
(* UPDATE, or if one has stopped there.                                    *)
EveryRowOffered ==
  schema \in {"numbered", "indexed"} /\ ~cut
      /\ (\A p \in Processes : ~At(p, "number")) =>
    \A i \in DOMAIN rows : rows[i] > 0

(* Rows that an earlier version left get their numbers in one step, in the *)
(* order in which they were stored; no number is ever changed.             *)
NumbersStand ==
  [][ /\ \A i \in DOMAIN rows : rows[i] > 0 => rows'[i] = rows[i]
      /\ (\E i \in DOMAIN rows : rows'[i] # rows[i]) =>
           \A i \in DOMAIN rows : rows'[i] = i ]_rows
==============================================================================
