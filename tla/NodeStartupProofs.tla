------------------------- MODULE NodeStartupProofs -------------------------
(***************************************************************************)
(* The node shows one key only, never numbers a row behind the cursor of a *)
(* peer, and offers every row once it has migrated, whatever number of     *)
(* processes open its files, in any order, and die at any point.           *)
(***************************************************************************)
EXTENDS NodeStartup, SequenceTheorems, TLAPS

-----------------------------------------------------------------------------
(* The key. *)

(* Past the key file. *)
Keyed == Phases \ {"off", "key", "create", "write"}

(* The file that a process is writing is its own, and there is no server   *)
(* past the key file yet; a server that is past it has the key on file,    *)
(* and so has everyone who was shown one.                                  *)
KeyInv ==
  /\ \A p \in Tools : run[p].phase \notin {"key", "create", "write", "bind", "serve"}
  /\ \A p \in Servers : At(p, "write") => file = CutShort
  /\ \A p, q \in Servers : At(p, "write") /\ At(q, "write") => p = q
  /\ \A p \in Servers : run[p].phase \in Keyed => file = run[p].key /\ file \in Keys
  /\ \A k \in shown : file = k

-----------------------------------------------------------------------------
(* The numbers. *)

(* Every row has its rowid for a number, or the rows of an earlier version *)
(* have none, and those after them are counted from one.                   *)
Straight(s) == \A i \in DOMAIN s : s[i] = i

ShiftedBy(s, k) ==
  /\ k \in 1 .. Len(s)
  /\ \A i \in 1 .. k : s[i] = 0
  /\ \A i \in k + 1 .. Len(s) : s[i] = i - k

Shaped(s) == Straight(s) \/ \E k \in 1 .. Len(s) : ShiftedBy(s, k)

Unnumbered(s) == \A i \in DOMAIN s : s[i] = 0

(* How far the schema is bounds how far the processes are, and the other   *)
(* way around; rows are added behind the index only.                       *)
Stages ==
  /\ schema = "none" =>
       rows = << >> /\ \A p \in Processes : run[p].phase \notin {"columns", "alter"}
  /\ schema \in {"none", "old"} =>
       /\ Unnumbered(rows)
       /\ \A p \in Processes : run[p].phase \notin {"number", "index"}
  /\ schema # "indexed" =>
       /\ Straight(rows) \/ Unnumbered(rows)
       /\ \A p \in Processes : run[p].phase \notin {"sync", "bind", "serve"}

CursorInv == cursor = 0 \/ \E i \in DOMAIN rows : rows[i] = cursor

RowsInv == Shaped(rows) /\ Stages /\ CursorInv /\ NothingSkipped /\ EveryRowOffered

IInv == TypeOK /\ KeyInv /\ RowsInv

-----------------------------------------------------------------------------
(* What appending to numbers of this shape does. *)

LEMMA MaxIs ==
  ASSUME NEW S \in SUBSET Nat, NEW h \in S, \A x \in S : x <= h
  PROVE  Max(S) = h
  <1>1. \A x \in S : h >= x
    BY DEF Max
  <1>2. Max(S) \in S /\ \A x \in S : Max(S) >= x
    BY <1>1, Zenon DEF Max
  <1>3. h \in Nat /\ Max(S) \in Nat /\ Max(S) >= h /\ Max(S) <= h
    BY <1>2
  <1> QED
    BY <1>3

LEMMA HighestOf ==
  ASSUME NEW s \in Seq(Nat), Shaped(s)
  PROVE  LET h == Max({0} \cup Range(s))
         IN  /\ h \in Nat
             /\ \A i \in DOMAIN s : s[i] <= h
             /\ Straight(s) => h = Len(s)
             /\ \A k \in 1 .. Len(s) : ShiftedBy(s, k) => h = Len(s) - k
  <1> DEFINE S == {0} \cup Range(s)
  <1>1. S \in SUBSET Nat /\ 0 \in S /\ (\A i \in 1 .. Len(s) : s[i] \in S)
        /\ \A x \in S : x = 0 \/ \E i \in 1 .. Len(s) : x = s[i]
    BY DEF Range
  <1> HIDE DEF S
  <1>2. ASSUME Straight(s) PROVE Max(S) = Len(s)
    <2>1. Len(s) \in S
      <3>1. CASE Len(s) = 0
        BY <1>1, <3>1
      <3>2. CASE Len(s) # 0
        BY <1>1, <1>2, <3>2 DEF Straight
      <3> QED
        BY <3>1, <3>2
    <2>2. \A x \in S : x <= Len(s)
      BY <1>1, <1>2 DEF Straight
    <2> QED
      BY <1>1, <2>1, <2>2, MaxIs
  <1>3. ASSUME NEW k \in 1 .. Len(s), ShiftedBy(s, k) PROVE Max(S) = Len(s) - k
    <2>1. Len(s) - k \in S
      <3>1. CASE Len(s) = k
        BY <1>1, <3>1
      <3>2. CASE Len(s) # k
        <4>1. Len(s) \in k + 1 .. Len(s) /\ Len(s) \in 1 .. Len(s)
          BY <3>2
        <4>2. s[Len(s)] = Len(s) - k
          BY <1>3, <4>1 DEF ShiftedBy
        <4> QED
          BY <1>1, <4>1, <4>2
      <3> QED
        BY <3>1, <3>2
    <2>2. \A x \in S : x <= Len(s) - k
      <3> SUFFICES ASSUME NEW i \in 1 .. Len(s) PROVE s[i] <= Len(s) - k
        BY <1>1
      <3> QED
        BY <1>3 DEF ShiftedBy
    <2> QED
      BY <1>1, <2>1, <2>2, MaxIs
  <1>4. Max(S) \in Nat /\ \A i \in DOMAIN s : s[i] <= Max(S)
    <2>1. CASE Straight(s)
      BY <1>2, <2>1 DEF Straight
    <2>2. CASE \E k \in 1 .. Len(s) : ShiftedBy(s, k)
      <3>1. PICK k \in 1 .. Len(s) : ShiftedBy(s, k)
        BY <2>2
      <3> QED
        BY <1>3, <3>1 DEF ShiftedBy
    <2> QED
      BY <2>1, <2>2 DEF Shaped
  <1> QED
    BY <1>2, <1>3, <1>4 DEF S

LEMMA AppendShaped ==
  ASSUME NEW s \in Seq(Nat), Shaped(s),
         NEW t, t = Append(s, Max({0} \cup Range(s)) + 1)
  PROVE  /\ t \in Seq(Nat) /\ Shaped(t)
         /\ Len(t) = Len(s) + 1
         /\ \A i \in DOMAIN s : t[i] = s[i]
         /\ \A i \in DOMAIN s : s[i] < t[Len(t)]
         /\ t[Len(t)] > 0
         /\ Straight(s) => Straight(t)
  <1> DEFINE h == Max({0} \cup Range(s))
  <1>1. /\ h \in Nat
        /\ \A i \in DOMAIN s : s[i] <= h
        /\ Straight(s) => h = Len(s)
        /\ \A k \in 1 .. Len(s) : ShiftedBy(s, k) => h = Len(s) - k
    BY HighestOf
  <1>2. t = Append(s, h + 1)
    OBVIOUS
  <1> HIDE DEF h
  <1>3. /\ t \in Seq(Nat)
        /\ Len(t) = Len(s) + 1
        /\ \A i \in DOMAIN s : t[i] = s[i]
        /\ t[Len(t)] = h + 1
    BY <1>1, <1>2
  <1>4. ASSUME Straight(s) PROVE Straight(t)
    BY <1>1, <1>3, <1>4 DEF Straight
  <1>5. ASSUME NEW k \in 1 .. Len(s), ShiftedBy(s, k) PROVE ShiftedBy(t, k)
    <2>6. Len(s) \in Nat /\ Len(t) = Len(s) + 1
      BY <1>3
    <2>7. h = Len(s) - k
      BY <1>1, <1>5
    <2>1. k \in 1 .. Len(t) /\ h + 1 = Len(t) - k
      BY <2>6, <2>7
    <2>2. \A i \in 1 .. k : t[i] = 0
      BY <1>3, <1>5 DEF ShiftedBy
    <2>5. ASSUME NEW i \in k + 1 .. Len(t) PROVE t[i] = i - k
      <3>1. CASE i = Len(t)
        BY <1>3, <2>1, <3>1
      <3>2. CASE i # Len(t)
        <4>1. i \in k + 1 .. Len(s) /\ i \in 1 .. Len(s)
          BY <2>6, <3>2
        <4> QED
          BY <1>3, <1>5, <4>1 DEF ShiftedBy
      <3> QED
        BY <3>1, <3>2
    <2> QED
      BY <2>1, <2>2, <2>5 DEF ShiftedBy
  <1>6. Shaped(t)
    <2>1. CASE Straight(s)
      BY <1>4, <2>1 DEF Shaped
    <2>2. CASE \E k \in 1 .. Len(s) : ShiftedBy(s, k)
      <3>1. PICK k \in 1 .. Len(s) : ShiftedBy(s, k)
        BY <2>2
      <3>2. ShiftedBy(t, k)
        BY <1>5, <3>1
      <3>3. k \in 1 .. Len(t)
        BY <1>3
      <3> QED
        BY <3>2, <3>3 DEF Shaped
    <2> QED
      BY <2>1, <2>2 DEF Shaped
  <1>7. \A i \in DOMAIN s : s[i] < h + 1
    <2>1. \A i \in DOMAIN s : s[i] \in Nat
      OBVIOUS
    <2> QED
      BY <1>1, <2>1
  <1>8. h + 1 > 0
    BY <1>1
  <1>9. (\A i \in DOMAIN s : s[i] < t[Len(t)]) /\ t[Len(t)] > 0
    BY <1>3, <1>7, <1>8
  <1> QED
    BY <1>3, <1>4, <1>6, <1>9

(* Numbers of this shape are distinct. *)
LEMMA ShapedDistinct ==
  ASSUME NEW s \in Seq(Nat), Shaped(s) PROVE Distinct(s)
  <1>1. CASE Straight(s)
    BY <1>1 DEF Straight, Distinct
  <1>2. CASE \E k \in 1 .. Len(s) : ShiftedBy(s, k)
    <2>1. PICK k \in 1 .. Len(s) : ShiftedBy(s, k)
      BY <1>2
    <2>2. \A i \in 1 .. Len(s) : s[i] # 0 => i > k /\ s[i] = i - k
      BY <2>1 DEF ShiftedBy
    <2>3. \A i, j \in 1 .. Len(s) : s[i] = s[j] /\ s[i] # 0 => i = j
      BY <2>2
    <2> QED
      BY <2>3 DEF Distinct
  <1> QED
    BY <1>1, <1>2 DEF Shaped

(* UPDATE finds rows that are all numbered, or none of which is, or it     *)
(* fails: the first row stored next to it has the rowid of an old one.     *)
LEMMA NumberingDistinct ==
  ASSUME TypeOK, Shaped(rows), Distinct(Numbered)
  PROVE  (Straight(rows) \/ Unnumbered(rows)) /\ Straight(Numbered)
         /\ Numbered \in Seq(Nat) /\ Len(Numbered) = Len(rows)
  <1>1. rows \in Seq(Nat)
    BY DEF TypeOK
  <1>2. Numbered \in Seq(Nat) /\ Len(Numbered) = Len(rows)
        /\ DOMAIN Numbered = 1 .. Len(rows)
    BY <1>1 DEF Numbered
  <1>3. \A i \in 1 .. Len(rows) : Numbered[i] = IF rows[i] = 0 THEN i ELSE rows[i]
    BY <1>1 DEF Numbered
  <1>4. CASE Straight(rows)
    BY <1>1, <1>2, <1>3, <1>4 DEF Straight
  <1>5. CASE \E k \in 1 .. Len(rows) : ShiftedBy(rows, k)
    <2>1. PICK k \in 1 .. Len(rows) : ShiftedBy(rows, k)
      BY <1>5
    <2>2. k = Len(rows)
      <3> SUFFICES ASSUME k # Len(rows) PROVE FALSE
        OBVIOUS
      <3>1. k + 1 \in 1 .. Len(rows) /\ 1 \in 1 .. Len(rows) /\ k + 1 # 1
        BY <1>1
      <3>2. rows[k + 1] = 1 /\ rows[1] = 0
        BY <2>1, <3>1 DEF ShiftedBy
      <3>3. Numbered[k + 1] = 1 /\ Numbered[1] = 1
        BY <1>3, <3>1, <3>2
      <3> QED
        <4>1. Numbered[k + 1] = Numbered[1] /\ Numbered[k + 1] # 0
          BY <3>3
        <4>2. k + 1 \in DOMAIN Numbered /\ 1 \in DOMAIN Numbered
          BY <1>2, <3>1
        <4>3. k + 1 = 1
          BY <4>1, <4>2, Zenon DEF Distinct
        <4> QED
          BY <3>1, <4>3
    <2>3. \A i \in 1 .. Len(rows) : rows[i] = 0
      BY <2>1, <2>2 DEF ShiftedBy
    <2> QED
      BY <1>1, <1>2, <1>3, <2>3 DEF Straight, Unnumbered
  <1> QED
    BY <1>4, <1>5 DEF Shaped

-----------------------------------------------------------------------------
(* Type correctness. *)

Run == [phase : Phases, key : Keys \cup {NoFile}]

(* A step changes the run of one process.                                  *)
LEMMA RunOf ==
  ASSUME TypeOK, NEW p \in Processes, NEW r \in Run, run' = [run EXCEPT ![p] = r]
  PROVE  /\ run' \in [Processes -> Run]
         /\ run'[p] = r
         /\ \A q \in Processes : q # p => run'[q] = run[q]
  BY DEF TypeOK, Run

LEMMA GoToRun ==
  ASSUME TypeOK, NEW p \in Processes, NEW phase \in Phases, GoTo(p, phase)
  PROVE  /\ run' \in [Processes -> Run]
         /\ run'[p].phase = phase /\ run'[p].key = run[p].key
         /\ \A q \in Processes : q # p => run'[q] = run[q]
  <1> DEFINE r == [run[p] EXCEPT !.phase = phase]
  <1>1. run[p] \in Run
    BY DEF TypeOK, Run
  <1>2. r \in Run /\ r.phase = phase /\ r.key = run[p].key
    BY <1>1 DEF Run
  <1>3. run' = [run EXCEPT ![p] = r]
    BY DEF GoTo, TypeOK
  <1> HIDE DEF r
  <1> QED
    BY <1>2, <1>3, RunOf

LEMMA ExitRun ==
  ASSUME TypeOK, NEW p \in Processes, Exit(p)
  PROVE  /\ run' \in [Processes -> Run]
         /\ run'[p].phase = "off"
         /\ \A q \in Processes : q # p => run'[q] = run[q]
  <1>1. Off \in Run /\ Off.phase = "off"
    BY DEF Off, Run, Phases
  <1> QED
    BY <1>1, RunOf DEF Exit

LEMMA LoadRun ==
  ASSUME TypeOK, NEW p \in Processes, NEW phase \in Phases, NEW k \in Keys,
         run' = [run EXCEPT ![p] = [phase |-> phase, key |-> k]]
  PROVE  /\ run' \in [Processes -> Run]
         /\ run'[p].phase = phase /\ run'[p].key = k
         /\ \A q \in Processes : q # p => run'[q] = run[q]
  <1>1. [phase |-> phase, key |-> k] \in Run
    BY DEF Run
  <1> QED
    BY <1>1, RunOf

LEMMA InitType == Init => TypeOK
  <1> SUFFICES ASSUME Init PROVE TypeOK
    OBVIOUS
  <1>1. Off \in Run /\ Off.phase = "off"
    BY DEF Off, Run, Phases
  <1>2. rows \in Seq(Nat)
    <2>1. CASE rows = << >>
      BY <2>1
    <2>2. CASE \E k \in 0 .. MaxOld : rows = [i \in 1 .. k |-> 0]
      <3>1. PICK k \in 0 .. MaxOld : rows = [i \in 1 .. k |-> 0]
        BY <2>2
      <3>2. k \in Nat /\ rows \in [1 .. k -> Nat]
        BY <3>1, StartupAssumption
      <3> QED
        BY <3>2, SeqDef
    <2> QED
      BY <2>1, <2>2 DEF Init
  <1> QED
    BY <1>1, <1>2 DEF Init, TypeOK, Run, Processes

(* The processes, when the run of p moves to a phase and the others stay.  *)
RunTypeOK ==
  /\ run \in [Processes -> Run]
  /\ \A p \in Servers : run[p].phase \notin {"off", "key"} => run[p].key \in Keys

LEMMA RunStep ==
  ASSUME TypeOK, NEW p \in Processes,
         \/ Start(p) \/ Proceed(p) \/ AppendRow(p) \/ Pull(p) \/ Die(p)
  PROVE  RunTypeOK'
  <1>1. Servers \subseteq Processes
    BY DEF Processes
  <1>2. /\ "key" \in Phases /\ "create" \in Phases /\ "write" \in Phases
        /\ "tables" \in Phases /\ "columns" \in Phases /\ "alter" \in Phases
        /\ "number" \in Phases /\ "index" \in Phases /\ "sync" \in Phases
        /\ "bind" \in Phases /\ "serve" \in Phases
    BY DEF Phases
  <1>3. \A q \in Servers : run[q].phase \notin {"off", "key"} => run[q].key \in Keys
    BY DEF TypeOK
  <1>4. CASE Exit(p)
    BY <1>1, <1>3, <1>4, ExitRun DEF RunTypeOK
  <1>5. ASSUME NEW phase \in Phases, GoTo(p, phase),
               p \in Servers => phase = "key" \/ run[p].phase \notin {"off", "key"}
        PROVE  RunTypeOK'
    BY <1>1, <1>3, <1>5, GoToRun DEF RunTypeOK
  <1>6. CASE Start(p)
    <2>1. GoTo(p, IF p \in Servers THEN "key" ELSE "tables")
      BY <1>6 DEF Start
    <2>2. CASE p \in Servers
      BY <1>2, <1>5, <2>1, <2>2
    <2>3. CASE p \notin Servers
      BY <1>2, <1>5, <2>1, <2>3
    <2> QED
      BY <2>2, <2>3
  <1>7. ASSUME NEW phase \in Phases, NEW k \in Keys,
               run' = [run EXCEPT ![p] = [phase |-> phase, key |-> k]]
        PROVE  RunTypeOK'
    BY <1>1, <1>3, <1>7, LoadRun DEF RunTypeOK
  <1>8. CASE LoadKey(p)
    <2>1. CASE file \in Keys
      BY <1>2, <1>7, <1>8, <2>1 DEF LoadKey
    <2>2. CASE file \notin Keys
      BY <1>4, <1>8, <2>2 DEF LoadKey
    <2> QED
      BY <2>1, <2>2
  <1>9. CASE GenerateKey(p)
    BY <1>2, <1>7, <1>9 DEF GenerateKey
  <1>10. CASE CreateKeyFile(p)
    BY <1>2, <1>4, <1>5, <1>10 DEF CreateKeyFile, At
  <1>11. CASE WriteKeyFile(p)
    BY <1>2, <1>5, <1>11 DEF WriteKeyFile, At
  <1>12. CASE CreateTables(p)
    BY <1>2, <1>5, <1>12 DEF CreateTables, At
  <1>13. CASE ReadColumns(p)
    <2>1. run[p].phase = "columns" /\ (GoTo(p, "alter") \/ GoTo(p, "index"))
      BY <1>13 DEF ReadColumns, At
    <2> QED
      BY <1>2, <1>5, <2>1
  <1>14. CASE Alter(p)
    BY <1>2, <1>4, <1>5, <1>14 DEF Alter, At
  <1>15. CASE Number(p)
    BY <1>2, <1>4, <1>5, <1>15 DEF Number, At
  <1>16. CASE CreateIndex(p)
    BY <1>2, <1>4, <1>5, <1>16 DEF CreateIndex, At
  <1>17. CASE Synced(p)
    BY <1>2, <1>4, <1>5, <1>17 DEF Synced, At
  <1>18. CASE Bind(p)
    BY <1>2, <1>4, <1>5, <1>18 DEF Bind, At
  <1>19. CASE AppendRow(p) \/ Pull(p)
    BY <1>19 DEF AppendRow, Pull, TypeOK, RunTypeOK, Run
  <1>20. CASE Die(p)
    BY <1>4, <1>20 DEF Die
  <1> QED
    BY <1>6, <1>8, <1>9, <1>10, <1>11, <1>12, <1>13, <1>14, <1>15, <1>16, <1>17,
       <1>18, <1>19, <1>20 DEF Proceed

(* What a step does to the rows.                                           *)
LEMMA RowsStepCases ==
  ASSUME TypeOK, Shaped(rows), NEW p \in Processes,
         \/ Start(p) \/ Proceed(p) \/ AppendRow(p) \/ Pull(p) \/ Die(p)
  PROVE  \/ UNCHANGED rows
         \/ AppendRow(p)
         \/ /\ Number(p) /\ GoTo(p, "index") /\ rows' = Numbered
            /\ schema = "indexed" => Distinct(Numbered)
  BY DEF Start, Proceed, AppendRow, Pull, Die, LoadKey, GenerateKey, CreateKeyFile,
         WriteKeyFile, CreateTables, ReadColumns, Alter, Number, CreateIndex,
         Synced, Bind, database

(* What UPDATE makes of the rows.                                          *)
LEMMA NumberedType ==
  ASSUME TypeOK
  PROVE  Numbered \in Seq(Nat) /\ Len(Numbered) = Len(rows)
         /\ \A i \in 1 .. Len(rows) : Numbered[i] = IF rows[i] = 0 THEN i ELSE rows[i]
  BY DEF Numbered, TypeOK

LEMMA StepType ==
  ASSUME TypeOK, KeyInv, Shaped(rows), NEW p \in Processes,
         \/ Start(p) \/ Proceed(p) \/ AppendRow(p) \/ Pull(p) \/ Die(p)
  PROVE  TypeOK'
  <1>1. RunTypeOK'
    BY RunStep
  <1>2. file' \in Keys \cup {NoFile, CutShort}
    <2>1. CASE WriteKeyFile(p)
      <3>1. p \in Servers \/ run[p].key = NoFile \/ run[p].key \in Keys
        BY DEF TypeOK
      <3> QED
        BY <2>1, <3>1 DEF WriteKeyFile, TypeOK
    <2>2. CASE ~WriteKeyFile(p)
      BY <2>2 DEF Start, Proceed, AppendRow, Pull, Die, LoadKey, GenerateKey,
                  CreateKeyFile, CreateTables, ReadColumns, Alter, Number,
                  CreateIndex, Synced, Bind, TypeOK
    <2> QED
      BY <2>1, <2>2
  <1>3. schema' \in {"none", "old", "numbered", "indexed"} /\ cut' \in BOOLEAN
    BY DEF Start, Proceed, AppendRow, Pull, Die, LoadKey, GenerateKey,
           CreateKeyFile, WriteKeyFile, CreateTables, ReadColumns, Alter, Number,
           CreateIndex, Synced, Bind, TypeOK, At, database
  <1>4. rows' \in Seq(Nat) /\ Len(rows) <= Len(rows')
    <2>1. rows \in Seq(Nat)
      BY DEF TypeOK
    <2>2. CASE AppendRow(p)
      BY <2>1, <2>2, AppendShaped DEF AppendRow
    <2>3. CASE rows' = Numbered
      BY <2>1, <2>3, NumberedType
    <2> QED
      BY <2>1, <2>2, <2>3, RowsStepCases
  <1>5. cursor' \in Nat /\ pulled' \subseteq DOMAIN rows
    <2>1. rows \in Seq(Nat)
      BY DEF TypeOK
    <2>2. CASE Pull(p)
      BY <2>1, <2>2 DEF Pull, TypeOK
    <2>3. CASE ~Pull(p)
      BY <2>3 DEF Start, Proceed, AppendRow, Die, LoadKey, GenerateKey, CreateKeyFile,
                  WriteKeyFile, CreateTables, ReadColumns, Alter, Number,
                  CreateIndex, Synced, Bind, TypeOK, peer
    <2> QED
      BY <2>2, <2>3
  <1>6. pulled' \subseteq DOMAIN rows'
    <2>1. DOMAIN rows = 1 .. Len(rows) /\ DOMAIN rows' = 1 .. Len(rows')
          /\ Len(rows) \in Nat /\ Len(rows') \in Nat
      BY <1>4 DEF TypeOK
    <2> QED
      BY <1>4, <1>5, <2>1
  <1>7. shown' \subseteq Keys
    <2>1. CASE Bind(p)
      <3>1. p \in Servers /\ run[p].phase = "bind"
        BY <2>1 DEF Bind, At, KeyInv, Processes
      <3>2. run[p].key \in Keys
        BY <3>1 DEF TypeOK
      <3> QED
        BY <2>1, <3>2 DEF Bind, TypeOK
    <2>2. CASE ~Bind(p)
      BY <2>2 DEF Start, Proceed, AppendRow, Pull, Die, LoadKey, GenerateKey,
                  CreateKeyFile, WriteKeyFile, CreateTables, ReadColumns, Alter,
                  Number, CreateIndex, Synced, TypeOK
    <2> QED
      BY <2>1, <2>2
  <1> QED
    BY <1>1, <1>2, <1>3, <1>4, <1>5, <1>6, <1>7 DEF TypeOK, RunTypeOK, Run

-----------------------------------------------------------------------------
(* The key that is on file. *)

LEMMA InitKey == Init => KeyInv
  <1> SUFFICES ASSUME Init PROVE KeyInv
    OBVIOUS
  <1>1. \A p \in Processes : run[p].phase = "off"
    BY DEF Init, Off
  <1>2. Servers \subseteq Processes /\ Tools \subseteq Processes
    BY DEF Processes
  <1> QED
    BY <1>1, <1>2 DEF Init, KeyInv, At, Keyed, Phases

(* A step that leaves the file alone, and moves p within the phases before *)
(* or after the file.                                                      *)
LEMMA KeyKept ==
  ASSUME TypeOK, KeyInv, NEW p \in Processes, UNCHANGED << file, shown >>,
         run' \in [Processes -> Run],
         \A q \in Processes : q # p => run'[q] = run[q],
         run'[p].phase # "write",
         p \in Tools => run'[p].phase \notin {"key", "create", "bind", "serve"},
         p \in Servers /\ run'[p].phase \in Keyed => file = run'[p].key /\ file \in Keys
  PROVE  KeyInv'
  <1>1. Servers \subseteq Processes /\ Tools \subseteq Processes
    BY DEF Processes
  <1>2. \A q \in Tools : run'[q].phase \notin {"key", "create", "write", "bind", "serve"}
    BY <1>1 DEF KeyInv
  <1>3. \A q \in Servers : run'[q].phase = "write" => q # p /\ run[q].phase = "write"
    BY <1>1
  <1>4. \A q \in Servers : run'[q].phase \in Keyed => file = run'[q].key /\ file \in Keys
    BY <1>1 DEF KeyInv
  <1>5. \A q, r \in Servers : run'[q].phase = "write" /\ run'[r].phase = "write" => q = r
    BY <1>3 DEF KeyInv, At
  <1>6. \A q \in Servers : run'[q].phase = "write" => file = CutShort
    BY <1>3 DEF KeyInv, At
  <1> QED
    BY <1>2, <1>4, <1>5, <1>6 DEF KeyInv, At

LEMMA KeyStep ==
  ASSUME TypeOK, KeyInv, NEW p \in Processes,
         \/ Start(p) \/ Proceed(p) \/ AppendRow(p) \/ Pull(p) \/ Die(p)
  PROVE  KeyInv'
  <1>1. Servers \subseteq Processes /\ Tools \subseteq Processes
        /\ (\A q \in Processes : q \in Servers \/ q \in Tools)
        /\ \A q \in Tools : q \notin Servers
    BY StartupAssumption DEF Processes
  <1>2. /\ "key" \in Phases /\ "create" \in Phases /\ "write" \in Phases
        /\ "tables" \in Phases /\ "columns" \in Phases /\ "alter" \in Phases
        /\ "number" \in Phases /\ "index" \in Phases /\ "sync" \in Phases
        /\ "bind" \in Phases /\ "serve" \in Phases
    BY DEF Phases
  <1>3. CASE Exit(p) /\ UNCHANGED << file, shown >>
    BY <1>3, ExitRun, KeyKept DEF Keyed
  (* To a phase after the key file from another one. *)
  <1>4. ASSUME NEW phase \in Keyed, GoTo(p, phase), UNCHANGED << file, shown >>,
               p \in Servers => run[p].phase \in Keyed,
               p \in Tools => phase \notin {"bind", "serve"}
        PROVE  KeyInv'
    <2>1. phase \in Phases /\ phase \notin {"off", "key", "create", "write"}
      BY <1>4 DEF Keyed
    <2>2. /\ run' \in [Processes -> Run]
          /\ run'[p].phase = phase /\ run'[p].key = run[p].key
          /\ \A q \in Processes : q # p => run'[q] = run[q]
      BY <1>4, <2>1, GoToRun
    <2>3. p \in Servers => file = run[p].key /\ file \in Keys
      BY <1>4 DEF KeyInv
    <2> QED
      BY <1>4, <2>1, <2>2, <2>3, KeyKept
  <1>5. /\ "tables" \in Keyed /\ "columns" \in Keyed /\ "alter" \in Keyed
        /\ "number" \in Keyed /\ "index" \in Keyed /\ "sync" \in Keyed
        /\ "bind" \in Keyed /\ "serve" \in Keyed
        /\ "key" \notin Keyed /\ "create" \notin Keyed
    BY DEF Keyed, Phases
  <1>6. CASE Start(p)
    <2>1. CASE p \in Servers
      <3>1. GoTo(p, "key") /\ UNCHANGED << file, shown >>
        BY <1>6, <2>1 DEF Start
      <3> QED
        BY <1>1, <1>2, <1>5, <2>1, <3>1, GoToRun, KeyKept
    <2>2. CASE p \notin Servers
      <3>1. GoTo(p, "tables") /\ UNCHANGED << file, shown >>
        BY <1>6, <2>2 DEF Start
      <3> QED
        BY <1>4, <1>5, <2>2, <3>1
    <2> QED
      BY <2>1, <2>2
  <1>7. CASE LoadKey(p)
    <2>1. p \in Servers /\ UNCHANGED << file, shown >>
      BY <1>1, <1>7 DEF LoadKey, At, KeyInv
    <2>2. CASE file \in Keys
      <3>1. run' = [run EXCEPT ![p] = [phase |-> "tables", key |-> file]]
        BY <1>7, <2>2 DEF LoadKey
      <3>2. /\ run' \in [Processes -> Run]
            /\ run'[p].phase = "tables" /\ run'[p].key = file
            /\ \A q \in Processes : q # p => run'[q] = run[q]
        BY <1>2, <2>2, <3>1, LoadRun
      <3> QED
        BY <1>1, <2>1, <2>2, <3>2, KeyKept
    <2>3. CASE file \notin Keys
      BY <1>3, <1>7, <2>1, <2>3 DEF LoadKey
    <2> QED
      BY <2>2, <2>3
  <1>8. CASE GenerateKey(p)
    <2>1. p \in Servers /\ UNCHANGED << file, shown >>
      BY <1>1, <1>8 DEF GenerateKey, At, KeyInv
    <2>2. PICK k \in Keys : run' = [run EXCEPT ![p] = [phase |-> "create", key |-> k]]
      BY <1>8 DEF GenerateKey
    <2>3. /\ run' \in [Processes -> Run]
          /\ run'[p].phase = "create"
          /\ \A q \in Processes : q # p => run'[q] = run[q]
      BY <1>2, <2>2, LoadRun
    <2> QED
      BY <1>1, <1>5, <2>1, <2>3, KeyKept
  <1>9. CASE CreateKeyFile(p)
    <2>1. p \in Servers
      BY <1>1, <1>9 DEF CreateKeyFile, At, KeyInv
    <2>2. CASE file # NoFile
      BY <1>3, <1>9, <2>2 DEF CreateKeyFile
    <2>3. CASE file = NoFile
      <3>1. file' = CutShort /\ GoTo(p, "write") /\ shown' = shown
        BY <1>9, <2>3 DEF CreateKeyFile
      <3>2. /\ run'[p].phase = "write"
            /\ \A q \in Processes : q # p => run'[q] = run[q]
        BY <1>2, <3>1, GoToRun
      <3>3. NoFile \notin Keys /\ NoFile # CutShort /\ shown \subseteq Keys
        BY StartupAssumption DEF TypeOK
      <3>4. /\ shown = {}
            /\ \A q \in Servers : run[q].phase # "write" /\ run[q].phase \notin Keyed
        BY <2>3, <3>3 DEF KeyInv, At
      <3>5. \A q \in Tools : run'[q] = run[q]
        BY <1>1, <2>1, <3>2
      <3>6. \A q \in Servers : q # p => run'[q] = run[q]
        BY <1>1, <3>2
      <3>7. "write" \notin Keyed
        BY DEF Keyed
      <3> QED
        BY <3>1, <3>2, <3>4, <3>5, <3>6, <3>7 DEF KeyInv, At
    <2> QED
      BY <2>2, <2>3
  <1>10. CASE WriteKeyFile(p)
    <2>1. p \in Servers /\ run[p].phase = "write" /\ run[p].key \in Keys
      BY <1>1, <1>10 DEF WriteKeyFile, At, KeyInv, TypeOK
    <2>2. file' = run[p].key /\ GoTo(p, "tables") /\ shown' = shown
      BY <1>10 DEF WriteKeyFile
    <2>3. /\ run'[p].phase = "tables" /\ run'[p].key = run[p].key
          /\ \A q \in Processes : q # p => run'[q] = run[q]
      BY <1>2, <2>2, GoToRun
    <2>4. file = CutShort /\ CutShort \notin Keys
      BY <2>1, StartupAssumption DEF KeyInv, At
    <2>5. /\ shown = {}
          /\ \A q \in Servers : run[q].phase \notin Keyed
          /\ \A q \in Servers : q # p => run[q].phase # "write"
      BY <2>1, <2>4 DEF KeyInv, At, TypeOK
    <2>6. \A q \in Tools : run'[q] = run[q]
      BY <1>1, <2>1, <2>3
    <2>7. \A q \in Servers : q # p => run'[q] = run[q]
      BY <1>1, <2>3
    <2> QED
      BY <2>1, <2>2, <2>3, <2>5, <2>6, <2>7 DEF KeyInv, At
  <1>11. CASE CreateTables(p)
    BY <1>4, <1>5, <1>11 DEF CreateTables, At
  <1>12. CASE ReadColumns(p)
    <2>1. run[p].phase = "columns" /\ (GoTo(p, "alter") \/ GoTo(p, "index"))
          /\ UNCHANGED << file, shown >>
      BY <1>12 DEF ReadColumns, At
    <2> QED
      BY <1>4, <1>5, <2>1
  <1>13. CASE Alter(p)
    BY <1>3, <1>4, <1>5, <1>13 DEF Alter, At
  <1>14. CASE Number(p)
    BY <1>3, <1>4, <1>5, <1>14 DEF Number, At
  <1>15. CASE CreateIndex(p)
    BY <1>3, <1>4, <1>5, <1>15 DEF CreateIndex, At
  <1>16. CASE Synced(p)
    BY <1>1, <1>3, <1>4, <1>5, <1>16 DEF Synced, At
  <1>17. CASE Bind(p)
    <2>1. p \in Servers /\ run[p].phase = "bind" /\ file' = file
      BY <1>1, <1>17 DEF Bind, At, KeyInv
    <2>2. file = run[p].key /\ file \in Keys
      BY <1>5, <2>1 DEF KeyInv
    <2>3. shown' = shown \/ (GoTo(p, "serve") /\ shown' = shown \cup {run[p].key})
      BY <1>17 DEF Bind
    <2>4. CASE shown' = shown
      BY <1>1, <1>3, <1>4, <1>5, <1>17, <2>1, <2>4 DEF Bind
    <2>5. CASE GoTo(p, "serve") /\ shown' = shown \cup {run[p].key}
      <3>1. /\ run'[p].phase = "serve" /\ run'[p].key = run[p].key
            /\ \A q \in Processes : q # p => run'[q] = run[q]
        BY <1>2, <2>5, GoToRun
      <3>2. \A k \in shown' : file' = k
        BY <2>1, <2>2, <2>5 DEF KeyInv
      <3>3. \A q \in Servers : run'[q].phase = "write" => q # p /\ run[q].phase = "write"
        BY <1>1, <3>1
      <3>4. \A q \in Servers : run'[q].phase \in Keyed => file = run'[q].key /\ file \in Keys
        BY <1>1, <2>2, <3>1 DEF KeyInv
      <3>5. \A q \in Tools : run'[q] = run[q]
        BY <1>1, <2>1, <3>1
      <3> QED
        BY <2>1, <3>2, <3>3, <3>4, <3>5 DEF KeyInv, At
    <2> QED
      BY <2>3, <2>4, <2>5
  <1>18. CASE AppendRow(p) \/ Pull(p)
    BY <1>18 DEF AppendRow, Pull, KeyInv, At
  <1>19. CASE Die(p)
    BY <1>3, <1>19 DEF Die
  <1> QED
    BY <1>6, <1>7, <1>8, <1>9, <1>10, <1>11, <1>12, <1>13, <1>14, <1>15, <1>16,
       <1>17, <1>18, <1>19 DEF Proceed

-----------------------------------------------------------------------------
(* The rows. *)

LEMMA UnnumberedShaped ==
  ASSUME NEW s \in Seq(Nat), Unnumbered(s) PROVE Shaped(s)
  <1>1. CASE Len(s) = 0
    BY <1>1 DEF Shaped, Straight
  <1>2. CASE Len(s) # 0
    <2>1. Len(s) \in 1 .. Len(s) /\ ShiftedBy(s, Len(s))
      BY <1>2 DEF ShiftedBy, Unnumbered
    <2> QED
      BY <2>1 DEF Shaped
  <1> QED
    BY <1>1, <1>2

LEMMA InitRows == Init => RowsInv
  <1> SUFFICES ASSUME Init PROVE RowsInv
    OBVIOUS
  <1>1. rows \in Seq(Nat)
    BY InitType DEF TypeOK
  <1>2. Unnumbered(rows)
    BY DEF Init, Unnumbered
  <1>3. \A p \in Processes : run[p].phase = "off"
    BY DEF Init, Off
  <1>4. Shaped(rows)
    BY <1>1, <1>2, UnnumberedShaped
  <1>5. Stages
    BY <1>2, <1>3 DEF Init, Stages
  <1> QED
    BY <1>2, <1>4, <1>5 DEF Init, RowsInv, CursorInv, NothingSkipped, EveryRowOffered,
                            Unnumbered

(* Wherever Number succeeds, all rows are numbered afterwards, and before  *)
(* either all of them were or none.                                        *)
LEMMA NumberOutcome ==
  ASSUME TypeOK, RowsInv, schema = "indexed" => Distinct(Numbered)
  PROVE  /\ Straight(rows) \/ Unnumbered(rows)
         /\ Straight(Numbered)
         /\ Numbered \in Seq(Nat) /\ Len(Numbered) = Len(rows)
  <1>1. rows \in Seq(Nat)
    BY DEF TypeOK
  <1>2. CASE schema = "indexed"
    BY <1>2, NumberingDistinct DEF RowsInv
  <1>3. CASE schema # "indexed"
    <2>1. Straight(rows) \/ Unnumbered(rows)
      BY <1>3 DEF RowsInv, Stages
    <2>2. Straight(Numbered)
      BY <1>1, <2>1, NumberedType DEF Straight, Unnumbered
    <2> QED
      BY <2>1, <2>2, NumberedType
  <1> QED
    BY <1>2, <1>3

(* A step that moves p, leaves the rows alone and takes the schema on.     *)
LEMMA StagesKept ==
  ASSUME TypeOK, Stages, NEW p \in Processes, rows' = rows,
         \A q \in Processes : q # p => run'[q] = run[q],
         \/ schema' = schema
         \/ schema \in {"none", "old"} /\ schema' = "numbered"
         \/ schema' = "indexed",
         run'[p].phase \in {"columns", "alter"} => schema' # "none",
         run'[p].phase \in {"number", "index"} => schema' \notin {"none", "old"},
         run'[p].phase \in {"sync", "bind", "serve"} => schema' = "indexed"
  PROVE  Stages'
  BY DEF Stages

LEMMA StagesStep ==
  ASSUME TypeOK, RowsInv, NEW p \in Processes,
         \/ Start(p) \/ Proceed(p) \/ AppendRow(p) \/ Pull(p) \/ Die(p)
  PROVE  Stages'
  <1>1. /\ "key" \in Phases /\ "create" \in Phases /\ "write" \in Phases
        /\ "tables" \in Phases /\ "columns" \in Phases /\ "alter" \in Phases
        /\ "number" \in Phases /\ "index" \in Phases /\ "sync" \in Phases
        /\ "bind" \in Phases /\ "serve" \in Phases
    BY DEF Phases
  <1>2. Stages /\ schema \in {"none", "old", "numbered", "indexed"}
    BY DEF RowsInv, TypeOK
  <1>3. CASE Exit(p) /\ UNCHANGED << rows, schema >>
    BY <1>2, <1>3, ExitRun, StagesKept
  <1>4. ASSUME NEW phase \in {"key", "create", "write", "tables"}, NEW k \in Keys,
               UNCHANGED << rows, schema >>,
               \/ GoTo(p, phase)
               \/ run' = [run EXCEPT ![p] = [phase |-> phase, key |-> k]]
        PROVE  Stages'
    <2>1. phase \in Phases
      BY <1>1
    <2>2. run'[p].phase = phase /\ \A q \in Processes : q # p => run'[q] = run[q]
      BY <1>4, <2>1, GoToRun, LoadRun
    <2> QED
      BY <1>2, <1>4, <2>2, StagesKept
  <1>5. ASSUME NEW phase \in {"key", "write", "tables"}, GoTo(p, phase),
               UNCHANGED << rows, schema >>
        PROVE  Stages'
    <2>1. phase \in Phases
      BY <1>1
    <2>2. run'[p].phase = phase /\ \A q \in Processes : q # p => run'[q] = run[q]
      BY <1>5, <2>1, GoToRun
    <2> QED
      BY <1>2, <1>5, <2>2, StagesKept
  <1>6. CASE Start(p)
    <2>1. (GoTo(p, "key") \/ GoTo(p, "tables")) /\ UNCHANGED << rows, schema >>
      BY <1>6 DEF Start, database
    <2> QED
      BY <1>5, <2>1
  <1>7. CASE LoadKey(p)
    <2>1. CASE file \in Keys
      BY <1>4, <1>7, <2>1 DEF LoadKey, database
    <2>2. CASE file \notin Keys
      BY <1>3, <1>7, <2>2 DEF LoadKey, database
    <2> QED
      BY <2>1, <2>2
  <1>8. CASE GenerateKey(p)
    BY <1>4, <1>8 DEF GenerateKey, database
  <1>9. CASE CreateKeyFile(p)
    BY <1>3, <1>5, <1>9 DEF CreateKeyFile, database
  <1>10. CASE WriteKeyFile(p)
    BY <1>5, <1>10 DEF WriteKeyFile, database
  <1>11. CASE CreateTables(p)
    <2>1. /\ run'[p].phase = "columns"
          /\ \A q \in Processes : q # p => run'[q] = run[q]
      BY <1>1, <1>11, GoToRun DEF CreateTables
    <2>2. rows' = rows /\ schema' = IF schema = "none" THEN "numbered" ELSE schema
      BY <1>11 DEF CreateTables
    <2> QED
      BY <1>2, <2>1, <2>2, StagesKept
  <1>12. CASE ReadColumns(p)
    <2>1. run[p].phase = "columns" /\ UNCHANGED << rows, schema >>
      BY <1>12 DEF ReadColumns, At, database
    <2>2. schema # "none"
      BY <1>2, <2>1 DEF Stages
    <2>3. CASE schema = "old"
      <3>1. /\ run'[p].phase = "alter"
            /\ \A q \in Processes : q # p => run'[q] = run[q]
        BY <1>1, <1>12, <2>3, GoToRun DEF ReadColumns
      <3> QED
        BY <1>2, <2>1, <2>2, <3>1, StagesKept
    <2>4. CASE schema # "old"
      <3>1. /\ run'[p].phase = "index"
            /\ \A q \in Processes : q # p => run'[q] = run[q]
        BY <1>1, <1>12, <2>4, GoToRun DEF ReadColumns
      <3> QED
        BY <1>2, <2>1, <2>2, <2>4, <3>1, StagesKept
    <2> QED
      BY <2>3, <2>4
  <1>13. CASE Alter(p)
    <2>1. CASE schema = "old"
      <3>1. schema' = "numbered" /\ rows' = rows
        BY <1>13, <2>1 DEF Alter
      <3>2. /\ run'[p].phase = "number"
            /\ \A q \in Processes : q # p => run'[q] = run[q]
        BY <1>1, <1>13, <2>1, GoToRun DEF Alter
      <3> QED
        BY <1>2, <2>1, <3>1, <3>2, StagesKept
    <2>2. CASE schema # "old"
      BY <1>3, <1>13, <2>2 DEF Alter
    <2> QED
      BY <2>1, <2>2
  <1>14. CASE Number(p)
    <2>1. run[p].phase = "number" /\ schema' = schema
      BY <1>14 DEF Number, At
    <2>2. schema \notin {"none", "old"}
      BY <1>2, <2>1 DEF Stages
    <2>3. CASE schema = "indexed" => Distinct(Numbered)
      <3>1. rows' = Numbered /\ GoTo(p, "index")
        BY <1>14, <2>3 DEF Number
      <3>2. Straight(rows')
        BY <2>3, <3>1, NumberOutcome
      <3>3. /\ run'[p].phase = "index"
            /\ \A q \in Processes : q # p => run'[q] = run[q]
        BY <1>1, <3>1, GoToRun
      <3> QED
        BY <1>2, <2>1, <2>2, <3>2, <3>3 DEF Stages
    <2>4. CASE ~(schema = "indexed" => Distinct(Numbered))
      BY <1>3, <1>14, <2>4 DEF Number
    <2> QED
      BY <2>3, <2>4
  <1>15. CASE CreateIndex(p)
    <2>1. CASE Distinct(rows)
      <3>1. schema' = "indexed" /\ rows' = rows
        BY <1>15, <2>1 DEF CreateIndex
      <3>2. /\ run'[p].phase = "sync"
            /\ \A q \in Processes : q # p => run'[q] = run[q]
        BY <1>1, <1>15, <2>1, GoToRun DEF CreateIndex
      <3> QED
        BY <1>2, <3>1, <3>2, StagesKept
    <2>2. CASE ~Distinct(rows)
      BY <1>3, <1>15, <2>2 DEF CreateIndex
    <2> QED
      BY <2>1, <2>2
  <1>16. CASE Synced(p) \/ Bind(p)
    <2>1. run[p].phase \in {"sync", "bind"} /\ UNCHANGED << rows, schema >>
      BY <1>16 DEF Synced, Bind, At, database
    <2>2. schema = "indexed"
      BY <1>2, <2>1 DEF Stages
    <2>3. Exit(p) \/ GoTo(p, "bind") \/ GoTo(p, "serve")
      BY <1>16 DEF Synced, Bind
    <2>4. \A q \in Processes : q # p => run'[q] = run[q]
      BY <1>1, <2>3, ExitRun, GoToRun
    <2> QED
      BY <1>2, <2>1, <2>2, <2>4 DEF Stages
  <1>17. CASE AppendRow(p)
    <2>1. schema = "indexed" /\ schema' = schema
      BY <1>2, <1>17 DEF AppendRow, Stages
    <2> QED
      BY <2>1 DEF Stages
  <1>18. CASE Pull(p)
    BY <1>2, <1>18 DEF Pull, Stages, database
  <1>19. CASE Die(p)
    BY <1>3, <1>19 DEF Die
  <1> QED
    BY <1>6, <1>7, <1>8, <1>9, <1>10, <1>11, <1>12, <1>13, <1>14, <1>15, <1>16,
       <1>17, <1>18, <1>19 DEF Proceed

(* What a step does to the rows and to the peer that follows them.         *)
Kept == rows' = rows /\ cursor' = cursor /\ pulled' = pulled

Added(p) ==
  /\ rows' = Append(rows, Max({0} \cup Range(rows)) + 1)
  /\ run' = run /\ schema' = schema /\ cut' = cut
  /\ cursor' = cursor /\ pulled' = pulled
  /\ schema = "indexed"

Renumbered(p) ==
  /\ rows' = Numbered
  /\ Straight(rows) \/ Unnumbered(rows)
  /\ Straight(rows')
  /\ rows' \in Seq(Nat) /\ Len(rows') = Len(rows)
  /\ cursor' = cursor /\ pulled' = pulled

LEMMA StepCases ==
  ASSUME TypeOK, RowsInv, NEW p \in Processes,
         \/ Start(p) \/ Proceed(p) \/ AppendRow(p) \/ Pull(p) \/ Die(p)
  PROVE  Kept \/ Added(p) \/ Renumbered(p) \/ Pull(p)
  <1>1. CASE AppendRow(p)
    <2>1. schema = "indexed"
      BY <1>1 DEF AppendRow, RowsInv, Stages, TypeOK
    <2> QED
      BY <1>1, <2>1 DEF AppendRow, Added, peer
  <1>2. CASE Number(p)
    <2>1. CASE schema = "indexed" => Distinct(Numbered)
      <3>1. rows' = Numbered
        BY <1>2, <2>1 DEF Number
      <3> QED
        BY <1>2, <2>1, <3>1, NumberOutcome DEF Number, Renumbered, peer
    <2>2. CASE ~(schema = "indexed" => Distinct(Numbered))
      BY <1>2, <2>2 DEF Number, Kept, peer
    <2> QED
      BY <2>1, <2>2
  <1>3. CASE ~AppendRow(p) /\ ~Number(p) /\ ~Pull(p)
    BY <1>3 DEF Start, Proceed, Die, LoadKey, GenerateKey, CreateKeyFile,
                WriteKeyFile, CreateTables, ReadColumns, Alter, CreateIndex,
                Synced, Bind, database, peer, Kept
  <1> QED
    BY <1>1, <1>2, <1>3

(* A renumbering of rows that were numbered changes nothing.               *)
LEMMA RenumberedSame ==
  ASSUME TypeOK, NEW p, Renumbered(p), Straight(rows) PROVE rows' = rows
  <1>1. rows \in Seq(Nat) /\ Numbered \in Seq(Nat) /\ Len(Numbered) = Len(rows)
    BY NumberedType DEF TypeOK
  <1>2. \A i \in 1 .. Len(rows) : Numbered[i] = rows[i]
    <2>1. \A i \in 1 .. Len(rows) : rows[i] = i
      BY <1>1 DEF Straight
    <2> QED
      BY <2>1, NumberedType
  <1>3. Numbered = rows
    BY <1>1, <1>2, SeqEqual
  <1> QED
    BY <1>3 DEF Renumbered

(* The peer of the node and the numbers it has seen.                       *)
LEMMA SkipStep ==
  ASSUME TypeOK, RowsInv, NEW p \in Processes,
         \/ Start(p) \/ Proceed(p) \/ AppendRow(p) \/ Pull(p) \/ Die(p)
  PROVE  CursorInv' /\ NothingSkipped' /\ Shaped(rows')
  <1>1. /\ rows \in Seq(Nat) /\ Shaped(rows) /\ cursor \in Nat
        /\ CursorInv /\ NothingSkipped
    BY DEF TypeOK, RowsInv
  <1>2. CASE Kept
    BY <1>1, <1>2 DEF Kept, CursorInv, NothingSkipped
  <1>3. CASE Added(p)
    <2>1. /\ rows' \in Seq(Nat) /\ Shaped(rows')
          /\ Len(rows') = Len(rows) + 1
          /\ \A i \in DOMAIN rows : rows'[i] = rows[i]
          /\ \A i \in DOMAIN rows : rows[i] < rows'[Len(rows')]
          /\ rows'[Len(rows')] > 0
          /\ cursor' = cursor /\ pulled' = pulled
      BY <1>1, <1>3, AppendShaped DEF Added
    <2>2. /\ \A i \in DOMAIN rows' : i \in DOMAIN rows \/ i = Len(rows')
          /\ DOMAIN rows \subseteq DOMAIN rows'
      BY <1>1, <2>1
    <2>3. CursorInv'
      BY <1>1, <2>1, <2>2 DEF CursorInv
    <2>4. rows'[Len(rows')] > cursor
      BY <1>1, <2>1 DEF CursorInv
    <2>5. \A i \in DOMAIN rows' : 0 < rows'[i] /\ rows'[i] <= cursor' => i \in pulled'
      <3> SUFFICES ASSUME NEW i \in DOMAIN rows', 0 < rows'[i], rows'[i] <= cursor
                   PROVE  i \in pulled
        BY <2>1
      <3>1. rows'[i] \in Nat /\ rows'[Len(rows')] \in Nat
        BY <2>1
      <3>2. i # Len(rows')
        BY <1>1, <2>4, <3>1
      <3> QED
        BY <1>1, <2>1, <2>2, <3>2 DEF NothingSkipped
    <2> QED
      BY <2>1, <2>3, <2>5 DEF NothingSkipped
  <1>4. CASE Renumbered(p)
    <2>1. Shaped(rows') /\ cursor' = cursor /\ pulled' = pulled
      BY <1>4 DEF Renumbered, Shaped
    <2>2. CASE Straight(rows)
      BY <1>1, <1>4, <2>1, <2>2, RenumberedSame DEF CursorInv, NothingSkipped
    <2>3. CASE Unnumbered(rows)
      <3>1. cursor = 0
        BY <1>1, <2>3 DEF CursorInv, Unnumbered
      <3>2. \A i \in DOMAIN rows' : ~(0 < rows'[i] /\ rows'[i] <= 0)
        BY <1>4 DEF Renumbered
      <3> QED
        BY <2>1, <3>1, <3>2 DEF CursorInv, NothingSkipped
    <2> QED
      BY <1>4, <2>2, <2>3 DEF Renumbered
  <1>5. CASE Pull(p)
    <2>1. PICK i \in DOMAIN rows :
            /\ rows[i] > cursor
            /\ \A j \in DOMAIN rows : rows[j] > cursor => rows[i] <= rows[j]
            /\ cursor' = rows[i]
            /\ pulled' = pulled \cup {i}
      BY <1>5 DEF Pull
    <2>2. rows' = rows
      BY <1>5 DEF Pull, database
    <2>3. ASSUME NEW j \in DOMAIN rows, 0 < rows[j], rows[j] <= rows[i]
          PROVE  j \in pulled \cup {i}
      <3>1. rows[i] \in Nat /\ rows[j] \in Nat
        BY <1>1
      <3>2. CASE rows[j] <= cursor
        BY <1>1, <2>3, <3>2 DEF NothingSkipped
      <3>3. CASE ~(rows[j] <= cursor)
        <4>1. rows[i] = rows[j] /\ rows[i] # 0
          BY <1>1, <2>1, <2>3, <3>1, <3>3
        <4> QED
          BY <1>1, <4>1, ShapedDistinct DEF Distinct
      <3> QED
        BY <3>2, <3>3
    <2>4. CursorInv'
      BY <2>1, <2>2 DEF CursorInv
    <2>5. NothingSkipped'
      BY <2>1, <2>2, <2>3 DEF NothingSkipped
    <2> QED
      BY <1>1, <2>2, <2>4, <2>5
  <1> QED
    BY <1>2, <1>3, <1>4, <1>5, StepCases

(* What is on offer.                                                       *)
LEMMA OfferStep ==
  ASSUME TypeOK, RowsInv, NEW p \in Processes,
         \/ Start(p) \/ Proceed(p) \/ AppendRow(p) \/ Pull(p) \/ Die(p)
  PROVE  EveryRowOffered'
  <1> SUFFICES ASSUME schema' \in {"numbered", "indexed"}, ~cut',
                      \A q \in Processes : run'[q].phase # "number"
               PROVE  \A i \in DOMAIN rows' : rows'[i] > 0
    BY DEF EveryRowOffered, At
  <1>1. /\ rows \in Seq(Nat) /\ Shaped(rows) /\ Stages /\ cut \in BOOLEAN
        /\ EveryRowOffered
        /\ schema \in {"none", "old", "numbered", "indexed"}
    BY DEF TypeOK, RowsInv
  <1>2. CASE Added(p)
    <2>1. \A i \in DOMAIN rows : rows[i] > 0
      BY <1>1, <1>2 DEF Added, EveryRowOffered, At
    <2>2. /\ rows' \in Seq(Nat)
          /\ Len(rows') = Len(rows) + 1
          /\ \A i \in DOMAIN rows : rows'[i] = rows[i]
          /\ rows'[Len(rows')] > 0
      BY <1>1, <1>2, AppendShaped DEF Added
    <2>3. \A i \in DOMAIN rows' : i \in DOMAIN rows \/ i = Len(rows')
      BY <1>1, <2>2
    <2> QED
      BY <2>1, <2>2, <2>3
  <1>3. CASE Renumbered(p)
    BY <1>3 DEF Renumbered, Straight
  <1>4. CASE (Kept \/ Pull(p)) /\ ~Renumbered(p)
    <2>1. rows' = rows
      BY <1>4 DEF Kept, Pull, database
    <2>2. CASE schema = "none"
      BY <1>1, <2>1, <2>2 DEF Stages
    <2>3. CASE schema = "old"
      <3>1. run[p].phase # "index"
        BY <1>1, <2>3 DEF Stages
      <3>2. ~Alter(p)
        <4> SUFFICES ASSUME Alter(p) PROVE FALSE
          OBVIOUS
        <4>1. "number" \in Phases /\ GoTo(p, "number")
          BY <2>3 DEF Alter, Phases
        <4>2. run'[p].phase = "number"
          BY <4>1, GoToRun
        <4> QED
          BY <4>2
      <3>3. schema' = "old"
        BY <2>3, <3>1, <3>2
        DEF Start, Proceed, AppendRow, Pull, Die, LoadKey, GenerateKey, CreateKeyFile,
            WriteKeyFile, CreateTables, ReadColumns, Number, CreateIndex, Synced,
            Bind, database, At
      <3> QED
        BY <3>3
    <2>4. CASE schema \in {"numbered", "indexed"}
      <3>1. (~cut /\ ~Die(p)) \/ (~cut /\ run[p].phase # "number")
        BY DEF Start, Proceed, AppendRow, Pull, Die, LoadKey, GenerateKey, CreateKeyFile,
               WriteKeyFile, CreateTables, ReadColumns, Alter, Number, CreateIndex,
               Synced, Bind, database, At, TypeOK
      <3>2. run[p].phase # "number"
        <4> SUFFICES ASSUME run[p].phase = "number" PROVE FALSE
          OBVIOUS
        <4>1. Number(p) \/ Pull(p) \/ AppendRow(p)
          BY <3>1 DEF Start, Proceed, LoadKey, GenerateKey, CreateKeyFile, WriteKeyFile,
                      CreateTables, ReadColumns, Alter, CreateIndex, Synced, Bind, At
        <4>2. Number(p)
          BY <4>1 DEF Pull, AppendRow, At
        <4>3. schema = "indexed" => Distinct(Numbered)
          BY <4>2 DEF Number
        <4>4. rows' = Numbered /\ cursor' = cursor /\ pulled' = pulled
          BY <4>2, <4>3 DEF Number, peer
        <4>5. Renumbered(p)
          BY <4>3, <4>4, NumberOutcome DEF Renumbered
        <4> QED
          BY <1>4, <4>5
      <3>3. \A q \in Processes : q # p => run'[q] = run[q]
        <4>1. \/ run' = run \/ Exit(p)
              \/ \E phase \in Phases : GoTo(p, phase)
              \/ \E phase \in Phases, k \in Keys :
                   run' = [run EXCEPT ![p] = [phase |-> phase, key |-> k]]
          BY DEF Start, Proceed, AppendRow, Pull, Die, LoadKey, GenerateKey,
                 CreateKeyFile, WriteKeyFile, CreateTables, ReadColumns, Alter, Number,
                 CreateIndex, Synced, Bind, Phases
        <4> QED
          BY <4>1, ExitRun, GoToRun, LoadRun
      <3>4. \A q \in Processes : run[q].phase # "number"
        BY <3>2, <3>3
      <3> QED
        BY <1>1, <2>1, <2>4, <3>1, <3>4 DEF EveryRowOffered, At
    <2> QED
      BY <1>1, <2>2, <2>3, <2>4
  <1> QED
    BY <1>2, <1>3, <1>4, StepCases

-----------------------------------------------------------------------------
(* The theorems. *)

LEMMA StepIInv == IInv /\ [Next]_vars => IInv'
  <1> SUFFICES ASSUME IInv, [Next]_vars PROVE IInv'
    OBVIOUS
  <1>1. CASE UNCHANGED vars
    BY <1>1 DEF vars, IInv, TypeOK, KeyInv, RowsInv, Stages, CursorInv,
                NothingSkipped, EveryRowOffered, At
  <1>2. CASE Next
    <2>1. PICK p \in Processes :
            \/ Start(p) \/ Proceed(p) \/ AppendRow(p) \/ Pull(p) \/ Die(p)
      BY <1>2 DEF Next
    <2>2. TypeOK /\ KeyInv /\ RowsInv /\ Shaped(rows)
      BY DEF IInv, RowsInv
    <2>3. TypeOK' /\ KeyInv'
      BY <2>1, <2>2, StepType, KeyStep
    <2>4. CursorInv' /\ NothingSkipped' /\ Shaped(rows') /\ Stages' /\ EveryRowOffered'
      BY <2>1, <2>2, SkipStep, StagesStep, OfferStep
    <2> QED
      BY <2>3, <2>4 DEF IInv, RowsInv
  <1> QED
    BY <1>1, <1>2

LEMMA Invariance == Spec => []IInv
  <1>1. Init => IInv
    BY InitType, InitKey, InitRows DEF IInv
  <1> QED
    BY <1>1, StepIInv, PTL DEF Spec

(* The state of the files and the processes is always one of those that    *)
(* the program distinguishes.                                              *)
THEOREM TypeCorrect == Spec => []TypeOK
  BY Invariance, PTL DEF IInv

(* A node shows one key only, for ever.                                    *)
THEOREM OneKeyShown == Spec => []OneIdentity
  <1>1. IInv => OneIdentity
    BY DEF IInv, KeyInv, OneIdentity
  <1> QED
    BY <1>1, Invariance, PTL

(* A peer that follows the numbers of a node misses no row that has one.   *)
THEOREM CursorsSafe == Spec => []NothingSkipped
  BY Invariance, PTL DEF IInv, RowsInv

(* Every row is on offer, but for a migration that is at its UPDATE or has *)
(* stopped there.                                                          *)
THEOREM RowsOffered == Spec => []EveryRowOffered
  BY Invariance, PTL DEF IInv, RowsInv

(* A row keeps its number, and rows that get theirs late get them all at   *)
(* once, in the order in which they were stored.                           *)
THEOREM NumbersKept == Spec => NumbersStand
  <1> DEFINE Stand ==
        /\ \A i \in DOMAIN rows : rows[i] > 0 => rows'[i] = rows[i]
        /\ (\E i \in DOMAIN rows : rows'[i] # rows[i]) =>
             \A i \in DOMAIN rows : rows'[i] = i
  <1>1. IInv /\ [Next]_vars => [Stand]_rows
    <2> SUFFICES ASSUME IInv, [Next]_vars, rows' # rows PROVE Stand
      OBVIOUS
    <2>1. PICK p \in Processes :
            \/ Start(p) \/ Proceed(p) \/ AppendRow(p) \/ Pull(p) \/ Die(p)
      BY DEF Next, vars
    <2>2. TypeOK /\ RowsInv /\ rows \in Seq(Nat) /\ Shaped(rows)
      BY DEF IInv, RowsInv, TypeOK
    <2>3. Added(p) \/ Renumbered(p)
      BY <2>1, <2>2, StepCases DEF Kept, Pull, database
    <2>4. CASE Added(p)
      <3>1. \A i \in DOMAIN rows : rows'[i] = rows[i]
        BY <2>2, <2>4, AppendShaped DEF Added
      <3> QED
        BY <3>1
    <2>5. CASE Renumbered(p)
      <3>1. Unnumbered(rows)
        BY <2>2, <2>5, RenumberedSame DEF Renumbered
      <3>2. \A i \in DOMAIN rows : rows'[i] = i
        BY <2>2, <2>5 DEF Renumbered, Straight
      <3>3. \A i \in DOMAIN rows : ~(rows[i] > 0)
        BY <2>2, <3>1 DEF Unnumbered
      <3> QED
        BY <3>2, <3>3
    <2> QED
      BY <2>3, <2>4, <2>5
  <1> QED
    BY <1>1, Invariance, PTL DEF Spec, NumbersStand
==============================================================================
