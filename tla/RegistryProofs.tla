---------------------------- MODULE RegistryProofs ----------------------------
(***************************************************************************)
(* The registry, for any number of hosts, names, restarts and edits: the   *)
(* types; the rows of the other hosts stay while no access fails; the map  *)
(* and the rows agree between handlers; what was answered is remembered.   *)
(***************************************************************************)
EXTENDS Registry, FiniteSetTheorems, TLAPS

Records == [id : Nat, auto : BOOLEAN, env : BOOLEAN]
Others == Hosts \ {Own}

Types ==
  /\ rows \in [Hosts -> [Names -> Records \cup {None}]]
  /\ table \in [Names -> Records \cup {None}]
  /\ nextId \in Nat \ {0} /\ faults \in Nat
  /\ hand \in [op : {"idle", "insert", "save", "delete", "reload"},
               name : Names \cup {None}, todo : SUBSET Names]

\* Every row has an id that the counter gave; so has a program, or none.
Given ==
  /\ \A h \in Hosts, n \in Names :
       rows[h][n] # None => rows[h][n].id > 0 /\ rows[h][n].id < nextId
  /\ \A n \in Names : table[n] # None => table[n].id = 0 \/ table[n].id < nextId

\* No id of this host is one of another host.
Apart ==
  \A h \in Others, m, n \in Names : rows[h][m] # None =>
    /\ rows[Own][n] # None => rows[Own][n].id # rows[h][m].id
    /\ table[n] # None => table[n].id # rows[h][m].id

\* Until an access fails, only the program that is being inserted has no id.
Known ==
  faults = 0 => \A n \in Names :
    table[n] # None /\ table[n].id = 0 => hand.op = "insert" /\ hand.name = n

\* What a handler still has to write or remove is in the map.
Held ==
  /\ hand.op \in {"insert", "save"} =>
       hand.todo = {} /\ hand.name \in Names /\ table[hand.name] # None
  /\ (hand.op = "idle" => hand.todo = {}) /\ (~up => hand = Idle)
  /\ \A n \in hand.todo : table[n] # None /\ n # hand.name

IInv == Types /\ Given /\ Apart /\ Known /\ Held

Kept == faults' = 0 => \A h \in Others : rows'[h] = rows[h]

USE DEF Records, Others

LEMMA RegistryInit == Init => IInv
<1> SUFFICES ASSUME Init PROVE IInv
  OBVIOUS
<1>1. Cardinality(OtherRows) \in Nat
  BY FS_Difference, FS_Product, FS_CardinalityType, RegistryAssumption
     DEF OtherRows
<1>2. PICK ids \in [OtherRows -> 1..Cardinality(OtherRows)] :
        rows = [h \in Hosts |-> [n \in Names |->
                  IF h = Own THEN None
                  ELSE [id |-> ids[<<h, n>>], auto |-> TRUE, env |-> FALSE]]]
  BY DEF Init
<1>3. \A h \in Others, n \in Names : ids[<<h, n>>] \in 1..Cardinality(OtherRows)
  BY <1>2 DEF OtherRows
<1>4. Types
  BY <1>1, <1>2, <1>3 DEF Init, Types, Nothing, Idle
<1>5. Given
  BY <1>1, <1>2, <1>3 DEF Init, Given, Nothing
<1>6. Apart /\ Known /\ Held
  BY <1>2, RegistryAssumption DEF Init, Apart, Known, Held, Nothing, Idle
<1>7. QED
  BY <1>4, <1>5, <1>6 DEF IInv

\* A row is read with its id.
LEMMA Loaded ==
  ASSUME Types, NEW n \in Names, ~Free(n)
  PROVE  /\ rows[Own][n] \in Records
         /\ Load(n) \in Records /\ Load(n).id = rows[Own][n].id
         /\ Load(n).auto = rows[Own][n].auto /\ ~Load(n).env
<1>1. rows[Own][n] \in Records
  BY RegistryAssumption DEF Types, Free
<1>2. \A r \in Records : [r EXCEPT !.env = FALSE] \in Records
                           /\ [r EXCEPT !.env = FALSE].id = r.id
                           /\ [r EXCEPT !.env = FALSE].auto = r.auto
                           /\ ~[r EXCEPT !.env = FALSE].env
  OBVIOUS
<1>3. QED
  BY <1>1, <1>2 DEF Load

LEMMA RegistryStart ==
  ASSUME IInv, NEW ok \in BOOLEAN, Start(ok) PROVE IInv' /\ Kept
<1>1. Types'
  <2>1. table' \in [Names -> Records \cup {None}]
    BY Loaded DEF IInv, Start
  <2>2. QED
    BY <2>1 DEF IInv, Start, Access, Types
<1>2. \A n \in Names : table'[n] # None =>
        rows[Own][n] # None /\ table'[n].id = rows[Own][n].id
  BY Loaded DEF IInv, Start, Free
<1>3. Given' /\ Apart' /\ Kept
  BY <1>2, RegistryAssumption DEF IInv, Start, Types, Given, Apart, Kept
<1>4. Known' /\ Held'
  BY <1>2, RegistryAssumption DEF IInv, Start, Types, Given, Known, Held, Idle
<1>5. QED
  BY <1>1, <1>3, <1>4 DEF IInv

LEMMA RegistryCrash ==
  ASSUME IInv, Crash PROVE IInv' /\ Kept
<1>1. Types' /\ Held'
  BY RegistryAssumption DEF IInv, Crash, Types, Held, Nothing, Idle
<1>2. Given' /\ Apart' /\ Known' /\ Kept
  BY RegistryAssumption
     DEF IInv, Crash, Types, Given, Apart, Known, Kept, Nothing
<1>3. QED
  BY <1>1, <1>2 DEF IInv

\* A change of one row of this host.
LEMMA OneRow ==
  ASSUME Types, NEW n \in Names, NEW r \in Records \cup {None},
         rows' = [rows EXCEPT ![Own][n] = r]
  PROVE  /\ rows' \in [Hosts -> [Names -> Records \cup {None}]]
         /\ \A h \in Others : rows'[h] = rows[h]
         /\ \A m \in Names : rows'[Own][m] = IF m = n THEN r ELSE rows[Own][m]
<1>1. Own \in Hosts
  BY RegistryAssumption
<1>2. [rows[Own] EXCEPT ![n] = r] \in [Names -> Records \cup {None}]
  BY <1>1 DEF Types
<1>3. rows' = [rows EXCEPT ![Own] = [rows[Own] EXCEPT ![n] = r]]
  OBVIOUS
<1>4. QED
  BY <1>1, <1>2, <1>3 DEF Types

\* If what is written has an id of this host, the hosts stay apart.
LEMMA Write ==
  ASSUME Types, Given, Apart, NEW n \in Names, NEW i \in Nat,
         i > 0 => i < nextId' /\ \A h \in Others, m \in Names :
                    rows[h][m] # None => i # rows[h][m].id,
         nextId' \in Nat, nextId' >= nextId,
         \A h \in Others : rows'[h] = rows[h],
         \A m \in Names : rows'[Own][m] # None =>
           \/ rows'[Own][m].id = i /\ i > 0
           \/ rows[Own][m] # None /\ rows'[Own][m].id = rows[Own][m].id,
         \A m \in Names : table'[m] # None =>
           \/ table'[m].id \in {0, i}
           \/ table[m] # None /\ table'[m].id = table[m].id
  PROVE  Given' /\ Apart'
<1>1. \A h \in Others, m \in Names : rows[h][m] # None => rows[h][m].id \in Nat
  BY DEF Types
<1>2. \A m \in Names : table[m] # None => table[m].id \in Nat
  BY DEF Types
<1>3. \A m \in Names : rows[Own][m] # None => rows[Own][m].id \in Nat
  BY RegistryAssumption DEF Types
<1>4. Given'
  <2>1. \A h \in Others, m \in Names : rows'[h][m] # None =>
          rows'[h][m].id > 0 /\ rows'[h][m].id < nextId'
    BY <1>1 DEF Given, Types
  <2>2. \A m \in Names : rows'[Own][m] # None =>
          rows'[Own][m].id > 0 /\ rows'[Own][m].id < nextId'
    BY <1>3, RegistryAssumption DEF Given, Types
  <2>3. \A m \in Names : table'[m] # None =>
          table'[m].id = 0 \/ table'[m].id < nextId'
    BY <1>2 DEF Given, Types
  <2>4. QED
    BY <2>1, <2>2, <2>3 DEF Given
<1>5. Apart'
  BY <1>1, <1>2, <1>3 DEF Apart, Given
<1>6. QED
  BY <1>4, <1>5

\* An id of this host, or the next, is of no other host.
LEMMA OwnIds ==
  ASSUME Types, Given, Apart, NEW h \in Others, NEW m \in Names, rows[h][m] # None
  PROVE  /\ nextId # rows[h][m].id
         /\ \A n \in Names : rows[Own][n] # None => rows[Own][n].id # rows[h][m].id
         /\ \A n \in Names : table[n] # None => table[n].id # rows[h][m].id
BY DEF Types, Given, Apart

LEMMA RegistryEdit ==
  ASSUME IInv, NEW n \in Names, NEW auto \in BOOLEAN, EditRow(n, auto)
  PROVE  IInv' /\ Kept
<1>1. \E r \in Records \cup {None}, i \in Nat :
        /\ rows' = [rows EXCEPT ![Own][n] = r]
        /\ r # None => r.id = i
        /\ \/ i = nextId /\ nextId' = nextId + 1 /\ i > 0
           \/ rows[Own][n] # None /\ i = rows[Own][n].id /\ nextId' = nextId
  <2>1. CASE /\ ~Free(n)
             /\ rows' = [rows EXCEPT ![Own][n].auto = auto]
             /\ nextId' = nextId
    <3>1. rows[Own][n] \in Records /\ rows[Own][n] # None
      BY <2>1, Loaded DEF IInv, Free
    <3>2. [rows[Own][n] EXCEPT !.auto = auto] \in Records
          /\ [rows[Own][n] EXCEPT !.auto = auto].id = rows[Own][n].id
      BY <3>1
    <3>3. rows' = [rows EXCEPT ![Own][n] = [rows[Own][n] EXCEPT !.auto = auto]]
      BY <2>1
    <3>4. \A r \in Records, q \in Records : rows' = [rows EXCEPT ![Own][n] = r]
            /\ q = rows[Own][n] /\ q # None /\ r.id = q.id /\ nextId' = nextId =>
            \E i \in Nat : r.id = i /\ rows[Own][n] # None /\ i = rows[Own][n].id
      OBVIOUS
    <3>5. QED
      BY <2>1, <3>1, <3>2, <3>3, <3>4
  <2>2. CASE /\ ~Free(n)
             /\ rows' = [rows EXCEPT ![Own][n] = None]
             /\ nextId' = nextId
    <3>1. rows[Own][n] \in Records /\ rows[Own][n] # None
      BY <2>2, Loaded DEF IInv, Free
    <3>2. QED
      BY <2>2, <3>1
  <2>3. CASE /\ Free(n) /\ nextId < MaxId /\ nextId' = nextId + 1
             /\ rows' = [rows EXCEPT ![Own][n] =
                           [id |-> nextId, auto |-> auto, env |-> FALSE]]
    <3>1. nextId \in Nat /\ nextId > 0
      BY DEF IInv, Types
    <3>2. [id |-> nextId, auto |-> auto, env |-> FALSE] \in Records
          /\ [id |-> nextId, auto |-> auto, env |-> FALSE].id = nextId
      BY <3>1
    <3>3. QED
      BY <2>3, <3>1, <3>2
  <2>4. QED
    BY <2>1, <2>2, <2>3 DEF EditRow
<1>2. PICK r \in Records \cup {None}, i \in Nat :
        /\ rows' = [rows EXCEPT ![Own][n] = r]
        /\ r # None => r.id = i
        /\ \/ i = nextId /\ nextId' = nextId + 1 /\ i > 0
           \/ rows[Own][n] # None /\ i = rows[Own][n].id /\ nextId' = nextId
  BY <1>1
<1>3. /\ table' = table /\ faults' = faults /\ hand' = hand /\ up' = up
  BY DEF EditRow
<1>4. Types' /\ Kept
  <2>1. rows' \in [Hosts -> [Names -> Records \cup {None}]]
        /\ \A h \in Others : rows'[h] = rows[h]
    BY <1>2, OneRow DEF IInv
  <2>2. nextId' \in Nat \ {0}
    BY <1>2 DEF IInv, Types
  <2>3. QED
    BY <1>3, <2>1, <2>2 DEF IInv, Types, Kept
<1>5. i > 0 /\ i < nextId' /\ nextId' >= nextId
  BY <1>2, RegistryAssumption DEF IInv, Types, Given
<1>6. \A h \in Others, m \in Names : rows[h][m] # None => i # rows[h][m].id
  BY <1>2, OwnIds DEF IInv
<1>7. \A h \in Others : rows'[h] = rows[h]
  BY <1>2, OneRow DEF IInv
<1>8. \A m \in Names : rows'[Own][m] # None =>
           \/ rows'[Own][m].id = i /\ i > 0
           \/ rows[Own][m] # None /\ rows'[Own][m].id = rows[Own][m].id
  BY <1>2, <1>5, OneRow DEF IInv
<1>9. Given' /\ Apart'
  BY <1>3, <1>4, <1>5, <1>6, <1>7, <1>8, Write DEF IInv, Types
<1>10. Known' /\ Held'
  BY <1>3 DEF IInv, Known, Held
<1>11. QED
  BY <1>4, <1>9, <1>10 DEF IInv

LEMMA RegistryAsk ==
  ASSUME IInv, NEW n \in Names, NEW auto \in BOOLEAN, NEW env \in BOOLEAN,
         AddOrUpdate(n, auto, env) \/ Mark(n, auto) \/ Delete(n)
  PROVE  IInv' /\ Kept
<1>1. /\ hand = Idle /\ up /\ UNCHANGED <<up, rows, nextId, faults>>
      /\ \/ hand' \in [op : {"insert", "save"}, name : {n}, todo : {{}}]
         \/ /\ hand' = [op |-> "delete", name |-> None, todo |-> {n}]
            /\ table[n] # None /\ table' = table
      /\ hand'.op = "save" => table[n] # None
  BY DEF AddOrUpdate, Mark, Delete, Handler, bounds
<1>2. \E p \in Records \cup {None} :
        /\ table' = [table EXCEPT ![n] = p]
        /\ p # None => IF table[n] = None THEN p.id = 0 ELSE p.id = table[n].id
        /\ (table[n] # None \/ hand'.op = "insert") => p # None
        /\ (table[n] = None /\ p # None) => hand'.op = "insert"
  <2>1. table[n] # None => table[n] \in Records /\ table[n].id \in Nat
    BY DEF IInv, Types
  <2>2. CASE AddOrUpdate(n, auto, env)
    <3> DEFINE q == [id |-> IF table[n] = None THEN 0 ELSE table[n].id,
                     auto |-> auto, env |-> env]
    <3>1. q \in Records /\ q.id = (IF table[n] = None THEN 0 ELSE table[n].id)
      BY <2>1
    <3>2. q # None
      BY <3>1, RegistryAssumption
    <3>3. table' = [table EXCEPT ![n] = q]
      BY <2>2 DEF AddOrUpdate
    <3>4. table[n] = None => hand'.op = "insert"
      BY <2>2 DEF AddOrUpdate, Handler
    <3>5. QED
      BY <3>1, <3>2, <3>3, <3>4
  <2>3. CASE Mark(n, auto)
    <3> DEFINE q == [table[n] EXCEPT !.auto = auto]
    <3>1. table[n] # None /\ table' = [table EXCEPT ![n] = q]
      BY <2>3 DEF Mark
    <3>2. q \in Records /\ q.id = table[n].id
      BY <2>1, <3>1
    <3>3. q # None
      BY <3>2, RegistryAssumption
    <3>4. QED
      BY <3>1, <3>2, <3>3
  <2>4. CASE Delete(n)
    <3>1. table[n] # None /\ table' = [table EXCEPT ![n] = table[n]]
      BY <2>4 DEF Delete, IInv, Types
    <3>2. QED
      BY <2>1, <3>1
  <2>5. QED
    BY <2>2, <2>3, <2>4
<1>3. PICK p \in Records \cup {None} :
        /\ table' = [table EXCEPT ![n] = p]
        /\ p # None => IF table[n] = None THEN p.id = 0 ELSE p.id = table[n].id
        /\ (table[n] # None \/ hand'.op = "insert") => p # None
        /\ (table[n] = None /\ p # None) => hand'.op = "insert"
  BY <1>2
<1>4. \A m \in Names : table'[m] = IF m = n THEN p ELSE table[m]
  BY <1>3 DEF IInv, Types
<1>5. Types' /\ Kept
  BY <1>1, <1>3 DEF IInv, Types, Kept
<1>6. Given' /\ Apart'
  <2>1. \A m \in Names : table'[m] # None =>
          table'[m].id = 0 \/ (table[m] # None /\ table'[m].id = table[m].id)
    <3>1. p # None => p.id = 0 \/ (table[n] # None /\ p.id = table[n].id)
      BY <1>3
    <3>2. \A m \in Names \ {n} : table'[m] = table[m]
      BY <1>4
    <3>3. table'[n] = p
      BY <1>4
    <3>4. QED
      BY <3>1, <3>2, <3>3
  <2>2. \A h \in Others, m \in Names : rows[h][m] # None => 0 # rows[h][m].id
    BY DEF IInv, Types, Given
  <2>3. QED
    BY <1>1, <2>1, <2>2, Write DEF IInv, Types
<1>7. Known'
  <2>1. \A m \in Names : table[m] # None /\ faults = 0 => table[m].id # 0
    BY <1>1 DEF IInv, Known, Idle
  <2>2. ASSUME faults' = 0, NEW m \in Names, table'[m] # None, table'[m].id = 0
        PROVE  hand'.op = "insert" /\ hand'.name = m
    <3>1. m = n /\ table[n] = None
      BY <1>1, <1>3, <1>4, <2>1, <2>2
    <3>2. hand'.op = "insert"
      BY <1>3, <1>4, <2>2, <3>1
    <3>3. QED
      BY <1>1, <3>1, <3>2
  <2>3. QED
    BY <2>2 DEF Known
<1>8. Held'
  BY <1>1, <1>3, <1>4, RegistryAssumption DEF IInv, Held, Idle
<1>9. QED
  BY <1>5, <1>6, <1>7, <1>8 DEF IInv

\* The program n becomes t and its row r; a new id is i.
Wrote(n, t, r, i) ==
  /\ table' = [table EXCEPT ![n] = t]
  /\ rows' = [rows EXCEPT ![Own][n] = r]
  /\ t.id = i \/ t.id = table[n].id
  /\ r # None => \/ r.id = i /\ i > 0
                 \/ rows[Own][n] # None /\ r.id = rows[Own][n].id
  /\ \/ i = nextId /\ nextId' = nextId + 1
     \/ /\ nextId' = nextId
        /\ i = table[n].id \/ (rows[Own][n] # None /\ i = rows[Own][n].id)
  /\ faults' = 0 => t.id # 0

LEMMA RegistryWrite ==
  ASSUME IInv, NEW ok \in BOOLEAN, Insert(ok) \/ Save(ok)
  PROVE  IInv' /\ Kept
<1> DEFINE n == hand.name
<1>1. /\ n \in Names /\ table[n] \in Records /\ table[n] # None
      /\ hand' = Idle /\ up /\ up' = up
      /\ faults' \in Nat /\ (faults' = 0 => faults = 0 /\ ok)
  BY DEF IInv, Types, Held, Insert, Save, Answer, Access
<1>2. /\ rows[Own][n] # None => rows[Own][n] \in Records /\ rows[Own][n].id > 0
      /\ rows[Own][n] \in Records \cup {None} /\ table[n].id \in Nat
      /\ [rows EXCEPT ![Own][n] = rows[Own][n]] = rows
      /\ [table EXCEPT ![n] = table[n]] = table
      /\ nextId \in Nat /\ nextId > 0
  BY <1>1, RegistryAssumption DEF IInv, Types, Given
<1>3. \A i \in Nat : /\ [table[n] EXCEPT !.id = i] \in Records
                     /\ [table[n] EXCEPT !.id = i].id = i
  BY <1>1
<1>4. \E t \in Records, r \in Records \cup {None}, i \in Nat : Wrote(n, t, r, i)
  <2>1. CASE Create(n)
    <3> DEFINE t == [table[n] EXCEPT !.id = nextId]
    <3>1. /\ table' = [table EXCEPT ![n] = t]
          /\ rows' = [rows EXCEPT ![Own][n] = t]
          /\ nextId' = nextId + 1
      BY <2>1 DEF Create
    <3>2. t \in Records /\ t.id = nextId
      BY <1>2, <1>3
    <3>3. Wrote(n, t, t, nextId)
      BY <1>2, <3>1, <3>2 DEF Wrote
    <3>4. QED
      BY <1>2, <3>2, <3>3
  <2>2. CASE /\ rows[Own][n] # None /\ nextId' = nextId
             /\ table' = [table EXCEPT ![n].id = rows[Own][n].id]
             /\ rows' = rows \/ rows' = [rows EXCEPT ![Own][n] =
                            [table[n] EXCEPT !.id = rows[Own][n].id]]
    <3> DEFINE i == rows[Own][n].id
               t == [table[n] EXCEPT !.id = i]
    <3>1. i \in Nat /\ i > 0
      BY <1>2, <2>2
    <3>2. t \in Records /\ t.id = i /\ table' = [table EXCEPT ![n] = t]
      BY <1>3, <2>2, <3>1
    <3>3. CASE rows' = rows
      <4>1. Wrote(n, t, rows[Own][n], i)
        BY <1>2, <2>2, <3>1, <3>2, <3>3 DEF Wrote
      <4>2. QED
        BY <1>2, <3>1, <3>2, <4>1
    <3>4. CASE rows' = [rows EXCEPT ![Own][n] = t]
      <4>1. Wrote(n, t, t, i)
        BY <2>2, <3>1, <3>2, <3>4 DEF Wrote
      <4>2. QED
        BY <3>1, <3>2, <4>1
    <3>5. QED
      BY <2>2, <3>3, <3>4
  <2>3. CASE table[n].id # 0 /\ SaveById(n)
    <3>1. table' = [table EXCEPT ![n] = table[n]] /\ nextId' = nextId
          /\ table[n].id > 0
      BY <1>2, <2>3 DEF SaveById
    <3>2. CASE rows' = rows
      <4>1. Wrote(n, table[n], rows[Own][n], table[n].id)
        BY <1>2, <2>3, <3>1, <3>2 DEF Wrote
      <4>2. QED
        BY <1>1, <1>2, <4>1
    <3>3. CASE rows' = [rows EXCEPT ![Own][n] = table[n]]
      <4>1. Wrote(n, table[n], table[n], table[n].id)
        BY <2>3, <3>1, <3>3 DEF Wrote
      <4>2. QED
        BY <1>1, <1>2, <4>1
    <3>4. QED
      BY <2>3, <3>2, <3>3 DEF SaveById
  <2>4. CASE /\ UNCHANGED <<table, rows, nextId>>
             /\ ok => hand.op = "save" /\ table[n].id = 0
    <3>1. faults' # 0
      BY <1>1, <2>4 DEF IInv, Known
    <3>2. Wrote(n, table[n], rows[Own][n], table[n].id)
      BY <1>2, <2>4, <3>1 DEF Wrote
    <3>3. QED
      BY <1>1, <1>2, <3>2
  <2>5. CASE Insert(ok)
    <3>1. \/ ok /\ Free(n) /\ Create(n)
          \/ /\ ok /\ ~Free(n) /\ table' = [table EXCEPT ![n].id = rows[Own][n].id]
             /\ rows' = [rows EXCEPT ![Own][n] =
                   [table EXCEPT ![n].id = rows[Own][n].id][n]] /\ nextId' = nextId
          \/ ~ok /\ UNCHANGED <<table, rows, nextId>>
          \/ /\ ~ok /\ ~Free(n) /\ table' = [table EXCEPT ![n].id = rows[Own][n].id]
             /\ UNCHANGED <<rows, nextId>>
      BY <2>5 DEF Insert
    <3>2. [table EXCEPT ![n].id = rows[Own][n].id][n] =
            [table[n] EXCEPT !.id = rows[Own][n].id]
      BY <1>1 DEF IInv, Types
    <3>3. QED
      BY <2>1, <2>2, <2>4, <3>1, <3>2 DEF Free
  <2>6. CASE Save(ok)
    BY <2>1, <2>3, <2>4, <2>6 DEF Save, Free
  <2>7. QED
    BY <2>5, <2>6
<1>5. PICK t \in Records, r \in Records \cup {None}, i \in Nat : Wrote(n, t, r, i)
  BY <1>4
<1> USE DEF Wrote
<1> HIDE DEF n
<1>6. \A m \in Names : table'[m] = IF m = n THEN t ELSE table[m]
  BY <1>5 DEF IInv, Types
<1>7. /\ rows' \in [Hosts -> [Names -> Records \cup {None}]]
      /\ \A h \in Others : rows'[h] = rows[h]
      /\ \A m \in Names : rows'[Own][m] = IF m = n THEN r ELSE rows[Own][m]
  BY <1>1, <1>5, OneRow DEF IInv
<1>8. Types' /\ Kept
  <2>1. nextId' \in Nat \ {0}
    BY <1>2, <1>5
  <2>2. table' \in [Names -> Records \cup {None}]
    BY <1>5 DEF IInv, Types
  <2>3. QED
    BY <1>1, <1>7, <2>1, <2>2 DEF IInv, Types, Kept, Idle
<1>9. Given' /\ Apart'
  <2>1. i > 0 => i < nextId'
    BY <1>1, <1>2, <1>5, RegistryAssumption DEF IInv, Types, Given
  <2>2. \A h \in Others, m \in Names : rows[h][m] # None /\ i > 0 => i # rows[h][m].id
    BY <1>1, <1>5, OwnIds DEF IInv
  <2>3. \A m \in Names : rows'[Own][m] # None =>
           \/ rows'[Own][m].id = i /\ i > 0
           \/ rows[Own][m] # None /\ rows'[Own][m].id = rows[Own][m].id
    BY <1>5, <1>7
  <2>4. \A m \in Names : table'[m] # None =>
           \/ table'[m].id \in {0, i}
           \/ table[m] # None /\ table'[m].id = table[m].id
    BY <1>1, <1>5, <1>6
  <2>5. nextId' \in Nat /\ nextId' >= nextId
    BY <1>2, <1>5
  <2>6. QED
    BY <1>1, <1>7, <2>1, <2>2, <2>3, <2>4, <2>5, Write DEF IInv
<1>10. Known'
  <2>1. ASSUME faults' = 0, NEW m \in Names, table'[m] # None, table'[m].id = 0
        PROVE  FALSE
    <3>1. m # n /\ table[m] # None /\ table[m].id = 0 /\ faults = 0
      BY <1>1, <1>5, <1>6, <2>1
    <3>2. hand.name = m
      BY <3>1 DEF IInv, Known
    <3>3. QED
      BY <3>1, <3>2 DEF n
  <2>2. QED
    BY <2>1 DEF Known
<1>11. Held'
  BY <1>1 DEF Held, Idle
<1>12. QED
  BY <1>8, <1>9, <1>10, <1>11 DEF IInv

LEMMA RegistryReload ==
  ASSUME IInv, NEW ok \in BOOLEAN, Reload(ok) PROVE IInv' /\ Kept
<1> DEFINE listed == {n \in Names : ok /\ ~Free(n)}
<1>1. /\ hand = Idle /\ up /\ UNCHANGED <<up, rows, nextId>>
      /\ hand' = [op |-> "reload", name |-> None,
                  todo |-> {n \in Names : table[n] # None} \ listed]
      /\ faults' \in Nat /\ (faults' = 0 => faults = 0)
  BY DEF Reload, Handler, Access, IInv, Types
<1>2. ASSUME NEW m \in Names
      PROVE  /\ table'[m] \in Records \cup {None}
             /\ m \notin listed => table'[m] = table[m]
             /\ m \in listed => /\ table'[m] # None /\ rows[Own][m] # None
                                /\ IF table[m] = None
                                   THEN table'[m].id = rows[Own][m].id
                                   ELSE table'[m].id = table[m].id
  <2>1. table[m] \in Records \cup {None}
    BY DEF IInv, Types
  <2>2. CASE m \notin listed
    BY <2>1, <2>2 DEF Reload
  <2>3. CASE m \in listed
    <3>1. /\ Load(m) \in Records /\ Load(m).id = rows[Own][m].id
          /\ rows[Own][m] # None
      BY <2>3, Loaded DEF IInv, Free
    <3>2. table'[m] = IF table[m] = None THEN Load(m)
                      ELSE [Load(m) EXCEPT !.id = table[m].id]
      BY <2>3 DEF Reload
    <3>3. \A i \in Nat : /\ [Load(m) EXCEPT !.id = i] \in Records
                         /\ [Load(m) EXCEPT !.id = i].id = i
      BY <3>1
    <3>4. table'[m] \in Records
          /\ IF table[m] = None THEN table'[m].id = rows[Own][m].id
             ELSE table'[m].id = table[m].id
      BY <2>1, <3>1, <3>2, <3>3
    <3>5. QED
      BY <2>3, <3>1, <3>4, RegistryAssumption
  <2>4. QED
    BY <2>2, <2>3
<1>3. table' = [n \in Names |-> table'[n]]
  BY DEF Reload
<1> HIDE DEF listed
<1>4. Types' /\ Kept
  BY <1>1, <1>2, <1>3 DEF IInv, Types, Kept
<1>5. \A m \in Names : table'[m] # None =>
        \/ table[m] # None /\ table'[m].id = table[m].id
        \/ rows[Own][m] # None /\ table'[m].id = rows[Own][m].id
  BY <1>2
<1>6. Given' /\ Apart'
  BY <1>1, <1>5, OwnIds, RegistryAssumption DEF IInv, Given, Apart
<1>7. Known'
  BY <1>1, <1>5, RegistryAssumption DEF IInv, Given, Known, Idle
<1>8. Held'
  BY <1>1, <1>2, RegistryAssumption DEF Held
<1>9. QED
  BY <1>4, <1>6, <1>7, <1>8 DEF IInv

\* A program with an id is the only one whose row goes.
LEMMA RegistryRemove ==
  ASSUME IInv, NEW n \in Names, NEW ok \in BOOLEAN, RemoveRow(n, ok)
  PROVE  IInv' /\ Kept
<1>1. /\ n \in hand.todo /\ hand.name = None /\ up /\ table[n] # None
      /\ UNCHANGED <<up, table, nextId>>
      /\ faults' \in Nat /\ (faults' = 0 => faults = 0 /\ ok)
      /\ hand.op \in {"delete", "reload"}
  BY DEF IInv, Types, Held, RemoveRow, Access
<1>2. hand' = Idle \/ hand' = [hand EXCEPT !.name = n, !.todo = @ \ {n}]
  BY DEF RemoveRow
<1>3. rows' = rows \/ rows' = Without(table[n].id)
  BY DEF RemoveRow
<1>4. \A h \in Hosts, m \in Names : rows'[h][m] \in {rows[h][m], None}
  BY <1>3 DEF Without
<1>5. Types'
  <2>1. rows' \in [Hosts -> [Names -> Records \cup {None}]]
    <3>1. CASE rows' = rows
      BY <3>1 DEF IInv, Types
    <3>2. CASE rows' = Without(table[n].id)
      BY <3>2 DEF IInv, Types, Without
    <3>3. QED
      BY <1>3, <3>1, <3>2
  <2>2. hand' \in [op : {"idle", "insert", "save", "delete", "reload"},
                   name : Names \cup {None}, todo : SUBSET Names]
    <3>1. CASE hand' = Idle
      BY <3>1 DEF Idle
    <3>2. CASE hand' = [hand EXCEPT !.name = n, !.todo = @ \ {n}]
      BY <3>2 DEF IInv, Types
    <3>3. QED
      BY <1>2, <3>1, <3>2
  <2>3. QED
    BY <1>1, <2>1, <2>2 DEF IInv, Types
<1>6. Kept
  <2>1. SUFFICES ASSUME faults' = 0, NEW h \in Others PROVE rows'[h] = rows[h]
    BY DEF Kept
  <2>2. table[n].id # 0
    BY <1>1, <2>1 DEF IInv, Known
  <2>3. \A m \in Names : rows[h][m] # None => rows[h][m].id # table[n].id
    BY <1>1 DEF IInv, Apart
  <2>4. rows[h] = [m \in Names |-> rows[h][m]]
    BY DEF IInv, Types
  <2>5. CASE rows' = Without(table[n].id)
    <3>1. rows'[h] = [m \in Names |-> IF rows[h][m] = None THEN None ELSE rows[h][m]]
      BY <2>2, <2>3, <2>5 DEF Without
    <3>2. QED
      BY <2>4, <3>1
  <2>6. QED
    BY <1>3, <2>5
<1>7. Given' /\ Apart'
  <2>1. Own \in Hosts
    BY RegistryAssumption
  <2>2. Given'
    BY <1>1, <1>4 DEF IInv, Given
  <2>3. \A h \in Hosts, m \in Names : rows'[h][m] # None =>
          rows[h][m] # None /\ rows'[h][m] = rows[h][m]
    BY <1>4
  <2>4. Apart'
    BY <1>1, <2>1, <2>3 DEF IInv, Apart
  <2>5. QED
    BY <2>2, <2>4
<1>8. Known'
  BY <1>1 DEF IInv, Known
<1>9. Held'
  <2>1. CASE hand' = Idle
    BY <1>1, <2>1 DEF Held, Idle
  <2>2. CASE hand' = [hand EXCEPT !.name = n, !.todo = @ \ {n}]
    <3>1. hand'.op = hand.op /\ hand'.name = n /\ hand'.todo = hand.todo \ {n}
      BY <2>2 DEF IInv, Types
    <3>2. \A m \in hand.todo : table[m] # None
      BY DEF IInv, Held
    <3>3. QED
      BY <1>1, <3>1, <3>2 DEF Held
  <2>3. QED
    BY <1>2, <2>1, <2>2
<1>10. QED
  BY <1>5, <1>6, <1>7, <1>8, <1>9 DEF IInv

LEMMA RegistryErase ==
  ASSUME IInv, Erase \/ ReloadEnd PROVE IInv' /\ Kept
<1>1. /\ UNCHANGED <<up, rows, nextId, faults>> /\ up
      /\ hand.op \in {"delete", "reload"}
  BY DEF Erase, ReloadEnd, bounds
<1>2. hand' = Idle \/ (hand' = [hand EXCEPT !.name = None] /\ hand.op = "reload")
  BY DEF Erase, ReloadEnd, Answer
<1>3. table' = table \/ (table' = [table EXCEPT ![hand.name] = None]
                         /\ hand.name \in Names)
  BY DEF Erase, ReloadEnd, IInv, Types
<1>4. \A m \in Names : /\ table'[m] \in {table[m], None}
                       /\ m # hand.name => table'[m] = table[m]
  BY <1>3 DEF IInv, Types
<1>5. Types' /\ Kept
  BY <1>1, <1>2, <1>3 DEF IInv, Types, Kept, Idle
<1>6. Given' /\ Apart'
  BY <1>1, <1>4 DEF IInv, Given, Apart
<1>7. Known'
  BY <1>1, <1>4 DEF IInv, Known
<1>8. Held'
  <2>1. CASE hand' = Idle
    BY <1>1, <2>1 DEF Held, Idle
  <2>2. CASE hand' = [hand EXCEPT !.name = None] /\ hand.op = "reload"
    <3>1. hand'.op = "reload" /\ hand'.name = None /\ hand'.todo = hand.todo
      BY <2>2 DEF IInv, Types
    <3>2. \A n \in hand.todo : n \in Names /\ table[n] # None /\ n # hand.name
      BY DEF IInv, Types, Held
    <3>3. QED
      BY <1>1, <1>4, <3>1, <3>2, RegistryAssumption DEF Held
  <2>3. QED
    BY <1>2, <2>1, <2>2
<1>9. QED
  BY <1>5, <1>6, <1>7, <1>8 DEF IInv

LEMMA RegistryStep == IInv /\ [Next]_vars => IInv' /\ Kept
<1>1. ASSUME IInv, Next PROVE IInv' /\ Kept
  BY <1>1, RegistryStart, RegistryCrash, RegistryEdit, RegistryAsk,
     RegistryWrite,
     RegistryReload, RegistryRemove, RegistryErase DEF Next
<1>2. ASSUME IInv, UNCHANGED vars PROVE IInv' /\ Kept
  BY <1>2 DEF vars, bounds, IInv, Types, Given, Apart, Known, Held, Kept
<1>3. QED
  BY <1>1, <1>2

\* While no access has failed, no row of another host changes, whatever is
\* added, updated, removed, reloaded, edited or cut off (dbRemoveProgram,
\* whose delete without an id would empty the table).
THEOREM OthersStayAlways == Spec => OthersStay
<1>1. IInv /\ [Next]_vars =>
        [faults' = 0 => \A h \in Hosts \ {Own} : rows'[h] = rows[h]]_vars
  BY RegistryStep DEF Kept
<1>2. QED
  BY RegistryInit, RegistryStep, <1>1, PTL DEF Spec, OthersStay

-----------------------------------------------------------------------------
(* The map, the rows and the answers                                       *)

\* What the handler under way is about.
Pending == hand.todo \cup ({hand.name} \ {None})

\* Bounds and types; a handler that may create a row has an id left for it.
Counted ==
  /\ nextId <= MaxId + 1 /\ faults \in 0..MaxFaults
  /\ edits \in 0..MaxEdits /\ crashes \in 0..MaxCrashes
  /\ acked \in [Names -> Programs \cup {None}]
  /\ unsure \subseteq Names /\ dirty \in BOOLEAN /\ up \in BOOLEAN
  /\ \A n \in Pending : table[n] # None
  /\ hand.op = "delete" => \A m, n \in Pending : m = n
  /\ hand.op \in {"insert", "save"} =>
       nextId <= MaxId \/ table[hand.name].id # 0
  /\ hand.op = "insert" => table[hand.name].id = 0

\* An id belongs to one name, in the map and in the rows of this host.
Named ==
  \A m, n \in Names : m # n =>
    /\ rows[Own][m] # None =>
         /\ rows[Own][n] # None => rows[Own][n].id # rows[Own][m].id
         /\ table[n] # None => table[n].id # rows[Own][m].id
    /\ table[m] # None /\ table[n] # None =>
         table[m].id = 0 \/ table[m].id # table[n].id

Same(n) ==
  IF table[n] = None THEN Free(n)
  ELSE /\ ~Free(n) /\ table[n].id = rows[Own][n].id
       /\ table[n].auto = rows[Own][n].auto

\* The names that no handler is about agree; what a handler is about to write
\* or remove has the row that it takes it to have.
Synced ==
  up /\ ~dirty =>
    /\ \A n \in Names \ Pending : Same(n)
    /\ \A n \in hand.todo :
         table[n].id # 0 /\ (~Free(n) => rows[Own][n].id = table[n].id)
    /\ hand.op \in {"delete", "reload"} /\ hand.name # None => Free(hand.name)
    /\ hand.op = "insert" => Free(hand.name)
    /\ hand.op = "save" => /\ ~Free(hand.name)
                           /\ rows[Own][hand.name].id = table[hand.name].id

As(p, q) == Alike(p, q) /\ (p # None /\ p.env => q.env)

\* Where nothing failed and nobody edited, a reload removes nothing, and the
\* names that are not pending or unsure are as was asked, in the rows too.
Answered ==
  faults = 0 /\ edits = 0 =>
    /\ ~dirty
    /\ hand.op = "reload" => Pending = {}
    /\ \A n \in Names \ (unsure \cup Pending) :
         As(rows[Own][n], acked[n]) /\ (up => As(table[n], acked[n]))

JInv == Counted /\ Named /\ Synced /\ Answered

LEMMA Limits == {MaxId, MaxFaults, MaxEdits, MaxCrashes} \subseteq Nat
                /\ MaxId \in Nat /\ MaxFaults \in Nat /\ MaxEdits \in Nat
                /\ MaxCrashes \in Nat
  BY RegistryAssumption

LEMMA Known2 ==
  ASSUME IInv
  PROVE  /\ None \notin Records /\ Own \in Hosts
         /\ \A n \in Names :
              /\ table[n] \in Records \cup {None}
              /\ rows[Own][n] \in Records \cup {None}
              /\ rows[Own][n] # None => rows[Own][n].id > 0 /\ rows[Own][n].id < nextId
              /\ table[n] # None => table[n].id = 0 \/ table[n].id < nextId
  BY RegistryAssumption DEF IInv, Types, Given

LEMMA PendingIdle ==
  hand = Idle => Pending = {} /\ hand.op = "idle" /\ hand.todo = {}
  BY DEF Pending, Idle

LEMMA RegistryJInit == Init => JInv
<1> SUFFICES ASSUME Init PROVE JInv
  OBVIOUS
<1>1. Pending = {} /\ hand.op = "idle"
  BY PendingIdle DEF Init
<1>2. nextId <= MaxId + 1
  <2>1. /\ IsFiniteSet(Hosts \ {Own})
        /\ Cardinality(Hosts \ {Own}) = Cardinality(Hosts) - 1
        /\ Cardinality(Hosts) \in Nat /\ Cardinality(Names) \in Nat
    BY FS_RemoveElement, FS_CardinalityType, RegistryAssumption
  <2>2. Cardinality(OtherRows) = (Cardinality(Hosts) - 1) * Cardinality(Names)
    BY <2>1, FS_Product, RegistryAssumption DEF OtherRows
  <2>3. \A a, b \in Nat : (a - 1) * b <= a * b
    OBVIOUS
  <2>4. (Cardinality(Hosts) - 1) * Cardinality(Names) <= MaxId
    <3>1. MaxId \in Nat /\ Cardinality(Hosts) * Cardinality(Names) <= MaxId
      BY RegistryAssumption
    <3>2. \A a, b, c \in Nat : a * b <= c => (a - 1) * b <= c
      OBVIOUS
    <3> QED
      BY <2>1, <3>1, <3>2
  <2>5. nextId = Cardinality(OtherRows) + 1 /\ MaxId \in Nat
    BY RegistryAssumption DEF Init
  <2>6. \A a, b \in Nat : (a - 1) * b \in Int
    OBVIOUS
  <2> QED
    BY <2>1, <2>2, <2>4, <2>5, <2>6
<1>3. Counted
  <2>1. Init /\ 0 \in 0..MaxFaults /\ 0 \in 0..MaxEdits /\ 0 \in 0..MaxCrashes
    BY Limits
  <2> QED
    BY <1>1, <1>2, <2>1 DEF Init, Counted, Nothing
<1>4. Named /\ Synced /\ Answered
  BY <1>1, RegistryAssumption
     DEF Init, Named, Synced, Answered, As, Alike, Nothing
<1> QED
  BY <1>3, <1>4 DEF JInv

LEMMA JStart ==
  ASSUME IInv, IInv', JInv, NEW ok \in BOOLEAN, Start(ok) PROVE JInv'
<1>1. /\ hand = Idle /\ hand' = Idle /\ ~up /\ up' = TRUE /\ dirty' = ~ok
      /\ UNCHANGED <<rows, nextId, acked, unsure, edits, crashes>>
      /\ faults' \in 0..MaxFaults /\ (faults' = 0 => faults = 0 /\ ok)
  BY DEF IInv, Held, Start, Access, Types
<1>2. Pending = {} /\ Pending' = {} /\ hand'.op = "idle" /\ hand'.todo = {}
  BY <1>1, PendingIdle DEF Pending, Idle
<1>3. \A n \in Names :
        IF ok /\ ~Free(n)
        THEN /\ table'[n] # None /\ table'[n].id = rows[Own][n].id
             /\ table'[n].auto = rows[Own][n].auto /\ ~table'[n].env
        ELSE table'[n] = None
  BY Loaded, Known2 DEF Start, IInv
<1>4. Counted'
  BY <1>1, <1>2 DEF JInv, Counted
<1>5. Named'
  BY <1>1, <1>3, Known2 DEF JInv, Named, Free
<1>6. Synced'
  BY <1>1, <1>2, <1>3 DEF Synced, Same, Free
<1>7. Answered'
  BY ZenonT(40), <1>1, <1>2, <1>3 DEF JInv, Answered, As, Alike, Free
<1> QED
  BY <1>4, <1>5, <1>6, <1>7 DEF JInv

LEMMA JCrash ==
  ASSUME IInv, JInv, Crash PROVE JInv'
<1>1. /\ hand' = Idle /\ up' = FALSE /\ table' = Nothing
      /\ UNCHANGED <<rows, nextId, acked, dirty, edits, faults>>
      /\ crashes' \in 0..MaxCrashes /\ unsure' = unsure \cup Pending
  BY Limits DEF Crash, Pending, JInv, Counted
<1>2. Pending' = {} /\ hand'.op = "idle" /\ Pending \subseteq Names
  BY <1>1 DEF Pending, Idle, IInv, Types
<1>3. Counted'
  BY <1>1, <1>2 DEF JInv, Counted
<1>4. Named' /\ Synced' /\ Answered'
  BY <1>1, <1>2 DEF JInv, Named, Synced, Answered, Nothing
<1> QED
  BY <1>3, <1>4 DEF JInv

LEMMA JEdit ==
  ASSUME IInv, IInv', JInv, NEW n \in Names, NEW auto \in BOOLEAN, EditRow(n, auto)
  PROVE  JInv'
<1>1. /\ UNCHANGED <<up, table, hand, faults, crashes, acked, unsure>>
      /\ dirty' = TRUE /\ edits' \in 0..MaxEdits /\ edits' # 0
  BY Limits DEF EditRow, JInv, Counted
<1>2. Pending' = Pending
  BY <1>1 DEF Pending
<1>3. /\ \A m \in Names \ {n} : rows'[Own][m] = rows[Own][m]
      /\ nextId' >= nextId /\ nextId \in Nat
      /\ nextId' = nextId \/ nextId' <= MaxId
      /\ rows'[Own][n] # None =>
           \/ rows'[Own][n].id = nextId
           \/ rows[Own][n] # None /\ rows'[Own][n].id = rows[Own][n].id
  <2>1. nextId \in Nat
    BY DEF IInv, Types
  <2>2. CASE /\ ~Free(n)
             /\ rows' = [rows EXCEPT ![Own][n].auto = auto]
             /\ nextId' = nextId
    <3>1. rows[Own][n] \in Records
      BY <2>2, Loaded DEF IInv
    <3>2. [rows[Own][n] EXCEPT !.auto = auto] \in Records
          /\ [rows[Own][n] EXCEPT !.auto = auto].id = rows[Own][n].id
      BY <3>1
    <3>3. rows' = [rows EXCEPT ![Own][n] = [rows[Own][n] EXCEPT !.auto = auto]]
      BY <2>2
    <3> QED
      BY <2>1, <2>2, <3>2, <3>3, OneRow DEF IInv, Free
  <2>3. CASE /\ ~Free(n)
             /\ rows' = [rows EXCEPT ![Own][n] = None]
             /\ nextId' = nextId
    BY <2>1, <2>3, OneRow DEF IInv
  <2>4. CASE /\ Free(n) /\ nextId < MaxId /\ nextId' = nextId + 1
             /\ rows' = [rows EXCEPT ![Own][n] =
                           [id |-> nextId, auto |-> auto, env |-> FALSE]]
    <3>1. [id |-> nextId, auto |-> auto, env |-> FALSE] \in Records
      BY <2>1
    <3> QED
      BY <2>1, <2>4, <3>1, OneRow, RegistryAssumption DEF IInv
  <2> QED
    BY <2>2, <2>3, <2>4 DEF EditRow
<1>4. Counted'
  BY <1>1, <1>2, <1>3, RegistryAssumption DEF JInv, Counted, IInv, Types
<1>5. Named'
  <2>1. \A m \in Names :
          /\ rows[Own][m] # None => rows[Own][m].id \in Nat /\ rows[Own][m].id < nextId
          /\ table[m] # None => table[m].id \in Nat /\ table[m].id < nextId
    <3>1. nextId > 0
      BY DEF IInv, Types
    <3> QED
      BY <1>3, <3>1, Known2
  <2> SUFFICES ASSUME NEW k \in Names, NEW m \in Names, k # m, rows'[Own][k] # None
               PROVE  /\ rows'[Own][m] # None => rows'[Own][m].id # rows'[Own][k].id
                      /\ table[m] # None => table[m].id # rows'[Own][k].id
    BY <1>1 DEF JInv, Named
  <2>2. /\ rows[Own][k] # None /\ rows[Own][m] # None => rows[Own][m].id # rows[Own][k].id
        /\ rows[Own][k] # None /\ table[m] # None => table[m].id # rows[Own][k].id
    BY DEF JInv, Named
  <2> QED
    BY <1>3, <2>1, <2>2
<1>6. Synced' /\ Answered'
  BY <1>1 DEF Synced, Answered
<1> QED
  BY <1>4, <1>5, <1>6 DEF JInv

\* A handler that takes its name up: the program has its old id, or none yet.
LEMMA JAsk ==
  ASSUME IInv, IInv', JInv, NEW n \in Names, NEW auto \in BOOLEAN,
         NEW env \in BOOLEAN, AddOrUpdate(n, auto, env) \/ Mark(n, auto)
  PROVE  JInv'
<1>1. /\ hand = Idle /\ up /\ Room(n)
      /\ UNCHANGED <<up, rows, nextId, faults, edits, crashes, acked, unsure, dirty>>
      /\ hand'.name = n /\ hand'.todo = {}
      /\ hand'.op = IF table[n] = None THEN "insert" ELSE "save"
  BY DEF AddOrUpdate, Mark, Handler, bounds
<1>2. /\ Pending = {} /\ Pending' = {n}
  BY <1>1, PendingIdle, Known2, RegistryAssumption DEF Pending
<1>3. /\ table'[n] # None /\ \A m \in Names \ {n} : table'[m] = table[m]
      /\ table'[n].id = IF table[n] = None THEN 0 ELSE table[n].id
  <2>1. CASE AddOrUpdate(n, auto, env)
    <3> DEFINE q == [id |-> IF table[n] = None THEN 0 ELSE table[n].id,
                     auto |-> auto, env |-> env]
    <3>1. q \in Records /\ q.id = IF table[n] = None THEN 0 ELSE table[n].id
      BY Known2
    <3>2. table' = [table EXCEPT ![n] = q]
      BY <2>1 DEF AddOrUpdate
    <3> QED
      BY <3>1, <3>2, RegistryAssumption DEF IInv, Types
  <2>2. CASE Mark(n, auto)
    <3>1. table[n] \in Records
      BY <2>2, Known2 DEF Mark
    <3>2. /\ [table[n] EXCEPT !.auto = auto] \in Records
          /\ [table[n] EXCEPT !.auto = auto].id = table[n].id
      BY <3>1
    <3>3. table' = [table EXCEPT ![n] = [table[n] EXCEPT !.auto = auto]]
      BY <2>2 DEF Mark
    <3> QED
      BY <2>2, <3>2, <3>3, RegistryAssumption DEF IInv, Types, Mark
  <2> QED
    BY <2>1, <2>2
<1>4. Counted'
  BY <1>1, <1>2, <1>3 DEF JInv, Counted, Room
<1>5. Named'
  <2> SUFFICES ASSUME NEW k \in Names, NEW m \in Names, k # m
               PROVE  /\ rows[Own][k] # None /\ table'[m] # None =>
                           table'[m].id # rows[Own][k].id
                      /\ table'[k] # None /\ table'[m] # None =>
                           table'[k].id = 0 \/ table'[k].id # table'[m].id
    BY <1>1 DEF JInv, Named
  <2>1. /\ rows[Own][k] # None =>
             /\ rows[Own][k].id > 0
             /\ table[m] # None => table[m].id # rows[Own][k].id
        /\ table[k] # None /\ table[m] # None =>
             table[k].id = 0 \/ table[k].id # table[m].id
    BY Known2 DEF JInv, Named
  <2> QED
    BY <1>3, <2>1
<1>6. Synced'
  BY <1>1, <1>2, <1>3 DEF JInv, Synced, Same, Free
<1>7. Answered'
  BY <1>1, <1>2, <1>3 DEF JInv, Answered
<1> QED
  BY <1>4, <1>5, <1>6, <1>7 DEF JInv

LEMMA JDelete ==
  ASSUME IInv, IInv', JInv, NEW n \in Names, Delete(n) PROVE JInv'
<1>1. /\ hand = Idle /\ up /\ table[n] # None
      /\ UNCHANGED <<up, table, rows, nextId, faults, edits, crashes, acked,
                     unsure, dirty>>
      /\ hand'.name = None /\ hand'.todo = {n} /\ hand'.op = "delete"
  BY DEF Delete, Handler, bounds
<1>2. Pending = {} /\ Pending' = {n}
  BY <1>1, PendingIdle DEF Pending
<1>3. Counted' /\ Named'
  BY <1>1, <1>2 DEF JInv, Counted, Named
<1>4. Synced'
  BY <1>1, <1>2, Known2 DEF JInv, Synced, Same, Free
<1>5. Answered'
  BY <1>1, <1>2 DEF JInv, Answered
<1> QED
  BY <1>3, <1>4, <1>5 DEF JInv

\* An answer that leaves the program n as p, with the row r.
LEMMA JAnswer ==
  ASSUME IInv, IInv', JInv, NEW n \in Names, NEW p, NEW r,
         Pending \subseteq {n}, hand' = Idle, up, up',
         UNCHANGED <<edits, crashes>>, faults' \in 0..MaxFaults, dirty' \in BOOLEAN,
         nextId' <= MaxId + 1, faults' = 0 => faults = 0, ~dirty' => ~dirty,
         unsure' = unsure \ {n},
         \A m \in Names \ {n} : table'[m] = table[m] /\ rows'[Own][m] = rows[Own][m],
         acked' \in [Names -> Programs \cup {None}],
         \A m \in Names \ {n} : acked'[m] = acked[m],
         ~dirty' => Same(n)',
         faults' = 0 /\ edits = 0 /\ ~dirty =>
           ~dirty' /\ As(rows'[Own][n], acked'[n]) /\ As(table'[n], acked'[n]),
         Named'
  PROVE  JInv'
<1>1. /\ Pending' = {}
      /\ hand'.op = "idle"
      /\ hand'.todo = {}
      /\ hand'.name = None
  BY DEF Pending, Idle
<1>2. Counted'
  BY <1>1 DEF JInv, Counted
<1>3. Synced'
  BY <1>1 DEF JInv, Synced, Same, Free
<1>4. Answered'
  BY <1>1 DEF JInv, Answered
<1> QED
  BY <1>2, <1>3, <1>4 DEF JInv

\* The program and the row of one name change.
LEMMA NamedOne ==
  ASSUME IInv, Named, NEW n \in Names, NEW i \in Nat,
         i = 0 \/ i >= nextId \/ (table[n] # None /\ i = table[n].id)
               \/ (rows[Own][n] # None /\ i = rows[Own][n].id),
         \A m \in Names \ {n} : table'[m] = table[m] /\ rows'[Own][m] = rows[Own][m],
         table'[n] # None => table'[n].id = i \/ table'[n] = table[n],
         rows'[Own][n] # None =>
           (rows'[Own][n].id = i /\ i > 0) \/ rows'[Own][n] = rows[Own][n]
  PROVE  Named'
<1>1. \A m \in Names :
        /\ rows[Own][m] # None => /\ rows[Own][m].id \in Nat
                                  /\ rows[Own][m].id > 0 /\ rows[Own][m].id < nextId
        /\ table[m] # None => table[m].id \in Nat /\ table[m].id < nextId
  BY Known2 DEF IInv, Types
<1>2. nextId \in Nat
  BY DEF IInv, Types
<1> SUFFICES ASSUME NEW k \in Names, NEW m \in Names, k # m
             PROVE  /\ rows'[Own][k] # None =>
                       /\ rows'[Own][m] # None => rows'[Own][m].id # rows'[Own][k].id
                       /\ table'[m] # None => table'[m].id # rows'[Own][k].id
                    /\ table'[k] # None /\ table'[m] # None =>
                       table'[k].id = 0 \/ table'[k].id # table'[m].id
  BY DEF Named
<1>3. ASSUME NEW a \in Names, NEW b \in Names, a # b
      PROVE  /\ rows[Own][a] # None =>
                  /\ rows[Own][b] # None => rows[Own][b].id # rows[Own][a].id
                  /\ table[b] # None => table[b].id # rows[Own][a].id
             /\ table[a] # None /\ table[b] # None =>
                  table[a].id = 0 \/ table[a].id # table[b].id
  BY <1>3 DEF Named
<1>4. CASE k = n
  BY <1>1, <1>2, <1>3, <1>4
<1>5. CASE m = n
  BY <1>1, <1>2, <1>3, <1>5
<1> QED
  BY <1>3, <1>4, <1>5

LEMMA JWrite ==
  ASSUME IInv, IInv', JInv, NEW ok \in BOOLEAN, Insert(ok) \/ Save(ok)
  PROVE  JInv'
<1>0. PICK n \in Names : n = hand.name
  BY DEF IInv, Types, Held, Insert, Save
<1>1. /\ n \in Names /\ table[n] \in Records /\ table[n] # None
      /\ hand' = Idle /\ up /\ up' /\ hand.todo = {} /\ Pending \subseteq {n}
      /\ UNCHANGED <<edits, crashes>> /\ unsure' = unsure \ {n}
      /\ faults' \in 0..MaxFaults /\ (faults' = 0 => faults = 0 /\ ok)
      /\ dirty' \in BOOLEAN /\ (~dirty' => ~dirty /\ ok)
      /\ acked' = [acked EXCEPT ![n] = [table[n] EXCEPT !.id = 0]]
      /\ (dirty => dirty') /\ (ok => (dirty' <=> dirty))
  BY <1>0, Known2, Limits
     DEF IInv, Types, Held, Insert, Save, Answer, Access, Pending, JInv, Counted
<1>2. \A i \in Nat : /\ [table[n] EXCEPT !.id = i] \in Records
                     /\ [table[n] EXCEPT !.id = i].id = i
                     /\ [table[n] EXCEPT !.id = i].auto = table[n].auto
                     /\ [table[n] EXCEPT !.id = i].env = table[n].env
                     /\ [table[n] EXCEPT !.id = i] # None
  BY <1>1, RegistryAssumption
<1>3. /\ nextId \in Nat /\ nextId > 0 /\ MaxId \in Nat /\ table[n].id \in Nat
      /\ rows[Own][n] # None =>
           /\ rows[Own][n] \in Records /\ rows[Own][n].id \in Nat
           /\ rows[Own][n].id > 0
  BY <1>1, Known2, Limits DEF IInv, Types
<1>4. acked' \in [Names -> Programs \cup {None}]
      /\ acked'[n].auto = table[n].auto /\ acked'[n].env = table[n].env
      /\ acked'[n] # None /\ \A m \in Names \ {n} : acked'[m] = acked[m]
  <2>1. [table[n] EXCEPT !.id = 0] \in Programs
    BY <1>1, <1>3 DEF Programs
  <2> QED
    BY <1>1, <1>2, <2>1 DEF JInv, Counted
\* The program and its row are the same, with one id.
<1>5. ASSUME NEW i \in Nat, i > 0,
             table' = [table EXCEPT ![n] = [table[n] EXCEPT !.id = i]],
             rows' = [rows EXCEPT ![Own][n] = [table[n] EXCEPT !.id = i]],
             \/ i >= nextId \/ i = table[n].id
             \/ rows[Own][n] # None /\ i = rows[Own][n].id,
             nextId' <= MaxId + 1, ok
      PROVE  JInv'
  <2>1. /\ table'[n] = [table[n] EXCEPT !.id = i]
        /\ rows'[Own][n] = [table[n] EXCEPT !.id = i]
        /\ \A m \in Names \ {n} : table'[m] = table[m] /\ rows'[Own][m] = rows[Own][m]
    BY <1>1, <1>2, <1>5, OneRow DEF IInv, Types
  <2>2. Same(n)' /\ As(rows'[Own][n], acked'[n]) /\ As(table'[n], acked'[n])
    <3>1. /\ table'[n] # None /\ rows'[Own][n] # None
          /\ table'[n].id = i /\ rows'[Own][n].id = i
          /\ table'[n].auto = table[n].auto /\ rows'[Own][n].auto = table[n].auto
          /\ table'[n].env = table[n].env /\ rows'[Own][n].env = table[n].env
      BY <1>2, <2>1
    <3> QED
      BY <1>4, <3>1 DEF Same, Free, As, Alike
  <2>3. Named'
    BY <1>1, <1>2, <1>5, <2>1, NamedOne DEF JInv
  <2> QED
    BY <1>1, <1>4, <1>5, <2>1, <2>2, <2>3, JAnswer
\* The row stays, or something is dirty.
<1>6. ASSUME dirty', rows' = rows, nextId' = nextId,
             faults' = 0 /\ edits = 0 => dirty,
             \/ table' = table
             \/ /\ rows[Own][n] # None
                /\ table' = [table EXCEPT ![n] = [table[n] EXCEPT !.id = rows[Own][n].id]]
      PROVE  JInv'
  <2>1. \A m \in Names \ {n} : table'[m] = table[m] /\ rows'[Own][m] = rows[Own][m]
    BY <1>1, <1>6 DEF IInv, Types
  <2>2. CASE table' = table
    <3>1. Named'
      BY <1>6, <2>2 DEF JInv, Named
    <3> QED
      BY <1>1, <1>4, <1>6, <2>1, <3>1, JAnswer DEF JInv, Counted
  <2>3. CASE /\ rows[Own][n] # None
             /\ table' = [table EXCEPT ![n] = [table[n] EXCEPT !.id = rows[Own][n].id]]
    <3>1. table'[n].id = rows[Own][n].id
      BY <1>1, <1>2, <1>3, <2>3 DEF IInv, Types
    <3>2. Named'
      BY <1>1, <1>3, <1>6, <2>1, <2>3, <3>1, NamedOne DEF JInv
    <3> QED
      BY <1>1, <1>4, <1>6, <2>1, <3>2, JAnswer DEF JInv, Counted
  <2> QED
    BY <1>6, <2>2, <2>3
<1>7. faults = 0 /\ edits = 0 => ~dirty
  BY DEF JInv, Answered
<1>8. ~dirty => /\ hand.op = "insert" => Free(n)
                /\ hand.op = "save" => ~Free(n) /\ rows[Own][n].id = table[n].id
  BY <1>0, <1>1 DEF JInv, Synced
<1>9. hand.op \in {"insert", "save"} =>
        /\ nextId <= MaxId \/ table[n].id # 0
        /\ hand.op = "insert" => table[n].id = 0
        /\ nextId <= MaxId + 1
  BY <1>0 DEF JInv, Counted
<1>10. CASE /\ ok
            /\ Create(n)
            /\ table[n].id = 0
            /\ hand.op \in {"insert", "save"}
  <2>1. /\ nextId > 0 /\ nextId \in Nat /\ nextId' <= MaxId + 1 /\ ok
        /\ nextId >= nextId
    BY <1>3, <1>9, <1>10 DEF Create
  <2>2. table' = [table EXCEPT ![n] = [table[n] EXCEPT !.id = nextId]]
        /\ rows' = [rows EXCEPT ![Own][n] = [table[n] EXCEPT !.id = nextId]]
    BY <1>10 DEF Create
  <2> QED
    BY <1>5, <2>1, <2>2
<1>11. CASE Insert(ok)
  <2>1. CASE ok /\ ~Free(n)
    <3>1. table' = [table EXCEPT ![n] = [table[n] EXCEPT !.id = rows[Own][n].id]]
          /\ rows' = [rows EXCEPT ![Own][n] = [table EXCEPT ![n].id = rows[Own][n].id][n]]
          /\ nextId' = nextId
      BY <1>0, <1>11, <2>1 DEF Insert
    <3>2. [table EXCEPT ![n].id = rows[Own][n].id][n] =
            [table[n] EXCEPT !.id = rows[Own][n].id]
      BY <1>1 DEF IInv, Types
    <3> QED
      BY <1>3, <1>5, <1>9, <1>11, <2>1, <3>1, <3>2 DEF Insert, Free
  <2>2. CASE ~ok
    <3>1. dirty' /\ rows' = rows /\ nextId' = nextId /\ faults' # 0
      BY <1>0, <1>1, <1>11, <2>2 DEF Insert
    <3> QED
      BY <1>0, <1>6, <1>11, <2>2, <3>1 DEF Insert, Free
  <2> QED
    BY <1>0, <1>9, <1>10, <1>11, <2>1, <2>2 DEF Insert
<1>12. CASE Save(ok)
  <2>1. CASE ok /\ table[n].id # 0 /\ SaveById(n)
    <3>1. table[n] = [table[n] EXCEPT !.id = table[n].id]
      BY <1>1
    <3>2. table' = [table EXCEPT ![n] = table[n]] /\ nextId' = nextId
      BY <1>1, <2>1 DEF SaveById, IInv, Types
    <3>3. CASE rows' = [rows EXCEPT ![Own][n] = table[n]]
      <4>1. /\ table[n].id > 0
            /\ table[n].id \in Nat
            /\ ok
            /\ nextId' <= MaxId + 1
        BY <1>3, <1>9, <1>12, <2>1, <3>2 DEF Save
      <4>2. /\ table' = [table EXCEPT ![n] = [table[n] EXCEPT !.id = table[n].id]]
            /\ rows' = [rows EXCEPT ![Own][n] = [table[n] EXCEPT !.id = table[n].id]]
        BY <3>1, <3>2, <3>3
      <4> QED
        BY <1>5, <4>1, <4>2
    <3>4. CASE rows' = rows /\ ~(Free(n) \/ rows[Own][n].id = table[n].id)
      <4>1. dirty /\ table' = table
        BY <1>8, <1>12, <2>1, <3>4 DEF Save, SaveById
      <4> QED
        BY <1>1, <1>6, <3>2, <3>4, <4>1
    <3> QED
      BY <2>1, <3>3, <3>4 DEF SaveById
  <2>2. CASE ~ok /\ UNCHANGED <<table, rows, nextId>>
    BY <1>1, <1>6, <2>2
  <2>3. CASE /\ ok
             /\ table[n].id = 0
             /\ ~Free(n)
             /\ UNCHANGED <<table, rows, nextId>>
    <3>1. dirty
      BY <1>3, <1>8, <1>12, <2>3 DEF Save, Free
    <3> QED
      BY <1>1, <1>6, <2>3, <3>1
  <2> QED
    BY <1>0, <1>10, <1>12, <2>1, <2>2, <2>3 DEF Save
<1> QED
  BY <1>11, <1>12


LEMMA JReload ==
  ASSUME IInv, IInv', JInv, NEW found \in BOOLEAN, Reload(found) PROVE JInv'
<1> DEFINE listed == {n \in Names : found /\ ~Free(n)}
<1>1. /\ hand = Idle /\ up /\ hand'.op = "reload" /\ hand'.name = None
      /\ hand'.todo = {n \in Names : table[n] # None} \ listed
      /\ UNCHANGED <<up, rows, nextId, acked, unsure, edits, crashes>>
      /\ faults' \in 0..MaxFaults /\ (faults' = 0 => faults = 0 /\ found)
      /\ dirty' = (~found \/ Stale')
  BY DEF Reload, Handler, Access, IInv, Types
<1>2. Pending = {} /\ Pending' = {n \in Names : table[n] # None} \ listed
  BY <1>1, PendingIdle DEF Pending
<1>3. \A n \in Names : n \notin listed => table'[n] = table[n]
  BY DEF Reload
<1>4. \A n \in Names : n \in listed =>
        /\ rows[Own][n] # None /\ table'[n] # None
        /\ table'[n].id = IF table[n] = None THEN rows[Own][n].id ELSE table[n].id
        /\ table'[n].auto = rows[Own][n].auto /\ ~table'[n].env
  <2> SUFFICES ASSUME NEW n \in Names, n \in listed
               PROVE  /\ rows[Own][n] # None /\ table'[n] # None
                      /\ table'[n].id =
                           IF table[n] = None THEN rows[Own][n].id ELSE table[n].id
                      /\ table'[n].auto = rows[Own][n].auto /\ ~table'[n].env
    OBVIOUS
  <2>1. /\ Load(n) \in Records /\ Load(n).id = rows[Own][n].id
        /\ Load(n).auto = rows[Own][n].auto /\ ~Load(n).env
    BY Loaded DEF IInv
  <2>2. table'[n] = IF table[n] = None THEN Load(n)
                    ELSE [Load(n) EXCEPT !.id = table[n].id]
    BY DEF Reload
  <2>3. CASE table[n] = None
    BY <2>1, <2>2, <2>3, Known2 DEF Free
  <2>4. CASE table[n] # None
    <3>1. \A i \in Nat : /\ [Load(n) EXCEPT !.id = i] \in Records
                         /\ [Load(n) EXCEPT !.id = i].id = i
                         /\ [Load(n) EXCEPT !.id = i].auto = Load(n).auto
                         /\ [Load(n) EXCEPT !.id = i].env = Load(n).env
      BY <2>1
    <3>2. table[n].id \in Nat
      BY <2>4, Known2
    <3> QED
      BY <2>1, <2>2, <2>4, <3>1, <3>2, Known2 DEF Free
  <2> QED
    BY <2>3, <2>4
<1>5. dirty' \in BOOLEAN
  BY <1>1 DEF Stale
<1>6. Counted'
  BY <1>1, <1>2, <1>3, <1>5 DEF JInv, Counted
<1>7. Named'
  <2> SUFFICES ASSUME NEW k \in Names, NEW m \in Names, k # m
               PROVE  /\ rows[Own][k] # None /\ table'[m] # None =>
                           table'[m].id # rows[Own][k].id
                      /\ table'[k] # None /\ table'[m] # None =>
                           table'[k].id = 0 \/ table'[k].id # table'[m].id
    BY <1>1 DEF JInv, Named
  <2>1. ASSUME NEW a \in Names, NEW b \in Names, a # b
        PROVE  /\ rows[Own][a] # None =>
                    /\ rows[Own][b] # None => rows[Own][b].id # rows[Own][a].id
                    /\ table[b] # None => table[b].id # rows[Own][a].id
               /\ table[a] # None /\ table[b] # None =>
                    table[a].id = 0 \/ table[a].id # table[b].id
    BY <2>1 DEF JInv, Named
  <2>2. \A a \in Names : table'[a] # None =>
          \/ table[a] # None /\ table'[a].id = table[a].id
          \/ rows[Own][a] # None /\ table'[a].id = rows[Own][a].id
    BY <1>3, <1>4
  <2> QED
    BY <2>1, <2>2
<1>8. Synced'
  <2> SUFFICES ASSUME ~dirty'
               PROVE  /\ \A n \in Names \ Pending' : Same(n)'
                      /\ \A n \in hand'.todo :
                           /\ table'[n].id # 0
                           /\ ~Free(n) => rows[Own][n].id = table'[n].id
    BY <1>1 DEF Synced, Free
  <2>1. found /\ \A n \in Names : table'[n] # None =>
          table'[n].id # 0 /\ (rows[Own][n] # None => rows[Own][n].id = table'[n].id)
    BY <1>1 DEF Stale, Free
  <2>2. \A n \in hand'.todo : n \in Names /\ table'[n] # None
    BY <1>1, <1>3
  <2>3. ASSUME NEW n \in Names \ Pending' PROVE Same(n)'
    BY <1>1, <1>2, <1>3, <1>4, <2>1 DEF Same, Free
  <2> QED
    BY <2>1, <2>2, <2>3 DEF Free
<1>9. Answered'
  <2> SUFFICES ASSUME faults' = 0, edits = 0
               PROVE  /\ ~dirty' /\ Pending' = {}
                      /\ \A n \in Names \ unsure :
                           As(rows[Own][n], acked[n]) /\ As(table'[n], acked[n])
    BY <1>1, <1>2 DEF Answered
  <2>1. /\ found /\ ~dirty
        /\ \A n \in Names \ unsure : As(rows[Own][n], acked[n])
    BY <1>1, <1>2 DEF JInv, Answered
  <2>2. \A n \in Names : Same(n)
    BY <1>1, <1>2, <2>1 DEF JInv, Synced
  <2>3. \A n \in Names : table[n] # None => n \in listed
    BY <2>1, <2>2 DEF Same
  <2>4. Pending' = {}
    BY <1>2, <2>3
  <2>5. \A n \in Names : /\ (table'[n] = None) = (rows[Own][n] = None)
                         /\ table'[n] # None => /\ table'[n].id = rows[Own][n].id
                                                /\ table'[n].auto = rows[Own][n].auto
                                                /\ ~table'[n].env
    BY <1>3, <1>4, <2>1, <2>2 DEF Same, Free
  <2>6. ~Stale'
    <3>1. \A n \in Names : rows[Own][n] # None => rows[Own][n].id # 0
      BY Known2
    <3> QED
      BY <1>1, <2>5, <3>1 DEF Stale, Free
  <2> QED
    BY <1>1, <2>1, <2>4, <2>5, <2>6 DEF As, Alike
<1> QED
  BY <1>6, <1>7, <1>8, <1>9 DEF JInv

LEMMA JRemove ==
  ASSUME IInv, IInv', JInv, NEW n \in Names, NEW ok \in BOOLEAN, RemoveRow(n, ok)
  PROVE  JInv'
<1>1. /\ up /\ n \in hand.todo /\ hand.name = None /\ table[n] # None
      /\ UNCHANGED <<up, table, nextId, acked, unsure, edits, crashes>>
      /\ faults' \in 0..MaxFaults /\ (faults' = 0 => faults = 0 /\ ok)
      /\ dirty' = (dirty \/ ~ok \/ table[n].id = 0) /\ dirty' \in BOOLEAN
      /\ hand.op \in {"delete", "reload"}
  BY DEF RemoveRow, Access, IInv, Types, Held, JInv, Counted
<1>2. Pending = hand.todo
  BY <1>1 DEF Pending
<1>3. \/ /\ hand'.op = hand.op /\ hand'.name = n
         /\ hand'.todo = hand.todo \ {n}
         /\ Pending' = Pending
      \/ /\ ~ok /\ hand' = Idle /\ Pending' = {}
         /\ hand'.op = "idle" /\ hand'.todo = {} /\ hand'.name = None
  <2>1. CASE hand' = [hand EXCEPT !.name = n, !.todo = @ \ {n}]
    <3>1. hand'.op = hand.op /\ hand'.name = n /\ hand'.todo = hand.todo \ {n}
      BY <2>1 DEF IInv, Types
    <3> QED
      BY <1>1, <1>2, <3>1, RegistryAssumption DEF Pending
  <2>2. CASE ~ok /\ hand' = Idle
    BY <2>2 DEF Pending, Idle
  <2> QED
    BY <2>1, <2>2 DEF RemoveRow
<1>4. \A m \in Names :
        /\ rows'[Own][m] = None \/ rows'[Own][m] = rows[Own][m]
        /\ ok /\ table[n].id # 0 =>
             rows'[Own][m] = IF rows[Own][m] = None \/ rows[Own][m].id = table[n].id
                             THEN None ELSE rows[Own][m]
  <2>1. CASE ok
    <3>1. \A m \in Names : rows'[Own][m] =
            IF table[n].id = 0 \/ rows[Own][m] = None \/ rows[Own][m].id = table[n].id
            THEN None ELSE rows[Own][m]
      BY <2>1, RegistryAssumption DEF RemoveRow, Without
    <3> QED
      BY <3>1
  <2>2. CASE ~ok
    BY <2>2 DEF RemoveRow
  <2> QED
    BY <2>1, <2>2
<1>5. ok /\ table[n].id # 0 =>
        \A m \in Names \ {n} : rows'[Own][m] = rows[Own][m]
  BY <1>1, <1>4 DEF JInv, Named
<1>6. Counted'
  BY <1>1, <1>2, <1>3 DEF JInv, Counted
<1>7. Named'
  BY <1>1, <1>4 DEF JInv, Named
<1>8. ~dirty => table[n].id # 0 /\ (~Free(n) => rows[Own][n].id = table[n].id)
  BY <1>1 DEF JInv, Synced
<1>9. Synced'
  <2> SUFFICES ASSUME ~dirty' PROVE Synced'
    BY DEF Synced
  <2>1. ok /\ ~dirty /\ table[n].id # 0
    BY <1>1
  <2>2. rows'[Own][n] = None
    BY <1>4, <1>8, <2>1 DEF Free
  <2>3. /\ hand'.op = hand.op /\ hand'.name = n /\ hand'.todo = hand.todo \ {n}
        /\ Pending' = Pending
    BY <1>3, <2>1
  <2>4. \A m \in Names \ {n} : rows'[Own][m] = rows[Own][m]
    BY <1>5, <2>1
  <2>5. \A m \in Names \ Pending' : Same(m)'
    <3> SUFFICES ASSUME NEW m \in Names, m \notin Pending PROVE Same(m)'
      BY <2>3
    <3>1. m # n /\ Same(m)
      BY <1>1, <1>2, <2>1 DEF JInv, Synced
    <3> QED
      BY <1>1, <2>4, <3>1 DEF Same, Free
  <2>6. \A m \in hand'.todo : m \in Names \ {n} /\ m \in hand.todo
    BY <2>3 DEF IInv, Types
  <2>7. \A m \in hand'.todo :
          table'[m].id # 0 /\ (~Free(m)' => rows'[Own][m].id = table'[m].id)
    BY <1>1, <2>1, <2>4, <2>6 DEF JInv, Synced, Free
  <2> QED
    BY <1>1, <2>2, <2>3, <2>5, <2>7 DEF Synced, Free
<1>10. Answered'
  <2> SUFFICES ASSUME faults' = 0, edits = 0
               PROVE  /\ ~dirty' /\ hand'.op # "reload"
                      /\ \A m \in Names \ (unsure \cup Pending') :
                           As(rows'[Own][m], acked[m]) /\ As(table[m], acked[m])
    BY <1>1 DEF Answered
  <2>1. /\ ok /\ ~dirty /\ hand.op # "reload"
        /\ \A m \in Names \ (unsure \cup Pending) :
             As(rows[Own][m], acked[m]) /\ As(table[m], acked[m])
    BY <1>1, <1>2 DEF JInv, Answered
  <2> QED
    BY <1>1, <1>2, <1>3, <1>5, <1>8, <2>1
<1> QED
  BY <1>6, <1>7, <1>9, <1>10 DEF JInv

LEMMA JErase ==
  ASSUME IInv, IInv', JInv, Erase PROVE JInv'
<1>1. PICK n \in Names : n = hand.name
  BY DEF Erase, IInv, Types
<1>2. /\ up
      /\ hand.op \in {"delete", "reload"}
      /\ n # None
      /\ n \notin hand.todo
      /\ UNCHANGED <<up, rows, nextId, faults, edits, crashes, dirty>>
      /\ table'[n] = None /\ \A m \in Names \ {n} : table'[m] = table[m]
  BY <1>1 DEF Erase, bounds, IInv, Types, Held
<1>3. n \in Pending /\ Pending = hand.todo \cup {n}
  BY <1>1, <1>2 DEF Pending
<1>4. up /\ ~dirty => rows[Own][n] = None
  BY <1>1, <1>2 DEF JInv, Synced, Free
<1>5. Named'
  BY <1>2, NamedOne DEF JInv
<1>6. CASE hand.op = "delete"
  <2>1. /\ hand' = Idle /\ acked' = [acked EXCEPT ![n] = None]
        /\ unsure' = unsure \ {n}
    BY <1>1, <1>6 DEF Erase, Answer
  <2>2. Pending \subseteq {n}
    BY <1>3, <1>6 DEF JInv, Counted
  <2>3. /\ acked' \in [Names -> Programs \cup {None}] /\ acked'[n] = None
        /\ \A m \in Names \ {n} : acked'[m] = acked[m]
    BY <2>1 DEF JInv, Counted
  <2>4. ~dirty => Same(n)' /\ As(rows'[Own][n], acked'[n]) /\ As(table'[n], acked'[n])
    BY <1>2, <1>4, <2>3 DEF Same, Free, As, Alike
  <2>5. faults' \in 0..MaxFaults /\ dirty' \in BOOLEAN /\ nextId' <= MaxId + 1
    BY <1>2 DEF JInv, Counted
  <2> QED
    BY <1>2, <1>5, <2>1, <2>2, <2>3, <2>4, <2>5, JAnswer
<1>7. CASE hand.op = "reload"
  <2>1. /\ hand'.op = "reload" /\ hand'.name = None /\ hand'.todo = hand.todo
        /\ UNCHANGED <<acked, unsure>>
    BY <1>7 DEF Erase, IInv, Types
  <2>2. Pending' = hand.todo
    BY <2>1 DEF Pending
  <2>3. Counted'
    <3>1. \A m \in hand.todo : m \in Names \ {n} /\ m \in Pending
      BY <1>2, <1>3 DEF IInv, Types
    <3>2. \A m \in Pending' : table'[m] # None
      BY <1>2, <2>2, <3>1 DEF JInv, Counted
    <3> QED
      BY <1>2, <2>1, <3>2 DEF JInv, Counted
  <2>4. Synced'
    <3> SUFFICES ASSUME ~dirty
                 PROVE  /\ \A m \in Names \ hand.todo : Same(m)'
                        /\ \A m \in hand.todo :
                             /\ table'[m].id # 0
                             /\ ~Free(m) => rows[Own][m].id = table'[m].id
      BY <1>2, <2>1, <2>2 DEF Synced, Free
    <3>1. Same(n)'
      BY <1>2, <1>4 DEF Same, Free
    <3>2. \A m \in Names \ Pending : Same(m)'
      BY <1>2, <1>3 DEF JInv, Synced, Same, Free
    <3>3. \A m \in hand.todo : m \in Names \ {n}
      BY <1>2 DEF IInv, Types
    <3> QED
      BY <1>2, <1>3, <3>1, <3>2, <3>3 DEF JInv, Synced
  <2>5. Answered'
    BY <1>2, <1>3, <1>7 DEF JInv, Answered
  <2> QED
    BY <1>5, <2>3, <2>4, <2>5 DEF JInv
<1> QED
  BY <1>2, <1>6, <1>7

LEMMA JEnd ==
  ASSUME IInv, JInv, ReloadEnd PROVE JInv'
<1>1. /\ hand' = Idle /\ hand.op = "reload" /\ Pending = {}
      /\ UNCHANGED <<up, table, rows, nextId, faults, edits, crashes, acked,
                     unsure, dirty>>
  BY DEF ReloadEnd, Pending, bounds
<1>2. /\ Pending' = {}
      /\ hand'.op = "idle"
      /\ hand'.todo = {}
      /\ hand'.name = None
  BY <1>1 DEF Pending, Idle
<1>3. Counted' /\ Named' /\ Synced' /\ Answered'
  BY <1>1, <1>2 DEF JInv, Counted, Named, Synced, Answered, Same, Free
<1> QED
  BY <1>3 DEF JInv

LEMMA RegistryJStep == IInv /\ JInv /\ [Next]_vars => JInv'
<1> SUFFICES ASSUME IInv, JInv, [Next]_vars PROVE JInv'
  OBVIOUS
<1>1. IInv'
  BY RegistryStep
<1>2. CASE UNCHANGED vars
  <2>1. Pending' = Pending
    BY <1>2 DEF Pending, vars
  <2> QED
    BY <1>2, <2>1
       DEF vars, bounds, JInv, Counted, Named, Synced, Answered, Same, Free
<1>3. CASE Next
  BY <1>1, <1>3, JStart, JWrite, JReload, JCrash, JErase, JEnd, JDelete, JEdit,
     JAsk, JRemove DEF Next
<1> QED
  BY <1>2, <1>3

LEMMA RegistryInvariant == Spec => [](IInv /\ JInv)
<1>1. Init => IInv /\ JInv
  BY RegistryInit, RegistryJInit
<1>2. IInv /\ JInv /\ [Next]_vars => (IInv /\ JInv)'
  BY RegistryStep, RegistryJStep
<1> QED
  BY <1>1, <1>2, PTL DEF Spec

\* The types, with the bounds, and that a handler writes and removes only what
\* is in the map (so no handler reads a program that is not there).
THEOREM RegistryTypes == Spec => []TypeOK
<1>1. IInv /\ JInv => TypeOK
  <2> SUFFICES ASSUME IInv, JInv PROVE TypeOK
    OBVIOUS
  <2>1. nextId \in 1..MaxId + 1
    BY Limits DEF IInv, Types, JInv, Counted
  <2>2. \A r \in Records : r.id < nextId => r \in Programs
    BY <2>1, Limits DEF Programs
  <2>3. table \in [Names -> Programs \cup {None}]
    <3>1. \A n \in Names : table[n] \in Programs \cup {None}
      <4>1. \A r \in Records : r.id = 0 => r \in Programs
        BY Limits DEF Programs
      <4> QED
        BY <2>2, <4>1, Known2
    <3> QED
      BY <3>1 DEF IInv, Types
  <2>4. \A h \in Hosts, n \in Names :
          /\ rows[h][n] \in Programs \cup {None}
          /\ rows[h][n] # None => rows[h][n].id \in 1..nextId - 1
    <3> SUFFICES ASSUME NEW h \in Hosts, NEW n \in Names, rows[h][n] # None
                 PROVE  rows[h][n] \in Programs /\ rows[h][n].id \in 1..nextId - 1
      OBVIOUS
    <3>1. rows[h][n] \in Records
      BY DEF IInv, Types
    <3>2. rows[h][n].id > 0 /\ rows[h][n].id < nextId
      BY DEF IInv, Given
    <3> QED
      BY <2>1, <2>2, <3>1, <3>2, Limits
  <2>5. rows \in [Hosts -> [Names -> Programs \cup {None}]]
    <3>1. \A h \in Hosts : rows[h] \in [Names -> Programs \cup {None}]
      BY <2>4 DEF IInv, Types
    <3> QED
      BY <3>1 DEF IInv, Types
  <2> QED
    BY <2>1, <2>3, <2>4, <2>5 DEF TypeOK, IInv, Types, JInv, Counted, Pending
<1> QED
  BY <1>1, RegistryInvariant, PTL

\* For any number of hosts, names, restarts, edits and failures: while nothing
\* failed since the last load, the map and the rows agree between handlers.
THEOREM InStepAlways == Spec => []InStep
<1>1. IInv /\ JInv => InStep
  <2> SUFFICES ASSUME IInv, JInv, up, hand = Idle, ~dirty
               PROVE  ~Stale /\ \A n \in Names : Alike(table[n], rows[Own][n])
    BY DEF InStep
  <2>1. \A n \in Names : Same(n)
    BY PendingIdle DEF JInv, Synced
  <2>2. \A n \in Names : rows[Own][n] # None => rows[Own][n].id # 0
    BY Known2
  <2> QED
    BY <2>1, <2>2 DEF Same, Free, Stale, Alike
<1> QED
  BY <1>1, RegistryInvariant, PTL

\* What the handlers answered is what the map holds, across any number of
\* crashes and reloads, while nothing failed and nobody edited the rows.
THEOREM RememberedAlways == Spec => []Remembered
<1>1. IInv /\ JInv => Remembered
  BY PendingIdle DEF JInv, Answered, As, Remembered
<1> QED
  BY <1>1, RegistryInvariant, PTL
=============================================================================
