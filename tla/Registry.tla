------------------------------- MODULE Registry -------------------------------
(***************************************************************************)
(* The programs of a Supervisor (name2Program) beside their rows in the    *)
(* database (supervisor.go), under the handlers of web_api.go, which hold  *)
(* namesMu and so follow each other.  A handler changes the map and the    *)
(* database one after the other; gosuv may end in between, an access may   *)
(* fail, and an administrator may edit the rows.                           *)
(*                                                                         *)
(* Of the fields of a program two are kept: StartAuto, and Environ, which  *)
(* is in the row as text and is never read back (Decode is not called).    *)
(***************************************************************************)
EXTENDS Naturals, FiniteSets

CONSTANTS
  Names,      \* the names of programs
  Own, Hosts, \* this host, and all that share the table of the database
  None,       \* no program, no row
  MaxId, MaxFaults, MaxEdits, MaxCrashes  \* bounds

ASSUME RegistryAssumption ==
  /\ IsFiniteSet(Hosts) /\ IsFiniteSet(Names) /\ Own \in Hosts
  /\ None \notin Names /\ None \notin [id : Nat, auto : BOOLEAN, env : BOOLEAN]
  /\ {MaxId, MaxFaults, MaxEdits, MaxCrashes} \subseteq Nat
  /\ MaxId >= Cardinality(Hosts) * Cardinality(Names)

VARIABLES
  up,      \* gosuv runs
  table,   \* name2Program: name -> what the handlers know of the program
  rows,    \* host -> name -> its row (host and name are a unique key)
  nextId,  \* AUTO_INCREMENT
  hand,    \* the handler that holds namesMu, and what it has still to do
  faults, edits, crashes,  \* how often each came
  acked,   \* history: name -> what the last request for it asked
  unsure,  \* history: names whose request was under way in a crash
  dirty    \* history: something failed, or was edited, since the last load

bounds == <<faults, edits, crashes>>
vars == <<up, table, rows, nextId, hand, bounds, acked, unsure, dirty>>

Programs == [id : 0..MaxId, auto : BOOLEAN, env : BOOLEAN]

Idle == [op |-> "idle", name |-> None, todo |-> {}]

\* Types; the program whose row a handler writes or deletes is in the map, and
\* every row has its id from the counter.
TypeOK ==
  /\ up \in BOOLEAN
  /\ table \in [Names -> Programs \cup {None}]
  /\ rows \in [Hosts -> [Names -> Programs \cup {None}]]
  /\ \A h \in Hosts, n \in Names : rows[h][n] # None => rows[h][n].id \in 1..nextId - 1
  /\ nextId \in 1..MaxId + 1
  /\ hand \in [op : {"idle", "insert", "save", "delete", "reload"},
               name : Names \cup {None}, todo : SUBSET Names]
  /\ \A n \in hand.todo \cup ({hand.name} \ {None}) : table[n] # None
  /\ faults \in 0..MaxFaults /\ edits \in 0..MaxEdits /\ crashes \in 0..MaxCrashes
  /\ acked \in [Names -> Programs \cup {None}]
  /\ unsure \subseteq Names /\ dirty \in BOOLEAN

Nothing == [n \in Names |-> None]

OtherRows == (Hosts \ {Own}) \X Names

\* The other hosts have a program of every name; this one has none yet.
Init ==
  /\ up = FALSE /\ table = Nothing /\ hand = Idle
  /\ \E ids \in [OtherRows -> 1..Cardinality(OtherRows)] :
       /\ \A a, b \in OtherRows : ids[a] = ids[b] => a = b
       /\ rows = [h \in Hosts |-> [n \in Names |->
                    IF h = Own THEN None
                    ELSE [id |-> ids[<<h, n>>], auto |-> TRUE, env |-> FALSE]]]
  /\ nextId = Cardinality(OtherRows) + 1
  /\ faults = 0 /\ edits = 0 /\ crashes = 0
  /\ acked = Nothing /\ unsure = {} /\ dirty = FALSE

-----------------------------------------------------------------------------
(* The database (gorm, with a table that other hosts share)               *)

\* An access succeeds or fails, as often as the bound allows.
Access(ok) ==
  /\ faults' = faults + (IF ok THEN 0 ELSE 1)
  /\ faults' <= MaxFaults
  /\ UNCHANGED <<edits, crashes>>

Free(n) == rows[Own][n] = None

\* Mutant: the program does not learn its id.
CreateOnly(n) ==
  /\ nextId' = nextId + 1
  /\ rows' = [rows EXCEPT ![Own][n] = [table[n] EXCEPT !.id = nextId]]
  /\ table' = table

\* db.Create: the row gets the next id and the program keeps it.
Create(n) ==
  /\ nextId' = nextId + 1
  /\ rows' = [rows EXCEPT ![Own][n] = [table[n] EXCEPT !.id = nextId]]
  /\ table' = [table EXCEPT ![n].id = nextId]

\* db.Save of a program with an id: the row with that id, or a new one with
\* it, which the unique key refuses if the name has another row.
SaveById(n) ==
  /\ rows' = IF Free(n) \/ rows[Own][n].id = table[n].id
             THEN [rows EXCEPT ![Own][n] = table[n]] ELSE rows
  /\ UNCHANGED <<nextId, table>>

\* db.Delete: by id, and without an id every row of the table.
Without(id) ==
  [h \in Hosts |-> [n \in Names |->
     IF id = 0 \/ rows[h][n] = None \/ rows[h][n].id = id THEN None
     ELSE rows[h][n]]]

\* An id in the map is not that of the row.
Stale ==
  \E n \in Names :
    /\ table[n] # None
    /\ table[n].id = 0 \/ (~Free(n) /\ rows[Own][n].id # table[n].id)

\* A row as a Program: Environ stays empty.
Load(n) == [rows[Own][n] EXCEPT !.env = FALSE]

-----------------------------------------------------------------------------
(* gosuv starts and ends                                                  *)

\* The error of the query is ignored: without rows no program is loaded.
Start(found) ==
  /\ ~up /\ up' = TRUE
  /\ Access(found)
  /\ table' = [n \in Names |-> IF found /\ ~Free(n) THEN Load(n) ELSE None]
  /\ dirty' = ~found
  /\ UNCHANGED <<rows, nextId, hand, acked, unsure>>

\* gosuv ends, whatever the handler was about to do.
Crash ==
  /\ up /\ up' = FALSE
  /\ crashes < MaxCrashes /\ crashes' = crashes + 1
  /\ table' = Nothing /\ hand' = Idle
  /\ unsure' = unsure \cup hand.todo \cup ({hand.name} \ {None})
  /\ UNCHANGED <<rows, nextId, faults, edits, acked, dirty>>

\* An administrator changes, inserts or deletes a row of this host.
EditRow(n, auto) ==
  /\ edits < MaxEdits /\ edits' = edits + 1
  /\ \/ ~Free(n) /\ rows' = [rows EXCEPT ![Own][n].auto = auto] /\ nextId' = nextId
     \/ ~Free(n) /\ rows' = [rows EXCEPT ![Own][n] = None] /\ nextId' = nextId
     \/ /\ Free(n) /\ nextId < MaxId /\ nextId' = nextId + 1
        /\ rows' = [rows EXCEPT ![Own][n] = [id |-> nextId, auto |-> auto, env |-> FALSE]]
  /\ dirty' = TRUE
  /\ UNCHANGED <<up, table, hand, faults, crashes, acked, unsure>>

-----------------------------------------------------------------------------
(* The handlers: first the map, then the row                              *)

Handler(op, name, todo) ==
  /\ up /\ hand = Idle
  /\ hand' = [op |-> op, name |-> name, todo |-> todo]

\* A row for n has an id left (a bound).
Room(n) == nextId <= MaxId \/ (table[n] # None /\ table[n].id # 0)

\* hAddProgram (a new name, no Environ), hUpdateProgram (a new name or a known
\* one).  A new program has no id yet; an old one keeps its own.
AddOrUpdate(n, auto, env) ==
  /\ Room(n)
  /\ Handler(IF table[n] = None THEN "insert" ELSE "save", n, {})
  /\ table' = [table EXCEPT ![n] =
       [id |-> IF table[n] = None THEN 0 ELSE table[n].id, auto |-> auto, env |-> env]]
  /\ UNCHANGED <<up, rows, nextId, bounds, acked, unsure, dirty>>

\* hStartProgram, hStopProgram: the choice is remembered.
Mark(n, auto) ==
  /\ table[n] # None /\ Room(n)
  /\ Handler("save", n, {})
  /\ table' = [table EXCEPT ![n].auto = auto]
  /\ UNCHANGED <<up, rows, nextId, bounds, acked, unsure, dirty>>

\* The request is done.
Answer(n, p) ==
  /\ hand' = Idle
  /\ acked' = [acked EXCEPT ![n] = p]
  /\ unsure' = unsure \ {n}

\* dbInsertProgram: a new row, or the one that the name already has.  After a
\* failure the program may have no id, and only a log tells.
Insert(ok) ==
  LET n == hand.name
      taken == [table EXCEPT ![n].id = rows[Own][n].id]
  IN /\ up /\ hand.op = "insert"
     /\ Access(ok)
     /\ \/ ok /\ Free(n) /\ Create(n)
        \/ /\ ok /\ ~Free(n) /\ table' = taken
           /\ rows' = [rows EXCEPT ![Own][n] = taken[n]] /\ nextId' = nextId
        \/ ~ok /\ UNCHANGED <<table, rows, nextId>>
        \/ ~ok /\ ~Free(n) /\ table' = taken /\ UNCHANGED <<rows, nextId>>
     /\ Answer(n, [table[n] EXCEPT !.id = 0])
     /\ dirty' = (dirty \/ ~ok)
     /\ UNCHANGED up

\* Mutant: the choice is remembered in the map alone.
SaveNot(ok) ==
  LET n == hand.name
  IN /\ up /\ hand.op = "save"
     /\ Access(ok)
     /\ Answer(n, [table[n] EXCEPT !.id = 0])
     /\ dirty' = (dirty \/ ~ok)
     /\ UNCHANGED <<up, table, rows, nextId>>

\* dbUpdateProgram.
Save(ok) ==
  LET n == hand.name
  IN /\ up /\ hand.op = "save"
     /\ Access(ok)
     /\ \/ ok /\ table[n].id # 0 /\ SaveById(n)
        \/ ok /\ table[n].id = 0 /\ Free(n) /\ Create(n)
        \/ ~ok /\ UNCHANGED <<table, rows, nextId>>
        \/ ok /\ table[n].id = 0 /\ ~Free(n) /\ UNCHANGED <<table, rows, nextId>>
     /\ Answer(n, [table[n] EXCEPT !.id = 0])
     /\ dirty' = (dirty \/ ~ok)
     /\ UNCHANGED up

\* hDelProgram.
Delete(n) ==
  /\ table[n] # None
  /\ Handler("delete", None, {n})
  /\ UNCHANGED <<up, table, rows, nextId, bounds, acked, unsure, dirty>>

\* Mutant: every name that is not listed is removed.
ReloadUnlisted(found) ==
  LET listed == {n \in Names : found /\ ~Free(n)}
  IN /\ Handler("reload", None, Names \ listed)
     /\ Access(found)
     /\ table' = [n \in Names |->
          IF n \notin listed THEN table[n]
          ELSE IF table[n] = None THEN Load(n)
          ELSE [Load(n) EXCEPT !.id = table[n].id]]
     /\ UNCHANGED <<up, rows, nextId, acked, unsure>>
     /\ dirty' = (~found \/ Stale')

\* hReload: the rows replace what the programs of the map have (but not the
\* ids); the programs without a row are to be removed, every program if the
\* query failed.
Reload(found) ==
  LET listed == {n \in Names : found /\ ~Free(n)}
  IN /\ Handler("reload", None, {n \in Names : table[n] # None} \ listed)
     /\ Access(found)
     /\ table' = [n \in Names |->
          IF n \notin listed THEN table[n]
          ELSE IF table[n] = None THEN Load(n)
          ELSE [Load(n) EXCEPT !.id = table[n].id]]
     /\ UNCHANGED <<up, rows, nextId, acked, unsure>>
     /\ dirty' = (~found \/ Stale')

\* Mutant: a program is removed from the map only.
RemoveRowNot(n, ok) ==
  /\ up /\ n \in hand.todo /\ hand.name = None
  /\ Access(ok)
  /\ hand' = [hand EXCEPT !.name = n, !.todo = @ \ {n}]
  /\ UNCHANGED <<up, table, rows, nextId, acked, unsure, dirty>>

\* dbRemoveProgram: a failed open panics and ends the handler, the error of
\* the statement is ignored.
RemoveRow(n, ok) ==
  /\ up /\ n \in hand.todo /\ hand.name = None
  /\ Access(ok)
  /\ rows' = IF ok THEN Without(table[n].id) ELSE rows
  /\ \/ hand' = [hand EXCEPT !.name = n, !.todo = @ \ {n}]
     \/ ~ok /\ hand' = Idle
  /\ dirty' = (dirty \/ ~ok \/ table[n].id = 0)
  /\ UNCHANGED <<up, table, nextId, acked, unsure>>

\* The rest of removeProgram, and the answer of a handler that has no more.
Erase ==
  LET n == hand.name
  IN /\ up /\ hand.op \in {"delete", "reload"} /\ n # None
     /\ table' = [table EXCEPT ![n] = None]
     /\ IF hand.op = "delete" THEN Answer(n, None)
        ELSE hand' = [hand EXCEPT !.name = None] /\ UNCHANGED <<acked, unsure>>
     /\ UNCHANGED <<up, rows, nextId, bounds, dirty>>

ReloadEnd ==
  /\ up /\ hand.op = "reload" /\ hand.name = None /\ hand.todo = {}
  /\ hand' = Idle
  /\ UNCHANGED <<up, table, rows, nextId, bounds, acked, unsure, dirty>>

Next ==
  \/ \E ok \in BOOLEAN : Start(ok) \/ Insert(ok) \/ Save(ok) \/ Reload(ok)
  \/ Crash \/ Erase \/ ReloadEnd
  \/ \E n \in Names :
       \/ Delete(n)
       \/ \E b \in BOOLEAN : EditRow(n, b) \/ Mark(n, b) \/ RemoveRow(n, b)
       \/ \E auto, env \in BOOLEAN : AddOrUpdate(n, auto, env)

Spec == Init /\ [][Next]_vars

-----------------------------------------------------------------------------
Alike(p, q) == (p = None) = (q = None) /\ (p # None => p.auto = q.auto)

\* Between two handlers the map and the rows of this host agree on the names,
\* on StartAuto and on the ids, from a load that left no id behind until an
\* access fails, an administrator edits a row, or a program without an id is
\* removed.
InStep ==
  up /\ hand = Idle /\ ~dirty =>
    /\ ~Stale
    /\ \A n \in Names : Alike(table[n], rows[Own][n])

\* Where nothing failed and nobody edited, the map holds what the last request
\* for each name asked, across restarts and reloads, but for the names whose
\* request was cut off.  Of Environ that is either what was asked or nothing.
Remembered ==
  up /\ hand = Idle /\ faults = 0 /\ edits = 0 =>
    \A n \in Names \ unsure :
      Alike(table[n], acked[n]) /\ (table[n] # None /\ table[n].env => acked[n].env)

\* As long as no access fails, whatever this host does, and whatever is edited
\* in its rows, the rows of the other hosts stay.
OthersStay ==
  [][faults' = 0 => \A h \in Hosts \ {Own} : rows'[h] = rows[h]]_vars
=============================================================================
