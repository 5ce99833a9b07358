------------------------------ MODULE Enrichment ------------------------------
(* Upserts of agents and submolts by concurrent handlers: partial payloads    *)
(* merged into rows that are found by id and whose names are unique.  Agents  *)
(* and submolts are stored alike; a name stands for one of either.            *)
(*                                                                            *)
(* A row written by an open transaction is locked: another upsert of its id,  *)
(* or an insert of its name, waits until that transaction has ended.          *)
EXTENDS Naturals, Sequences, FiniteSets

CONSTANTS Handlers, \* the workers' handlers
          Names,    \* names of agents and submolts
          None      \* no row; a column that is null

VARIABLES table, \* table[n]: the committed row of name n, or None
          tx     \* tx[h]: the handler's transaction, or NoTx

\* id: what the payload carries as id, or a hash of the name if it has none.
Id == {"real", "synthetic"}
Info == {None, "known"}
\* raw: whether raw_json is that of a stub or of the entity's own endpoint.
Row == [id : Id, info : Info, raw : {"stub", "full"}]
Payload == [name : Names, id : Id, info : Info, raw : {"stub", "full"}]

\* An author or a submolt inside another object; the entity's own endpoint.
Stub(name, id, info) ==
    [name |-> name, id |-> id, info |-> info, raw |-> "stub"]
Detail(name, id, info) ==
    [name |-> name, id |-> id, info |-> info, raw |-> "full"]

\* todo: the payloads to upsert; rows: what the transaction has written.
NoTx == [open |-> FALSE, todo |-> <<>>, rows |-> [n \in Names |-> None]]

Init == /\ table = [n \in Names |-> None]
        /\ tx = [h \in Handlers |-> NoTx]

-----------------------------------------------------------------------------
Todo(h) == Head(tx[h].todo)

Writing(h) == tx[h].open /\ tx[h].todo # <<>>

Locked(h, n) == {g \in Handlers \ {h} : tx[g].rows[n] # None}

WaitsFor(h) == IF Writing(h) THEN Locked(h, Todo(h).name) ELSE {}

Deadlocked(h) == \E D \in SUBSET Handlers :
                   h \in D /\ \A g \in D : WaitsFor(g) \cap D # {}

\* The row of name n as h's next statement finds it.
Found(h, n) == IF tx[h].rows[n] # None THEN tx[h].rows[n] ELSE table[n]

\* Variant: a stub replaces what is known.
MergedBlindly(row, p) ==
    IF row = None THEN [id |-> p.id, info |-> p.info, raw |-> p.raw]
    ELSE [row EXCEPT !.info = p.info,
                     !.raw = IF p.raw = "full" THEN "full" ELSE @]

\* Insert, or COALESCE(excluded.c, c) for every column; raw_json is replaced
\* only by an authoritative payload.
Merged(row, p) ==
    IF row = None THEN [id |-> p.id, info |-> p.info, raw |-> p.raw]
    ELSE [row EXCEPT !.info = IF p.info # None THEN p.info ELSE @,
                     !.raw = IF p.raw = "full" THEN "full" ELSE @]

\* The name is taken by a row of another id: the unique index refuses.
Clashes(h) == LET row == Found(h, Todo(h).name)
              IN  row # None /\ row.id # Todo(h).id

\* An answer has arrived.
Open(h, answer) == /\ ~tx[h].open
                   /\ tx' = [tx EXCEPT ![h] = [NoTx EXCEPT !.open = TRUE,
                                                           !.todo = answer]]
                   /\ UNCHANGED table

Upsert(h) ==
    /\ Writing(h) /\ WaitsFor(h) = {} /\ ~Clashes(h)
    /\ LET p == Todo(h)
       IN  tx' = [tx EXCEPT
             ![h].todo = Tail(@),
             ![h].rows[p.name] = Merged(Found(h, p.name), p)]
    /\ UNCHANGED table

Rollback(h) == tx' = [tx EXCEPT ![h] = NoTx] /\ UNCHANGED table

\* IntegrityError: the handler raises.
Clash(h) == Writing(h) /\ WaitsFor(h) = {} /\ Clashes(h) /\ Rollback(h)

DeadlockAbort(h) == Deadlocked(h) /\ Rollback(h)

\* Any other failure: of a statement, of the connection, of the handler.
Fail(h) == tx[h].open /\ Rollback(h)

Commit(h) ==
    /\ tx[h].open /\ tx[h].todo = <<>>
    /\ table' = [n \in Names |->
         IF tx[h].rows[n] # None THEN tx[h].rows[n] ELSE table[n]]
    /\ tx' = [tx EXCEPT ![h] = NoTx]

Restart == tx' = [h \in Handlers |-> NoTx] /\ UNCHANGED table

TypeOK ==
    /\ table \in [Names -> Row \cup {None}]
    /\ \A h \in Handlers :
         /\ tx[h].open \in BOOLEAN
         /\ tx[h].rows \in [Names -> Row \cup {None}]
         /\ \A i \in 1 .. Len(tx[h].todo) : tx[h].todo[i] \in Payload
===============================================================================
