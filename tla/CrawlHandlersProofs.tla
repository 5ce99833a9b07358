------------------------- MODULE CrawlHandlersProofs -------------------------
(* Theorems about CrawlHandlers, for any number of handlers, slots, retries   *)
(* and names, and whatever the API answers.                                   *)
EXTENDS CrawlHandlers, FiniteSetTheorems, TLAPS

-----------------------------------------------------------------------------
(* The client.                                                               *)

Holders == {h \in Handlers : call[h].at \in {"limiter", "flight"}}

\* Only a request in flight or a finished call may have used its last try.
TriesLeft == \A h \in Handlers : /\ call[h].at = "idle" => call[h].tries = 0
                                 /\ call[h].at # "flight" => call[h].tries < MaxTries

ClientInv == ClientTypeOK /\ SlotsConserved /\ TriesLeft

LEMMA HoldersFinite ==
    ASSUME NEW S, S \subseteq Handlers
    PROVE  IsFiniteSet(S) /\ Cardinality(S) \in Nat
BY ClientAssumption, FS_Subset, FS_CardinalityType

LEMMA HalvedType ==
    ASSUME NEW r \in 0 .. MaxRate
    PROVE  Halved(r) \in 0 .. MaxRate
BY ClientAssumption DEF Halved

LEMMA ClientStart == ClientInit => ClientInv
<1> SUFFICES ASSUME ClientInit PROVE ClientInv
    OBVIOUS
<1>1. \A h \in Handlers : call[h].at = "idle" /\ call[h].tries = 0
    BY DEF ClientInit, NoCall
<1>2. ClientTypeOK
    BY ClientAssumption DEF ClientInit, NoCall, ClientTypeOK
<1>3. {h \in Handlers : call[h].at \in {"limiter", "flight"}} = {}
    BY <1>1
<1>4. SlotsConserved
    BY <1>3, FS_EmptySet, ClientAssumption DEF SlotsConserved, ClientInit
<1> QED BY <1>1, <1>2, <1>4, ClientAssumption DEF ClientInv, TriesLeft

Calls == [at : {"idle", "semaphore", "limiter", "flight", "asleep"},
          tries : 0 .. MaxTries]

\* One handler moves to new locals and neither takes nor returns a slot.
LEMMA MoveKeeps ==
    ASSUME ClientInv, NEW h \in Handlers, NEW x \in Calls,
           call' = [call EXCEPT ![h] = x],
           x.at \in {"limiter", "flight"} <=> call[h].at \in {"limiter", "flight"},
           x.at # "idle", x.at # "flight" => x.tries < MaxTries,
           free' = free, level' \in 0 .. MaxRate, rate' \in 0 .. MaxRate
    PROVE  ClientInv'
<1>1. \A g \in Handlers : call'[g] = IF g = h THEN x ELSE call[g]
    BY DEF ClientInv, ClientTypeOK
<1>2. Holders' = Holders
    BY <1>1 DEF Holders
<1>3. SlotsConserved'
    BY <1>2 DEF SlotsConserved, ClientInv, Holders
<1>4. TriesLeft'
    BY <1>1 DEF TriesLeft, ClientInv
<1>5. ClientTypeOK'
    BY DEF ClientTypeOK, ClientInv, Calls
<1> QED BY <1>3, <1>4, <1>5 DEF ClientInv

LEMMA GetKeeps ==
    ASSUME ClientInv, NEW h \in Handlers, Get(h) \/ Wake(h)
    PROVE  ClientInv'
<1> DEFINE x == [call[h] EXCEPT !.at = "semaphore"]
<1>1. /\ call[h] \in Calls /\ call[h].tries < MaxTries
      /\ call[h].at \in {"idle", "asleep"}
      /\ level \in 0 .. MaxRate /\ rate \in 0 .. MaxRate
    BY DEF ClientInv, ClientTypeOK, TriesLeft, Get, Wake, At, Calls
<1>2. x \in Calls /\ x.at = "semaphore" /\ x.tries = call[h].tries
    BY <1>1 DEF Calls
<1>3. call' = [call EXCEPT ![h] = x] /\ free' = free /\ level' = level /\ rate' = rate
    BY DEF Get, Wake
<1> HIDE DEF x
<1> QED BY <1>1, <1>2, <1>3, MoveKeeps

LEMMA SendKeeps ==
    ASSUME ClientInv, NEW h \in Handlers, Send(h)
    PROVE  ClientInv'
<1> DEFINE x == [call[h] EXCEPT !.at = "flight", !.tries = @ + 1]
<1>1. /\ call[h] \in Calls /\ call[h].tries < MaxTries /\ call[h].at = "limiter"
      /\ level \in 0 .. MaxRate /\ rate \in 0 .. MaxRate
    BY DEF ClientInv, ClientTypeOK, TriesLeft, Send, At, Calls
<1>2. x \in Calls /\ x.at = "flight"
  <2>1. call[h].tries + 1 \in 0 .. MaxTries
      BY <1>1, ClientAssumption DEF Calls
  <2> QED BY <1>1, <2>1 DEF Calls
<1>3. call' = [call EXCEPT ![h] = x] /\ free' = free /\ rate' = rate
    BY DEF Send
<1>4. level' \in 0 .. MaxRate
    BY <1>1, ClientAssumption DEF Send
<1> HIDE DEF x
<1> QED BY <1>1, <1>2, <1>3, <1>4, MoveKeeps

LEMMA TakeSlotKeeps ==
    ASSUME ClientInv, NEW h \in Handlers, TakeSlot(h)
    PROVE  ClientInv'
<1>1. /\ call \in [Handlers ->
                     [at : {"idle", "semaphore", "limiter", "flight", "asleep"},
                      tries : 0 .. MaxTries]]
      /\ free \in 1 .. Slots /\ call[h].at = "semaphore"
      /\ call' = [call EXCEPT ![h].at = "limiter"]
      /\ free' = free - 1 /\ level' = level /\ rate' = rate
    BY ClientAssumption DEF ClientInv, ClientTypeOK, TakeSlot, At
<1>2. \A g \in Handlers : /\ call'[g].at = IF g = h THEN "limiter" ELSE call[g].at
                          /\ call'[g].tries = call[g].tries
    BY <1>1
<1>3. Holders' = Holders \cup {h} /\ h \notin Holders
    BY <1>1, <1>2 DEF Holders
<1>4. Cardinality(Holders') = Cardinality(Holders) + 1 /\ Cardinality(Holders) \in Nat
    BY <1>3, HoldersFinite, FS_AddElement DEF Holders
<1>5. SlotsConserved'
    BY <1>1, <1>4, ClientAssumption DEF ClientInv, SlotsConserved, Holders
<1>6. TriesLeft'
    BY <1>1, <1>2 DEF ClientInv, TriesLeft
<1>7. ClientTypeOK'
    BY <1>1, ClientAssumption DEF ClientInv, ClientTypeOK
<1> QED BY <1>5, <1>6, <1>7 DEF ClientInv

LEMMA AnsweredKeeps ==
    ASSUME ClientInv, NEW h \in Handlers, NEW at \in {"idle", "asleep"},
           NEW e \in BOOLEAN, Answered(h, at, e),
           at = "asleep" => call[h].tries < MaxTries
    PROVE  ClientInv'
<1> DEFINE x == IF at = "idle" THEN NoCall ELSE [call[h] EXCEPT !.at = at]
<1>1. /\ call \in [Handlers ->
                     [at : {"idle", "semaphore", "limiter", "flight", "asleep"},
                      tries : 0 .. MaxTries]]
      /\ call[h].at = "flight" /\ free \in 0 .. Slots
      /\ call' = [call EXCEPT ![h] = x]
      /\ free' = free + 1 /\ level' = level
      /\ rate' = IF e THEN Halved(rate) ELSE rate
    BY DEF ClientInv, ClientTypeOK, Answered, At
<1>2. /\ x \in Calls /\ x.at = at
      /\ at = "idle" => x.tries = 0
      /\ x.tries < MaxTries
    BY <1>1, ClientAssumption DEF NoCall, Calls
<1> HIDE DEF x
<1>3. \A g \in Handlers : call'[g] = IF g = h THEN x ELSE call[g]
    BY <1>1
<1>4. Holders' = Holders \ {h} /\ h \in Holders
    BY <1>1, <1>2, <1>3 DEF Holders
<1>5. Cardinality(Holders') = Cardinality(Holders) - 1
    BY <1>4, HoldersFinite, FS_RemoveElement DEF Holders
<1>6. Cardinality(Holders) \in Nat /\ Cardinality(Holders') \in Nat
    BY HoldersFinite DEF Holders
<1>7. free + Cardinality(Holders) = Slots
    BY DEF ClientInv, SlotsConserved, Holders
<1>8. free' + Cardinality(Holders') = Slots /\ free' \in 0 .. Slots
    BY <1>1, <1>5, <1>6, <1>7, ClientAssumption
<1>9. SlotsConserved'
    BY <1>8 DEF SlotsConserved, Holders
<1>10. TriesLeft'
    BY <1>2, <1>3 DEF ClientInv, TriesLeft
<1>11. rate' \in 0 .. MaxRate
    BY <1>1, HalvedType DEF ClientInv, ClientTypeOK
<1>12. ClientTypeOK'
    BY <1>1, <1>2, <1>8, <1>11 DEF ClientInv, ClientTypeOK, Calls
<1> QED BY <1>9, <1>10, <1>12 DEF ClientInv

LEMMA ClientStep ==
    ASSUME ClientInv, [Next]_vars
    PROVE  ClientInv'
<1>1. CASE UNCHANGED clientVars
    BY <1>1 DEF clientVars, ClientInv, ClientTypeOK, SlotsConserved, TriesLeft
<1>2. ASSUME NEW h \in Handlers,
             Succeed(h) \/ Refused(h) \/ Retried(h) \/ GivenUp(h)
      PROVE  ClientInv'
    BY <1>2, AnsweredKeeps DEF Succeed, Refused, Retried, GivenUp
<1>3. CASE Leak
  <2>1. /\ call' = call /\ free' = free /\ rate' = rate /\ level' \in 0 .. MaxRate
      BY <1>3, ClientAssumption DEF Leak, ClientInv, ClientTypeOK
  <2> QED BY <2>1 DEF ClientInv, ClientTypeOK, SlotsConserved, TriesLeft
<1>4. CASE ClientRestart
  <2>1. \A h \in Handlers : call'[h] = NoCall
      BY <1>4 DEF ClientRestart
  <2>2. {h \in Handlers : call'[h].at \in {"limiter", "flight"}} = {}
      BY <2>1 DEF NoCall
  <2>3. SlotsConserved'
      BY <1>4, <2>2, FS_EmptySet, ClientAssumption DEF SlotsConserved, ClientRestart
  <2>4. ClientTypeOK'
      BY <1>4, ClientAssumption DEF ClientTypeOK, ClientRestart, NoCall
  <2>5. TriesLeft'
      BY <2>1, ClientAssumption DEF TriesLeft, NoCall
  <2> QED BY <2>3, <2>4, <2>5 DEF ClientInv
<1>5. ASSUME NEW h \in Handlers, Begin(h) \/ Proceed(h) \/ Arrive(h) \/ Raise(h)
      PROVE  ClientInv'
    BY <1>2, <1>5, GetKeeps, TakeSlotKeeps, SendKeeps
       DEF Begin, Proceed, Arrive, Raise
<1>6. ASSUME NEW h \in Handlers, Write(h) \/ Abort(h) \/ Break(h)
      PROVE  UNCHANGED clientVars
    BY <1>6 DEF Write, Abort, Break
<1> QED BY <1>1, <1>3, <1>4, <1>5, <1>6 DEF Next, vars, Drain, Restart

\* Every slot of the semaphore is free or held by exactly one request, whatever
\* answers, pauses, retries and restarts follow one another (client.py:125-150).
THEOREM SlotsAreConserved == Spec => []SlotsConserved
<1>1. Init => ClientInv
    BY ClientStart DEF Init
<1>2. ClientInv => SlotsConserved
    BY DEF ClientInv
<1> QED BY <1>1, <1>2, ClientStep, PTL DEF Spec

-----------------------------------------------------------------------------
(* The rows.  A row that a transaction has written keeps what the committed   *)
(* row of its name knows, because nobody else writes it before the end.       *)

\* new knows all that old knew.
Keeps(old, new) ==
    /\ new.id = old.id
    /\ old.info # None => new.info # None
    /\ old.raw = "full" => new.raw = "full"

LakeTyped ==
    /\ table \in [Names -> Lake!Row \cup {None}]
    /\ tx \in [Handlers -> [open : BOOLEAN, todo : Seq(Lake!Payload),
                            rows : [Names -> Lake!Row \cup {None}]]]

RowsExclusive ==
    \A g, h \in Handlers, n \in Names :
        tx[g].rows[n] # None /\ tx[h].rows[n] # None => g = h

RowsKeep ==
    \A h \in Handlers, n \in Names :
        tx[h].rows[n] # None /\ table[n] # None => Keeps(table[n], tx[h].rows[n])

LakeInv == LakeTyped /\ RowsExclusive /\ RowsKeep

NoWrites == [n \in Names |-> None]

LEMMA NoTxType ==
    /\ Lake!NoTx \in [open : BOOLEAN, todo : Seq(Lake!Payload),
                      rows : [Names -> Lake!Row \cup {None}]]
    /\ \A n \in Names : Lake!NoTx.rows[n] = None
BY DEF Lake!NoTx

LEMMA KeepsOrder ==
    /\ \A r : Keeps(r, r)
    /\ \A a, b, c : Keeps(a, b) /\ Keeps(b, c) => Keeps(a, c)
BY DEF Keeps

LEMMA MergedKeeps ==
    ASSUME NEW row \in Lake!Row \cup {None}, NEW p \in Lake!Payload
    PROVE  /\ Lake!Merged(row, p) \in Lake!Row
           /\ row # None => Keeps(row, Lake!Merged(row, p))
<1>1. CASE row = None
    BY <1>1 DEF Lake!Merged, Lake!Row, Lake!Payload
<1>2. CASE row # None
  <2> DEFINE i == IF p.info # None THEN p.info ELSE row.info
             w == IF p.raw = "full" THEN "full" ELSE row.raw
             new == [row EXCEPT !.info = i, !.raw = w]
  <2>1. row \in Lake!Row /\ Lake!Merged(row, p) = new
      BY <1>2 DEF Lake!Merged
  <2>2. i \in Lake!Info /\ w \in {"stub", "full"}
      BY <2>1 DEF Lake!Row, Lake!Payload
  <2>3. row.info # None => i # None
      OBVIOUS
  <2>4. row.raw = "full" => w = "full"
      OBVIOUS
  <2> HIDE DEF i, w
  <2>5. new \in Lake!Row /\ new.id = row.id /\ new.info = i /\ new.raw = w
      BY <2>1, <2>2 DEF Lake!Row
  <2> QED BY <2>1, <2>3, <2>4, <2>5, <1>2 DEF Keeps
<1> QED BY <1>1, <1>2

\* A transaction that ends writes nothing any more.
LEMMA RollbackKeeps ==
    ASSUME LakeInv, NEW h \in Handlers, Lake!Rollback(h)
    PROVE  LakeInv'
<1>1. table' = table /\ tx' = [tx EXCEPT ![h] = Lake!NoTx]
    BY DEF Lake!Rollback
<1>2. LakeTyped'
    BY <1>1, NoTxType DEF LakeInv, LakeTyped
<1>3. \A g \in Handlers, n \in Names : tx'[g].rows[n] # None =>
          tx'[g].rows[n] = tx[g].rows[n]
    BY <1>1, NoTxType DEF LakeInv, LakeTyped
<1> QED BY <1>1, <1>2, <1>3 DEF LakeInv, RowsExclusive, RowsKeep

LEMMA OpenKeeps ==
    ASSUME LakeInv, NEW h \in Handlers, NEW answer \in Answers, Lake!Open(h, answer)
    PROVE  LakeInv'
<1> DEFINE x == [Lake!NoTx EXCEPT !.open = TRUE, !.todo = answer]
<1>1. table' = table /\ tx' = [tx EXCEPT ![h] = x]
    BY DEF Lake!Open
<1>2. answer \in Seq(Lake!Payload)
    BY LakeAssumption
<1>3. x \in [open : BOOLEAN, todo : Seq(Lake!Payload),
             rows : [Names -> Lake!Row \cup {None}]]
    BY <1>2, NoTxType
<1>4. \A n \in Names : x.rows[n] = None
    BY DEF Lake!NoTx
<1> HIDE DEF x
<1>5. LakeTyped'
    BY <1>1, <1>3 DEF LakeInv, LakeTyped
<1>6. \A g \in Handlers, n \in Names : tx'[g].rows[n] # None =>
          tx'[g].rows[n] = tx[g].rows[n]
    BY <1>1, <1>4 DEF LakeInv, LakeTyped
<1> QED BY <1>1, <1>5, <1>6 DEF LakeInv, RowsExclusive, RowsKeep

LEMMA UpsertKeeps ==
    ASSUME LakeInv, NEW h \in Handlers, Lake!Upsert(h)
    PROVE  LakeInv'
<1> DEFINE p == Head(tx[h].todo)
           old == Lake!Found(h, p.name)
           new == Lake!Merged(old, p)
           written == [tx[h].rows EXCEPT ![p.name] = new]
           x == [tx[h] EXCEPT !.todo = Tail(@), !.rows = written]
           Txs == [open : BOOLEAN, todo : Seq(Lake!Payload),
                   rows : [Names -> Lake!Row \cup {None}]]
<1>1. /\ tx[h].open /\ tx[h].todo # <<>> /\ table' = table
      /\ \A g \in Handlers \ {h} : tx[g].rows[p.name] = None
    BY DEF Lake!Upsert, Lake!Writing, Lake!WaitsFor, Lake!Locked, Lake!Todo
<1>2. tx' = [tx EXCEPT ![h] = x]
    BY DEF Lake!Upsert, Lake!Todo, LakeInv, LakeTyped
<1>3. tx \in [Handlers -> Txs] /\ tx[h] \in Txs
    BY DEF LakeInv, LakeTyped
<1>4. p \in Lake!Payload /\ p.name \in Names /\ Tail(tx[h].todo) \in Seq(Lake!Payload)
  <2>1. tx[h].todo \in Seq(Lake!Payload)
      BY <1>3
  <2>2. p \in Lake!Payload /\ Tail(tx[h].todo) \in Seq(Lake!Payload)
      BY <2>1, <1>1
  <2> QED BY <2>2 DEF Lake!Payload
<1>5. old \in Lake!Row \cup {None}
    BY <1>3, <1>4 DEF Lake!Found, LakeInv, LakeTyped
<1>6. new \in Lake!Row /\ (old # None => Keeps(old, new))
    BY <1>4, <1>5, MergedKeeps
<1>7. table[p.name] # None => Keeps(table[p.name], new)
  <2>1. CASE tx[h].rows[p.name] = None
      BY <2>1, <1>6 DEF Lake!Found
  <2>2. CASE tx[h].rows[p.name] # None
    <3>1. old = tx[h].rows[p.name]
        BY <2>2 DEF Lake!Found
    <3>2. table[p.name] # None => Keeps(table[p.name], old)
        BY <3>1, <2>2, <1>4 DEF LakeInv, RowsKeep
    <3> QED BY <3>1, <3>2, <2>2, <1>6, KeepsOrder
  <2> QED BY <2>1, <2>2
<1> HIDE DEF p, old, new
<1>8. written \in [Names -> Lake!Row \cup {None}]
    BY <1>3, <1>4, <1>6
<1>9. /\ x \in Txs /\ x.rows = written
  <2> HIDE DEF written
  <2> QED BY <1>3, <1>4, <1>8
<1>10. /\ written[p.name] = new
       /\ \A n \in Names : n # p.name => written[n] = tx[h].rows[n]
    BY <1>3, <1>4
<1> HIDE DEF written, x
<1>11. LakeTyped'
    BY <1>1, <1>2, <1>3, <1>9 DEF LakeInv, LakeTyped
<1>12. \A g \in Handlers : tx'[g] = IF g = h THEN x ELSE tx[g]
    BY <1>2, <1>3
<1>13. RowsExclusive'
  <2> SUFFICES ASSUME NEW g \in Handlers, NEW f \in Handlers, NEW n \in Names,
                      tx'[g].rows[n] # None, tx'[f].rows[n] # None, g # f
               PROVE  FALSE
      BY DEF RowsExclusive
  <2>1. CASE n = p.name
      BY <2>1, <1>1, <1>12
  <2>2. CASE n # p.name
      BY <2>2, <1>9, <1>10, <1>12 DEF LakeInv, RowsExclusive
  <2> QED BY <2>1, <2>2
<1>14. RowsKeep'
  <2> SUFFICES ASSUME NEW g \in Handlers, NEW n \in Names,
                      tx'[g].rows[n] # None, table[n] # None
               PROVE  Keeps(table[n], tx'[g].rows[n])
      BY <1>1 DEF RowsKeep
  <2>1. CASE g = h /\ n = p.name
      BY <2>1, <1>7, <1>9, <1>10, <1>12
  <2>2. CASE g # h \/ n # p.name
      BY <2>2, <1>9, <1>10, <1>12 DEF LakeInv, RowsKeep
  <2> QED BY <2>1, <2>2
<1> QED BY <1>11, <1>13, <1>14 DEF LakeInv

LEMMA CommitKeeps ==
    ASSUME LakeInv, NEW h \in Handlers, Lake!Commit(h)
    PROVE  /\ LakeInv'
           /\ \A n \in Names : table[n] # None =>
                  table'[n] # None /\ Keeps(table[n], table'[n])
<1>1. /\ tx' = [tx EXCEPT ![h] = Lake!NoTx]
      /\ table' = [n \in Names |-> IF tx[h].rows[n] # None THEN tx[h].rows[n]
                                   ELSE table[n]]
    BY DEF Lake!Commit
<1>2. LakeTyped'
  <2>1. tx' \in [Handlers -> [open : BOOLEAN, todo : Seq(Lake!Payload),
                              rows : [Names -> Lake!Row \cup {None}]]]
      BY <1>1, NoTxType DEF LakeInv, LakeTyped
  <2>2. table' \in [Names -> Lake!Row \cup {None}]
      BY <1>1 DEF LakeInv, LakeTyped
  <2> QED BY <2>1, <2>2 DEF LakeTyped
<1>3. \A g \in Handlers, n \in Names : tx'[g].rows[n] # None =>
          g # h /\ tx'[g].rows[n] = tx[g].rows[n]
    BY <1>1, NoTxType DEF LakeInv, LakeTyped
<1>4. RowsExclusive'
    BY <1>3 DEF LakeInv, RowsExclusive
<1>5. RowsKeep'
  <2> SUFFICES ASSUME NEW g \in Handlers, NEW n \in Names,
                      tx'[g].rows[n] # None, table'[n] # None
               PROVE  Keeps(table'[n], tx'[g].rows[n])
      BY DEF RowsKeep
  <2>1. g # h /\ tx'[g].rows[n] = tx[g].rows[n] /\ tx[g].rows[n] # None
      BY <1>3
  <2>2. tx[h].rows[n] = None
      BY <2>1 DEF LakeInv, RowsExclusive
  <2>3. table'[n] = table[n]
      BY <2>2, <1>1
  <2> QED BY <2>1, <2>3 DEF LakeInv, RowsKeep
<1>6. ASSUME NEW n \in Names, table[n] # None
      PROVE  table'[n] # None /\ Keeps(table[n], table'[n])
    BY <1>1, <1>6, KeepsOrder DEF LakeInv, RowsKeep
<1> QED BY <1>2, <1>4, <1>5, <1>6 DEF LakeInv

\* A step keeps the invariant, and what was known.
LEMMA LakeStep ==
    ASSUME LakeInv, [Next]_vars
    PROVE  /\ LakeInv'
           /\ \A n \in Names : table[n] # None =>
                  table'[n] # None /\ Keeps(table[n], table'[n])
<1>1. CASE UNCHANGED lakeVars
    BY <1>1, KeepsOrder DEF lakeVars, LakeInv, LakeTyped, RowsExclusive, RowsKeep
<1>2. ASSUME NEW h \in Handlers, Arrive(h)
      PROVE  LakeInv' /\ table' = table
    BY <1>2, OpenKeeps DEF Arrive, Lake!Open
<1>3. ASSUME NEW h \in Handlers, Lake!Rollback(h)
      PROVE  LakeInv' /\ table' = table
    BY <1>3, RollbackKeeps DEF Lake!Rollback
<1>4. ASSUME NEW h \in Handlers, Lake!Upsert(h)
      PROVE  LakeInv' /\ table' = table
    BY <1>4, UpsertKeeps DEF Lake!Upsert
<1>5. CASE Lake!Restart
  <2>1. /\ table' = table /\ \A h \in Handlers : tx'[h] = Lake!NoTx
        /\ tx' = [h \in Handlers |-> Lake!NoTx]
      BY <1>5 DEF Lake!Restart
  <2>2. LakeTyped'
      BY <2>1, NoTxType DEF LakeInv, LakeTyped
  <2>3. \A h \in Handlers, n \in Names : tx'[h].rows[n] = None
      BY <2>1, NoTxType
  <2> QED BY <2>1, <2>2, <2>3, KeepsOrder DEF LakeInv, RowsExclusive, RowsKeep
<1>6. ASSUME NEW h \in Handlers, Write(h) \/ Abort(h) \/ Break(h)
      PROVE  /\ LakeInv'
             /\ \A n \in Names : table[n] # None =>
                    table'[n] # None /\ Keeps(table[n], table'[n])
    BY <1>3, <1>4, <1>6, CommitKeeps, KeepsOrder
       DEF Write, Abort, Break, Lake!Clash, Lake!DeadlockAbort, Lake!Fail
<1>7. ASSUME NEW h \in Handlers, Begin(h) \/ Proceed(h) \/ Raise(h)
      PROVE  UNCHANGED lakeVars
    BY <1>7 DEF Begin, Proceed, Raise
<1> QED BY <1>1, <1>2, <1>5, <1>6, <1>7, KeepsOrder
        DEF Next, vars, Drain, Restart

LEMMA LakeStart == Init => LakeInv
<1> SUFFICES ASSUME Init PROVE LakeInv
    OBVIOUS
<1>1. /\ table = [n \in Names |-> None]
      /\ tx = [h \in Handlers |-> Lake!NoTx]
    BY DEF Init, Lake!Init
<1>2. \A h \in Handlers, n \in Names : tx[h].rows[n] = None
    BY <1>1, NoTxType
<1>3. LakeTyped
    BY <1>1, NoTxType DEF LakeTyped
<1> QED BY <1>2, <1>3 DEF LakeInv, RowsExclusive, RowsKeep

\* The client's counters and the rows always have their types: the semaphore is
\* never released beyond its size, the limiter's rate stays in its range and no
\* call sends more requests than it may (client.py:100-150, upsert.py:37-50).
THEOREM TypeCorrect == Spec => []TypeOK
<1>1. Init => ClientInv /\ LakeInv
    BY ClientStart, LakeStart DEF Init
<1>2. ClientInv /\ LakeInv => TypeOK
  <2> SUFFICES ASSUME ClientInv, LakeInv PROVE TypeOK
      OBVIOUS
  <2>1. ASSUME NEW h \in Handlers
        PROVE  /\ tx[h].open \in BOOLEAN
               /\ tx[h].rows \in [Names -> Lake!Row \cup {None}]
               /\ \A i \in 1 .. Len(tx[h].todo) : tx[h].todo[i] \in Lake!Payload
    <3>1. tx[h].todo \in Seq(Lake!Payload)
        BY DEF LakeInv, LakeTyped
    <3>2. \A i \in 1 .. Len(tx[h].todo) : tx[h].todo[i] \in Lake!Payload
        BY <3>1
    <3> QED BY <3>2 DEF LakeInv, LakeTyped
  <2>2. Lake!TypeOK
      BY <2>1 DEF Lake!TypeOK, LakeInv, LakeTyped
  <2> QED BY <2>2 DEF TypeOK, ClientInv
<1> QED BY <1>1, <1>2, ClientStep, LakeStep, PTL DEF Spec

\* No commit loses what an earlier one has stored: two transactions never hold
\* the same row, and each merges into the row as it is when it takes the lock
\* (upsert.py:37-50).
THEOREM NothingIsForgotten == Spec => NothingForgotten
<1>1. LakeInv /\ [Next]_vars =>
        [\A n \in Names : table[n] # None =>
           /\ table'[n] # None
           /\ table'[n].id = table[n].id
           /\ table[n].info # None => table'[n].info # None
           /\ table[n].raw = "full" => table'[n].raw = "full"]_vars
    BY LakeStep DEF Keeps
<1>2. LakeInv /\ [Next]_vars => LakeInv'
    BY LakeStep
<1> QED BY <1>1, <1>2, LakeStart, PTL DEF Spec, NothingForgotten

-----------------------------------------------------------------------------
(* Identity.  Rows get their ids from the answers, and keep them.            *)

Says(n, i) == \E a \in Answers : \E j \in DOMAIN a : a[j].name = n /\ a[j].id = i

StoredSaid == \A n \in Names : table[n] # None => Says(n, table[n].id)
WrittenSaid == \A h \in Handlers, n \in Names :
    tx[h].rows[n] # None => Says(n, tx[h].rows[n].id)
AskedSaid == \A h \in Handlers : \A j \in DOMAIN tx[h].todo :
    Says(tx[h].todo[j].name, tx[h].todo[j].id)

IdsSaid == StoredSaid /\ WrittenSaid /\ AskedSaid

LEMMA NoTxAsks == DOMAIN Lake!NoTx.todo = {} /\ \A n \in Names : Lake!NoTx.rows[n] = None
BY DEF Lake!NoTx

\* A transaction that ends, or goes on with what it has.
LEMMA FewerSaid ==
    ASSUME IdsSaid, table' = table,
           \A h \in Handlers : tx'[h] = tx[h] \/ tx'[h] = Lake!NoTx
    PROVE  IdsSaid'
<1>1. StoredSaid'
    BY DEF IdsSaid, StoredSaid, Says
<1>2. WrittenSaid'
    BY NoTxAsks DEF IdsSaid, WrittenSaid, Says
<1>3. AskedSaid'
    BY NoTxAsks DEF IdsSaid, AskedSaid, Says
<1> QED BY <1>1, <1>2, <1>3 DEF IdsSaid

LEMMA OpenSaid ==
    ASSUME LakeInv, IdsSaid, NEW h \in Handlers, NEW answer \in Answers,
           Lake!Open(h, answer)
    PROVE  IdsSaid'
<1> DEFINE x == [Lake!NoTx EXCEPT !.open = TRUE, !.todo = answer]
<1>1. x.todo = answer /\ \A n \in Names : x.rows[n] = None
    BY DEF Lake!NoTx
<1>2. table' = table /\ tx' = [tx EXCEPT ![h] = x]
    BY DEF Lake!Open
<1> HIDE DEF x
<1>3. \A g \in Handlers : tx'[g] = IF g = h THEN x ELSE tx[g]
    BY <1>2 DEF LakeInv, LakeTyped
<1>4. StoredSaid'
    BY <1>2 DEF IdsSaid, StoredSaid, Says
<1>5. WrittenSaid'
    BY <1>1, <1>3 DEF IdsSaid, WrittenSaid, Says
<1>6. AskedSaid'
    BY <1>1, <1>3 DEF IdsSaid, AskedSaid, Says
<1> QED BY <1>4, <1>5, <1>6 DEF IdsSaid

LEMMA UpsertSaid ==
    ASSUME LakeInv, IdsSaid, NEW h \in Handlers, Lake!Upsert(h)
    PROVE  IdsSaid'
<1> DEFINE todo == tx[h].todo
           p == Head(todo)
           old == Lake!Found(h, p.name)
           new == Lake!Merged(old, p)
<1>1. todo \in Seq(Lake!Payload) /\ todo # <<>> /\ table' = table
    BY DEF Lake!Upsert, Lake!Writing, LakeInv, LakeTyped
<1>2. p \in Lake!Payload /\ p = todo[1] /\ 1 \in DOMAIN todo
    BY <1>1
<1>3. Says(p.name, p.id) /\ p.name \in Names
    BY <1>2 DEF IdsSaid, AskedSaid, Lake!Payload
<1>4. old \in Lake!Row \cup {None} /\ (old # None => Says(p.name, old.id))
    BY <1>3 DEF Lake!Found, LakeInv, LakeTyped, IdsSaid, StoredSaid, WrittenSaid
<1>5. Says(p.name, new.id)
  <2>1. CASE old = None
      BY <1>3, <2>1 DEF Lake!Merged
  <2>2. CASE old # None
      BY <1>2, <1>4, <2>2, MergedKeeps DEF Keeps
  <2> QED BY <2>1, <2>2
<1>6. \A j \in DOMAIN Tail(todo) : j + 1 \in DOMAIN todo /\ Tail(todo)[j] = todo[j + 1]
    BY <1>1
<1>7. /\ \A g \in Handlers : g # h => tx'[g] = tx[g]
      /\ tx'[h].todo = Tail(todo)
      /\ tx'[h].rows = [tx[h].rows EXCEPT ![p.name] = new]
    BY DEF Lake!Upsert, Lake!Todo, LakeInv, LakeTyped
<1>8. tx[h].rows \in [Names -> Lake!Row \cup {None}]
    BY DEF LakeInv, LakeTyped
<1>9. \A n \in Names : tx'[h].rows[n] = IF n = p.name THEN new ELSE tx[h].rows[n]
    BY <1>7, <1>8
<1> HIDE DEF todo, p, old, new
<1>10. StoredSaid'
    BY <1>1 DEF IdsSaid, StoredSaid, Says
<1>11. ASSUME NEW g \in Handlers, NEW n \in Names, tx'[g].rows[n] # None
       PROVE  Says(n, tx'[g].rows[n].id)
  <2>1. CASE g = h /\ n = p.name
      BY <1>5, <1>9, <2>1
  <2>2. CASE g # h \/ n # p.name
    <3>1. tx'[g].rows[n] = tx[g].rows[n]
        BY <1>7, <1>9, <2>2
    <3> QED BY <1>11, <3>1 DEF IdsSaid, WrittenSaid
  <2> QED BY <2>1, <2>2
<1>12. ASSUME NEW g \in Handlers, NEW j \in DOMAIN tx'[g].todo
       PROVE  Says(tx'[g].todo[j].name, tx'[g].todo[j].id)
  <2>1. CASE g = h
    <3>1. /\ j \in DOMAIN Tail(todo) /\ tx'[g].todo[j] = Tail(todo)[j]
        BY <1>7, <1>12, <2>1
    <3>2. j + 1 \in DOMAIN tx[h].todo /\ tx'[g].todo[j] = tx[h].todo[j + 1]
        BY <1>6, <3>1 DEF todo
    <3> QED BY <3>2 DEF IdsSaid, AskedSaid
  <2>2. CASE g # h
    <3>1. tx'[g] = tx[g]
        BY <1>7, <2>2
    <3> QED BY <1>12, <3>1 DEF IdsSaid, AskedSaid
  <2> QED BY <2>1, <2>2
<1>13. WrittenSaid'
    BY <1>11 DEF WrittenSaid, Says
<1>14. AskedSaid'
    BY <1>12 DEF AskedSaid, Says
<1> QED BY <1>10, <1>13, <1>14 DEF IdsSaid

LEMMA CommitSaid ==
    ASSUME LakeInv, IdsSaid, NEW h \in Handlers, Lake!Commit(h)
    PROVE  IdsSaid'
<1>1. /\ tx' = [tx EXCEPT ![h] = Lake!NoTx]
      /\ table' = [n \in Names |-> IF tx[h].rows[n] # None THEN tx[h].rows[n]
                                   ELSE table[n]]
    BY DEF Lake!Commit
<1>2. \A g \in Handlers : tx'[g] = tx[g] \/ tx'[g] = Lake!NoTx
    BY <1>1 DEF LakeInv, LakeTyped
<1>3. StoredSaid'
    BY <1>1 DEF IdsSaid, StoredSaid, WrittenSaid, Says
<1>4. WrittenSaid' /\ AskedSaid'
    BY <1>2, NoTxAsks DEF IdsSaid, WrittenSaid, AskedSaid, Says
<1> QED BY <1>3, <1>4 DEF IdsSaid

LEMMA SaidStep ==
    ASSUME LakeInv, IdsSaid, [Next]_vars
    PROVE  IdsSaid'
<1>1. CASE UNCHANGED lakeVars
    BY <1>1, FewerSaid DEF lakeVars
<1>2. ASSUME NEW h \in Handlers, Lake!Rollback(h)
      PROVE  IdsSaid'
  <2>1. /\ table' = table
        /\ \A g \in Handlers : tx'[g] = tx[g] \/ tx'[g] = Lake!NoTx
      BY <1>2 DEF Lake!Rollback, LakeInv, LakeTyped
  <2> QED BY <2>1, FewerSaid
<1>3. CASE Lake!Restart
    BY <1>3, FewerSaid DEF Lake!Restart
<1>4. ASSUME NEW h \in Handlers,
             Arrive(h) \/ Write(h) \/ Abort(h) \/ Break(h)
      PROVE  IdsSaid'
    BY <1>2, <1>4, OpenSaid, UpsertSaid, CommitSaid
       DEF Arrive, Write, Abort, Break, Lake!Clash, Lake!DeadlockAbort, Lake!Fail
<1>5. ASSUME NEW h \in Handlers, Begin(h) \/ Proceed(h) \/ Raise(h)
      PROVE  UNCHANGED lakeVars
    BY <1>5 DEF Begin, Proceed, Raise
<1> QED BY <1>1, <1>3, <1>4, <1>5 DEF Next, vars, Drain, Restart

\* As long as the API shows an entity always with its id or never, no upsert is
\* refused for its name (NoClash), in whatever order handlers store what they
\* have been told: what part3-design.md:80 promises takes this much, and
\* fails without it (upsert.py:37-51, ids.py).
THEOREM NoClashOfOne ==
    ASSUME OneIdentity
    PROVE  Spec => []NoClash
<1>1. Init => IdsSaid
  <2> SUFFICES ASSUME Init PROVE IdsSaid
      OBVIOUS
  <2>1. /\ table = [n \in Names |-> None]
        /\ tx = [h \in Handlers |-> Lake!NoTx]
      BY DEF Init, Lake!Init
  <2> QED BY <2>1, NoTxAsks DEF IdsSaid, StoredSaid, WrittenSaid, AskedSaid
<1>2. LakeInv /\ IdsSaid /\ [Next]_vars => LakeInv' /\ IdsSaid'
    BY LakeStep, SaidStep
<1>3. LakeInv /\ IdsSaid => NoClash
  <2> SUFFICES ASSUME LakeInv, IdsSaid, NEW h \in Handlers, Lake!Writing(h),
                      Lake!Clashes(h)
               PROVE  FALSE
      BY DEF NoClash
  <2> DEFINE p == Lake!Todo(h)
             row == Lake!Found(h, p.name)
  <2>1. row # None /\ row.id # p.id
      BY DEF Lake!Clashes
  <2>2. p \in Lake!Payload /\ Says(p.name, p.id)
    <3>1. tx[h].todo \in Seq(Lake!Payload) /\ tx[h].todo # <<>>
        BY DEF Lake!Writing, LakeInv, LakeTyped
    <3>2. /\ 1 \in DOMAIN tx[h].todo /\ p = tx[h].todo[1]
          /\ tx[h].todo[1] \in Lake!Payload
        BY <3>1 DEF Lake!Todo
    <3> QED BY <3>2 DEF IdsSaid, AskedSaid
  <2>3. Says(p.name, row.id)
      BY <2>1, <2>2 DEF Lake!Found, Lake!Payload, IdsSaid, StoredSaid, WrittenSaid
  <2> QED BY <2>1, <2>2, <2>3 DEF Says, OneIdentity
<1> QED BY <1>1, <1>2, <1>3, LakeStart, PTL DEF Spec

=============================================================================
