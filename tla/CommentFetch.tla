----------------------------- MODULE CommentFetch -----------------------------
(* The comments of one post: what the platform has, what the lake stores and  *)
(* what its counters say about the difference.  poll_posts_feed asks for the  *)
(* comments whenever it sees the post, fetch_post when the platform counts    *)
(* more than were fetched, and fetch_post_comments stores an answer.          *)
(*                                                                            *)
(* The queue keeps one task per post and nobody else works on it (the         *)
(* property LeaseExclusive of WorkQueue), so one handler at a time writes the *)
(* post's counters; fetch_post runs beside it.  Between the answer and the    *)
(* commit the handler's transaction is invisible and reads nothing that       *)
(* anybody else writes, so that it is built in one step and committed or      *)
(* rolled back in another.                                                    *)
EXTENDS Naturals, Sequences, FiniteSets, SequencesExt, Queues

CONSTANTS Comments,   \* comments that the post may get
          None,       \* no parent; no comment_count sampled
          MaxFetched, \* bound: no fetch begins when so many were counted
          Faults      \* whether handlers may fail and the process die

ASSUME NoneAssumption == None \notin Comments

VARIABLES remote,    \* the comments the platform has
          replyTo,   \* replyTo[c]: the parent_id the platform gives c, or None
          stored,    \* rows of mb_comment
          parent,    \* mb_comment.parent_id
          fetched,   \* mb_post.comments_fetched
          truncated, \* mb_post.comments_truncated
          task,      \* the fetch_post_comments task: "none" if there is no row
          batch,     \* the running handler's transaction, or NoBatch
          count      \* the comment_count a running fetch_post has read, or None

lake == <<stored, parent, fetched, truncated>>
vars == <<remote, replyTo, lake, task, batch, count>>

\* rows: what is upserted, in this order; total: `expected'; refused: the answer
\* repeats a comment (two rows of mb_comment_stats_ts with one key) or has one
\* without an author (author_id is not null), so that the transaction fails.
Row == [id : Comments, parent : Comments \cup {None}]
NoBatch == [rows |-> <<>>, total |-> 0, refused |-> TRUE]

Init == /\ remote = {}
        /\ replyTo = [c \in Comments |-> None]
        /\ stored = {}
        /\ parent = [c \in Comments |-> None]
        /\ fetched = 0 /\ truncated = FALSE
        /\ task = "none" /\ batch = NoBatch
        /\ count = None

-----------------------------------------------------------------------------
(* From an answer to rows in an order that the foreign key accepts.          *)

Ids(rows) == {row.id : row \in Members(rows)}

\* Variant: only parents of the same answer count.
ResolvedInBatch(c, ids) == IF replyTo[c] \in ids THEN replyTo[c] ELSE None

\* A parent that is neither in the answer nor stored is dropped.
Resolved(c, ids) == IF replyTo[c] \in ids \cup stored THEN replyTo[c] ELSE None

Rows(items) == [i \in 1 .. Len(items) |->
                  [id |-> items[i], parent |-> Resolved(items[i], Members(items))]]

Roots(rows) == {row \in Members(rows) : row.parent \notin Ids(rows)}
Replies(rows, c) == {row \in Members(rows) : row.parent = c}

\* The i-th row of the queue is taken: its replies are queued behind all others.
Taken(rows, queue, i) ==
    IF i > Len(queue) THEN queue
    ELSE queue \o Among(rows, Replies(rows, queue[i].id))

\* Kahn's algorithm, from the roots.
Kahn(rows) ==
    LET queue[i \in 0 .. Len(rows)] ==
          IF i = 0 THEN Among(rows, Roots(rows)) ELSE Taken(rows, queue[i - 1], i)
    IN  queue[Len(rows)]

\* What it does not reach: cycles, and the replies to them.
Left(rows) == Among(rows, {row \in Members(rows) : row.id \notin Ids(Kahn(rows))})

\* Variant: what Kahn leaves over is appended as it is.
SortedWithLinks(rows) == Kahn(rows) \o Left(rows)

\* What is left over becomes roots.
Sorted(rows) ==
    Kahn(rows) \o [i \in 1 .. Len(Left(rows)) |->
                      [Left(rows)[i] EXCEPT !.parent = None]]

-----------------------------------------------------------------------------
(* The platform, and the handlers of posts.                                  *)

\* Somebody comments.  The platform may name a parent it does not list (yet).
Comment == /\ \E c \in Comments \ remote, p \in Comments \cup {None} :
                /\ remote' = remote \cup {c}
                /\ replyTo' = [replyTo EXCEPT ![c] = p]
           /\ UNCHANGED <<lake, task, batch, count>>

\* enqueue: ON CONFLICT DO NOTHING.
Enqueued == IF task = "none" THEN "queued" ELSE task

\* poll_posts_feed has the post in its answer.
Poll == /\ task' = Enqueued
        /\ UNCHANGED <<remote, replyTo, lake, batch, count>>

\* fetch_post: GET /posts/:id ...
ReadCount == /\ count = None
             /\ count' = Cardinality(remote)
             /\ UNCHANGED <<remote, replyTo, lake, task, batch>>

\* Variant: an equal count is asked for again.
CompareCountAgain ==
    /\ count # None
    /\ task' = IF fetched <= count THEN Enqueued ELSE task
    /\ count' = None
    /\ UNCHANGED <<remote, replyTo, lake, batch>>

\* ... and, when the row of the post has been read, the comparison.
CompareCount ==
    /\ count # None
    /\ task' = IF fetched < count THEN Enqueued ELSE task
    /\ count' = None
    /\ UNCHANGED <<remote, replyTo, lake, batch>>

\* fetch_post fails in between, and its task is run again later.
LoseCount == /\ Faults /\ count # None
             /\ count' = None
             /\ UNCHANGED <<remote, replyTo, lake, task, batch>>

-----------------------------------------------------------------------------
(* fetch_post_comments.                                                      *)

Begin == /\ task = "queued" /\ fetched < MaxFetched
         /\ task' = "running"
         /\ UNCHANGED <<remote, replyTo, lake, batch, count>>

\* The answer may be capped, in any order, and may lack the total; then its length
\* is taken for it, in which comments without a usable id count, too.  (Elements
\* that are no comments of the platform are left out.)
Answer ==
    /\ task = "running" /\ batch = NoBatch
    /\ \E listed \in SUBSET remote :
       \E items \in SetToSeqs(listed),
          total \in Cardinality(listed) .. Cardinality(remote) :
       \E refused \in {FALSE, Faults} :
          batch' = [rows |-> Sorted(Rows(items)), total |-> total,
                    refused |-> refused]
    /\ UNCHANGED <<remote, replyTo, lake, task, count>>

\* Variant: the row takes the parent_id of the answer as it is.
LinkedBlindly(rows) == [c \in Comments |->
    IF c \in Ids(rows) THEN replyTo[c] ELSE parent[c]]

\* Variant: the upsert overwrites.
LinkedAnew(rows) == [c \in Comments |->
    IF c \in Ids(rows) THEN (CHOOSE r \in Members(rows) : r.id = c).parent
    ELSE parent[c]]

\* The row's columns: COALESCE(excluded.parent_id, parent_id).
Linked(rows) == [c \in Comments |->
    IF \E i \in 1 .. Len(rows) : rows[i].id = c /\ rows[i].parent # None
      THEN (CHOOSE r \in Members(rows) : r.id = c).parent
      ELSE parent[c]]

\* Variant: the counter is set to the length of this answer.
CommitCountsAnswer ==
    /\ task = "running" /\ ~batch.refused
    /\ stored' = stored \cup Ids(batch.rows)
    /\ parent' = Linked(batch.rows)
    /\ fetched' = Len(batch.rows)
    /\ truncated' = (truncated \/ Len(batch.rows) < batch.total)
    /\ task' \in {"none"} \cup (IF Faults THEN {"queued"} ELSE {})
    /\ batch' = NoBatch
    /\ UNCHANGED <<remote, replyTo, count>>

\* Variant: the length of this answer alone is compared.
CommitComparesAnswer ==
    /\ task = "running" /\ ~batch.refused
    /\ stored' = stored \cup Ids(batch.rows)
    /\ parent' = Linked(batch.rows)
    /\ fetched' = fetched + Len(batch.rows)
    /\ truncated' = (truncated \/ Len(batch.rows) < batch.total)
    /\ task' \in {"none"} \cup (IF Faults THEN {"queued"} ELSE {})
    /\ batch' = NoBatch
    /\ UNCHANGED <<remote, replyTo, count>>

\* The comments, the counter (of all the fetches' rows, new or not) and the
\* flag are committed; the worker then deletes the task, or dies and another
\* one takes it again.
Commit ==
    /\ task = "running" /\ ~batch.refused
    /\ stored' = stored \cup Ids(batch.rows)
    /\ parent' = Linked(batch.rows)
    /\ fetched' = fetched + Len(batch.rows)
    /\ truncated' = (truncated \/ fetched + Len(batch.rows) < batch.total)
    /\ task' \in {"none"} \cup (IF Faults THEN {"queued"} ELSE {})
    /\ batch' = NoBatch
    /\ UNCHANGED <<remote, replyTo, count>>

\* The request, a statement or the process fails: rolled back, to be retried.
Fail == /\ Faults /\ task = "running"
        /\ task' = "queued" /\ batch' = NoBatch
        /\ UNCHANGED <<remote, replyTo, lake, count>>

Next == \/ Comment \/ Poll \/ ReadCount \/ CompareCount \/ LoseCount
        \/ Begin \/ Answer \/ Commit \/ Fail

Spec == Init /\ [][Next]_vars

-----------------------------------------------------------------------------
(* Properties.                                                               *)

TypeOK == /\ stored \subseteq remote /\ remote \subseteq Comments
          /\ replyTo \in [Comments -> Comments \cup {None}]
          /\ parent \in [Comments -> stored \cup {None}]
          /\ fetched \in Nat /\ truncated \in BOOLEAN
          /\ task \in {"none", "queued", "running"}
          /\ Len(batch.rows) <= Cardinality(remote)
          /\ \A i \in 1 .. Len(batch.rows) : batch.rows[i] \in Row
          /\ count \in 0 .. Cardinality(remote) \cup {None}

\* The upserts never meet a parent_id that is not there yet, whatever replies,
\* cycles and unknown parents the answer has (comments.py:40-69).
ParentsFirst ==
    \A i \in 1 .. Len(batch.rows) :
        batch.rows[i].parent \in {None} \cup stored
                                   \cup {batch.rows[j].id : j \in 1 .. i - 1}

\* c replies to a cycle of the answer, or is part of one: following parents
\* never leads out of some set of the answer's comments.
Endless(c, ids) == \E S \in SUBSET ids :
                      c \in S /\ \A d \in S : replyTo[d] \in S

\* Every link that the foreign key allows is stored: a parent is dropped only
\* if it is unknown, or if the links of the answer have no beginning
\* (comments.py:107-127).
LinksResolved ==
    \A i \in 1 .. Len(batch.rows) :
        LET c == batch.rows[i].id
            ids == Ids(batch.rows)
        IN  batch.rows[i].parent =
              IF replyTo[c] \in ids \cup stored /\ ~Endless(c, ids)
                THEN replyTo[c] ELSE None

\* A parent that was stored stays, although later answers may not list it or
\* may close a cycle around it (upsert.py:42).  The platform never gives a comment
\* another parent_id; the upsert would store it.
LinkKept == [][\A c \in Comments :
                  parent[c] # None => parent'[c] = parent[c]]_vars

\* The counter that consumers read as coverage never falls short of the rows
\* (comments.py:158), over retries and crashes after the commit.
CountCovers == fetched >= Cardinality(stored)

\* The flag is raised only while the platform has comments that the lake does
\* not (comments.py:159), also after answers that were capped.
TruncatedHonest ==
    [][truncated' /\ ~truncated => remote' \ stored' # {}]_vars

\* fetch_post asks for the comments again only if one is missing, although its
\* count may be older than the last fetch (posts.py:175).
RefetchOnlyMissing ==
    [][count # None /\ task = "none" /\ task' = "queued" /\ count' = None
         => remote \ stored # {}]_vars
===============================================================================
