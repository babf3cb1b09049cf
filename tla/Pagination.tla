----------------------------- MODULE Pagination -----------------------------
(* Cursor pages over one table (PaginationService) and the cache of its     *)
(* records in Redis.  A client walks through the rows of a filter page by   *)
(* page, while rows are inserted, changed and removed.  A page is a query   *)
(* for ids, a lookup of the records in the cache, a fetch of the missing    *)
(* ones, and one queued job for each record fetched; a worker stores them.  *)
(* totalCount is left out: it is read beside the ids, returned, and decides *)
(* nothing.                                                                 *)
EXTENDS Integers, FiniteSets

CONSTANTS
  Ids,          \* primary keys, in the order in which uuids compare
  Instants,     \* creation times, in microseconds
  Requests,     \* clients
  Invalidated,  \* rows whose writers delete their key: those of account
  Filters,      \* what a filter selects: its columns never change
  MaxLimit,     \* bound: the largest page
  MaxVersion    \* bound: versions of a row

ASSUME PaginationAssumption ==
  /\ Ids \subseteq Nat \ {0}
  /\ Instants \subseteq Nat \ {0}
  /\ Invalidated \subseteq Ids
  /\ Filters \subseteq SUBSET Ids
  /\ MaxLimit \in Nat \ {0}
  /\ MaxVersion \in Nat \ {0}

VARIABLES
  row,     \* committed rows; versions number the contents a row has had
  cache,   \* version in the cache, or Nothing
  job,     \* version in the waiting or active job of the key, or Nothing
  owed,    \* owed[i]: writers that have committed and have yet to delete the key
  req      \* requests

paginationVars == <<row, cache, job, owed, req>>

Nothing == 0

NoRow == [st |-> "none", at |-> 0, version |-> 0]

Exists(i) == row[i].st = "there"

-----------------------------------------------------------------------------
(* Order and cursors.                                                      *)

Position(i) == <<row[i].at, i>>

\* Comparison of (created_at, id).
Before(c, d) == c[1] < d[1] \/ (c[1] = d[1] /\ c[2] < d[2])

\* Where a walk begins: no cursor.
Start == <<0, 0>>

\* Fault: the cursor takes createdAt from the entity, a Date in milliseconds
\* (of two microseconds, here).
CursorInMilliseconds(i) == <<row[i].at - (row[i].at % 2), i>>

\* encodeCursor, and decodeCursor of the result: created_at::text, which keeps
\* the microseconds, and the id.
Cursor(i) == Position(i)

\* Fault: rows of the same instant are taken for rows that have been shown.
AfterByDate(c, i) == c[1] < row[i].at

After(c, i) == Before(c, Position(i))

IsLast(i, S) == \A j \in S \ {i} : Before(Position(j), Position(i))

\* ORDER BY created_at, id LIMIT n
Selects(found, S, n) ==
  /\ found \subseteq S
  /\ \A i \in found, j \in S \ found : Before(Position(i), Position(j))
  /\ Cardinality(found) = n \/ (Cardinality(found) < n /\ found = S)

-----------------------------------------------------------------------------
(* A walk: shown are the rows of the pages answered, base the rows that     *)
(* were there when it began.  page and more are the page under way; node    *)
(* is its records, Nothing where there is none, queue those to be queued.   *)

NoRequest ==
  [pc |-> "idle", want |-> {}, base |-> {}, shown |-> {}, cursor |-> Start, page |-> {},
   more |-> FALSE, node |-> [i \in Ids |-> Nothing], queue |-> {}]

Free(q) == req[q].pc \in {"idle", "done"}

Matching(want) == {i \in want : Exists(i)}

StartWalk(q) ==
  /\ Free(q)
  /\ \E want \in Filters :
       req' = [req EXCEPT ![q] = [NoRequest EXCEPT !.pc = "ask", !.want = want,
                                                   !.base = Matching(want)]]
  /\ UNCHANGED <<row, cache, job, owed>>

\* Fault: a full page is taken for one that is followed by another.
HasNextIfFull(found, limit) == Cardinality(found) >= limit

HasNext(found, limit) == Cardinality(found) > limit

GetPage(q, page, more) ==
  req' = [req EXCEPT ![q].pc = "lookup", ![q].page = page, ![q].more = more]

\* getPageIdsAndEncodedCursors and hasNextPage.
QueryIds(q) ==
  /\ req[q].pc = "ask"
  /\ \E limit \in 1..MaxLimit, found \in SUBSET Ids :
       /\ Selects(found, {i \in Matching(req[q].want) : After(req[q].cursor, i)}, limit + 1)
       /\ \/ ~HasNext(found, limit) /\ GetPage(q, found, FALSE)
          \/ /\ HasNext(found, limit)
             /\ \E i \in found : IsLast(i, found) /\ GetPage(q, found \ {i}, TRUE)
  /\ UNCHANGED <<row, cache, job, owed>>

\* getFromCache: one mget for the whole page.
Lookup(q) ==
  LET page == req[q].page
      hits == {i \in page : cache[i] # Nothing}
  IN
  /\ req[q].pc = "lookup"
  /\ req' = [req EXCEPT ![q].pc = IF hits = page THEN "answer" ELSE "fetch",
                        ![q].node = [i \in Ids |-> IF i \in hits THEN cache[i] ELSE Nothing]]
  /\ UNCHANGED <<row, cache, job, owed>>

\* Fault: the records that came from the cache are queued as well.
ToQueueWithHits(q) == {i \in req[q].page : req[q].node[i] # Nothing \/ Exists(i)}

\* The records fetched, each of which is queued for the cache.
ToQueue(q) == {i \in req[q].page : req[q].node[i] = Nothing /\ Exists(i)}

\* fetchRecords: the node of a row that has gone by now is undefined.
Fetch(q) ==
  LET Fetched(i) == i \in req[q].page /\ req[q].node[i] = Nothing /\ Exists(i)
      node == [i \in Ids |-> IF Fetched(i) THEN row[i].version ELSE req[q].node[i]]
  IN
  /\ req[q].pc = "fetch"
  /\ req' = [req EXCEPT ![q].pc = IF ToQueue(q) = {} THEN "answer" ELSE "enqueue",
                        ![q].node = node, ![q].queue = ToQueue(q)]
  /\ UNCHANGED <<row, cache, job, owed>>

\* enqueueCacheData, for one record after the other.  The key is the id of the
\* job: nothing is added while there is a job of that id.
Enqueue(q) ==
  /\ req[q].pc = "enqueue"
  /\ \E i \in req[q].queue :
       /\ job' = IF job[i] = Nothing THEN [job EXCEPT ![i] = req[q].node[i]] ELSE job
       /\ req' = [req EXCEPT ![q].queue = @ \ {i},
                             ![q].pc = IF req[q].queue = {i} THEN "answer" ELSE "enqueue"]
  /\ UNCHANGED <<row, cache, owed>>

Undefined(q) == {i \in req[q].page : req[q].node[i] = Nothing}

\* The answer goes out, and the client continues with the cursor of its last edge.
\* If a node is undefined, GraphQL puts null for nodes and edges: the walk is over.
AnswerPage(q) ==
  LET r == req[q]
      Next(c) == [NoRequest EXCEPT !.pc = IF r.more THEN "ask" ELSE "done",
                    !.want = r.want, !.base = r.base, !.shown = r.shown \union r.page,
                    !.cursor = c]
  IN
  /\ r.pc = "answer"
  /\ \/ Undefined(q) # {} /\ req' = [req EXCEPT ![q] = NoRequest]
     \/ /\ Undefined(q) = {}
        /\ \/ r.page = {} /\ req' = [req EXCEPT ![q] = Next(r.cursor)]
           \/ \E i \in r.page : IsLast(i, r.page) /\ req' = [req EXCEPT ![q] = Next(Cursor(i))]
  /\ UNCHANGED <<row, cache, job, owed>>

\* PostgreSQL or Redis refuses, or the process stops: the page is not answered.
Fail(q) ==
  /\ req[q].pc \in {"lookup", "fetch", "enqueue", "answer", "load", "store"}
  /\ req' = [req EXCEPT ![q] = NoRequest]
  /\ UNCHANGED <<row, cache, job, owed>>

-----------------------------------------------------------------------------
(* findOneByIdOrThrowCached, of items and users: a miss, the read, the      *)
(* store.  A hit changes nothing.                                           *)

Miss(q) ==
  /\ Free(q)
  /\ \E i \in Ids :
       /\ cache[i] = Nothing
       /\ req' = [req EXCEPT ![q] = [NoRequest EXCEPT !.pc = "load", !.page = {i}]]
  /\ UNCHANGED <<row, cache, job, owed>>

Load(q) ==
  /\ req[q].pc = "load"
  /\ \E i \in req[q].page :
       req' = IF Exists(i) THEN [req EXCEPT ![q].pc = "store", ![q].node[i] = row[i].version]
              ELSE [req EXCEPT ![q] = NoRequest]
  /\ UNCHANGED <<row, cache, job, owed>>

Store(q) ==
  /\ req[q].pc = "store"
  /\ \E i \in req[q].page : cache' = [cache EXCEPT ![i] = req[q].node[i]]
  /\ req' = [req EXCEPT ![q] = NoRequest]
  /\ UNCHANGED <<row, job, owed>>

-----------------------------------------------------------------------------
(* Writers.  created_at is the start of the inserting transaction, so a row *)
(* can appear behind rows that have been there for a while.                 *)

Insert(i) ==
  /\ row[i].st = "none"
  /\ \E t \in Instants : row' = [row EXCEPT ![i] = [st |-> "there", at |-> t, version |-> 1]]
  /\ UNCHANGED <<cache, job, owed, req>>

\* A write of row i that has committed; deleteUserFromCache follows in the writers
\* of account, counters of review are changed without it.
Written(i) ==
  /\ owed' = IF i \in Invalidated THEN [owed EXCEPT ![i] = @ + 1] ELSE owed
  /\ UNCHANGED <<cache, job, req>>

Update(i) ==
  /\ Exists(i) /\ row[i].version < MaxVersion
  /\ row' = [row EXCEPT ![i].version = @ + 1]
  /\ Written(i)

Remove(i) ==
  /\ Exists(i)
  /\ row' = [row EXCEPT ![i].st = "gone"]
  /\ Written(i)

\* deleteUserFromCache, done or failed.
Invalidate(i) ==
  /\ owed[i] > 0
  /\ owed' = [owed EXCEPT ![i] = @ - 1]
  /\ cache' \in {cache, [cache EXCEPT ![i] = Nothing]}
  /\ UNCHANGED <<row, job, req>>

-----------------------------------------------------------------------------
(* The worker of the queue, and the lifetime of cached records.             *)

\* process, and the removal of the completed job.
RunJob(i) ==
  /\ job[i] # Nothing
  /\ cache' = [cache EXCEPT ![i] = job[i]]
  /\ job' = [job EXCEPT ![i] = Nothing]
  /\ UNCHANGED <<row, owed, req>>

\* A worker stalls after process: the job runs again.
StallJob(i) ==
  /\ job[i] # Nothing
  /\ cache' = [cache EXCEPT ![i] = job[i]]
  /\ UNCHANGED <<row, job, owed, req>>

\* A job that has failed is removed and not tried again.
FailJob(i) ==
  /\ job[i] # Nothing
  /\ job' = [job EXCEPT ![i] = Nothing]
  /\ UNCHANGED <<row, cache, owed, req>>

Expire(i) ==
  /\ cache[i] # Nothing
  /\ cache' = [cache EXCEPT ![i] = Nothing]
  /\ UNCHANGED <<row, job, owed, req>>

-----------------------------------------------------------------------------

PaginationInit ==
  /\ row = [i \in Ids |-> NoRow]
  /\ cache = [i \in Ids |-> Nothing]
  /\ job = [i \in Ids |-> Nothing]
  /\ owed = [i \in Ids |-> 0]
  /\ req = [q \in Requests |-> NoRequest]

PageStep(q) ==
  \/ StartWalk(q) \/ QueryIds(q) \/ Lookup(q) \/ Fetch(q) \/ Enqueue(q) \/ AnswerPage(q)
  \/ Miss(q) \/ Load(q) \/ Store(q) \/ Fail(q)

RecordStep(i) ==
  \/ Insert(i) \/ Update(i) \/ Remove(i) \/ Invalidate(i)
  \/ RunJob(i) \/ StallJob(i) \/ FailJob(i) \/ Expire(i)

PaginationNext == (\E q \in Requests : PageStep(q)) \/ (\E i \in Ids : RecordStep(i))

PaginationSpec == PaginationInit /\ [][PaginationNext]_paginationVars

\* The worker takes every job, and a cached record expires: its key is set again
\* only after it was missing.  Nothing is assumed of clients and writers.
PaginationFairSpec ==
  /\ PaginationSpec
  /\ \A i \in Ids : WF_paginationVars(RunJob(i)) /\ WF_paginationVars(Expire(i))

=============================================================================
