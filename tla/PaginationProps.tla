-------------------------- MODULE PaginationProps --------------------------
(* Properties of Pagination.                                               *)
EXTENDS Pagination

RowRecord == [st : {"none", "there", "gone"}, at : Instants \union {0}, version : 0..MaxVersion]

RequestRecord ==
  [pc : {"idle", "ask", "lookup", "fetch", "enqueue", "answer", "done", "load", "store"},
   want : SUBSET Ids, base : SUBSET Ids, shown : SUBSET Ids, page : SUBSET Ids,
   cursor : (Instants \union {0}) \X (Ids \union {0}), more : BOOLEAN,
   node : [Ids -> 0..MaxVersion], queue : SUBSET Ids]

RowsOK ==
  row \in [Ids -> RowRecord] /\ \A i \in Ids : row[i].st = "none" => row[i] = NoRow

\* Only the writers of rows that are invalidated owe anything.
OwedOK == owed \in [Ids -> Nat] /\ \A i \in Ids \ Invalidated : owed[i] = 0

CacheOK ==
  /\ cache \in [Ids -> 0..MaxVersion] /\ job \in [Ids -> 0..MaxVersion]
  /\ OwedOK
  /\ \A i \in Ids : cache[i] <= row[i].version /\ job[i] <= row[i].version

RequestOK(r) ==
  /\ r \in RequestRecord
  /\ r.cursor = Start \/ \E i \in r.shown : r.cursor = Position(i)
  /\ \A i \in Ids : r.node[i] <= row[i].version

\* Types; the cursor of a walk is that of a row it has shown (encodeCursor loses
\* nothing), and whatever is cached, queued or read is a version the row has had.
PaginationTypeOK ==
  /\ RowsOK
  /\ CacheOK
  /\ req \in [Requests -> RequestRecord]
  /\ \A q \in Requests : RequestOK(req[q])

OnPage(q) == req[q].pc \in {"lookup", "fetch", "enqueue", "answer"}

\* A walk never shows a row twice, whatever is inserted, changed or removed between
\* its pages: the cursor in createPaginationCached leads past all that was shown.
WalkNoRepeat == \A q \in Requests : OnPage(q) => req[q].page \cap req[q].shown = {}

\* A walk that ends with hasNextPage false has shown every row of its filter that
\* was there when it began and still is.
WalkComplete ==
  \A q \in Requests : req[q].pc = "done" => Matching(req[q].base) \subseteq req[q].shown

\* A page that says it has a successor shows a row, whose cursor the client can
\* send, and some row of the filter that is not gone unless by a removal comes after
\* all of them.
NextPageFollows ==
  \A q \in Requests :
    OnPage(q) /\ req[q].more =>
      /\ req[q].page # {}
      /\ \E i \in req[q].want :
           /\ row[i].st # "none"
           /\ \A j \in req[q].page : Before(Position(j), Position(i))

-----------------------------------------------------------------------------
(* The inductive invariant behind the three: where a walk stands.          *)

Known(i) == row[i].st # "none"

\* What has been shown is not after the cursor, and of the rows that were there from
\* the beginning nothing before the cursor is left out.
BehindCursor(r) ==
  /\ \A i \in r.shown : Known(i) /\ ~After(r.cursor, i)
  /\ \A i \in r.base : Known(i) /\ i \in r.want
  /\ r.pc = "ask" => \A i \in Matching(r.base) \ r.shown : After(r.cursor, i)
  /\ r.pc = "done" => Matching(r.base) \subseteq r.shown

\* What a page leaves out comes after all of it, if there is a next page.
PageSound(r) ==
  LET left == Matching(r.base) \ (r.shown \union r.page)
  IN
  r.pc \in {"lookup", "fetch", "enqueue", "answer"} =>
    /\ \A i \in r.page : Known(i) /\ After(r.cursor, i)
    /\ ~r.more => left = {}
    /\ r.more =>
         /\ r.page # {}
         /\ \A i \in left, j \in r.page : Before(Position(j), Position(i))
         /\ \E i \in r.want :
              Known(i) /\ \A j \in r.page : Before(Position(j), Position(i))

PaginationInv ==
  PaginationTypeOK /\ \A q \in Requests : BehindCursor(req[q]) /\ PageSound(req[q])

-----------------------------------------------------------------------------
\* A stale record does not live on in the cache: when writers have come to rest,
\* every cached record comes to be the present one, although jobs store what they
\* were given long ago and a pending job keeps out a newer record (pagination-cache
\* producer and consumer).
StaleFades ==
  \A i \in Ids : <>[](cache[i] # Nothing => Exists(i) /\ cache[i] = row[i].version)

\* Every page that is answered has its nodes: the assertion
\* fetchedRecordsMap.get(id)! of createPaginationCached.
NodesDefined == \A q \in Requests : req[q].pc = "answer" => Undefined(q) = {}

=============================================================================
