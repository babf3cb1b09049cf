-------------------------- MODULE PaginationProofs --------------------------
(* Proofs about Pagination: its inductive invariant, and what a walk may    *)
(* rely on, for any number of rows, clients and page sizes.                 *)
EXTENDS PaginationProps, FiniteSetTheorems, TLAPS

\* What PaginationInv says of one request.
Sound(r) == RequestOK(r) /\ BehindCursor(r) /\ PageSound(r)

-----------------------------------------------------------------------------
(* Order.                                                                  *)

Point == Nat \X Nat

LEMMA Naturals0 == Ids \union {0} \subseteq Nat /\ Instants \union {0} \subseteq Nat
BY PaginationAssumption DEF PaginationAssumption

LEMMA PositionPoint ==
  ASSUME RowsOK, NEW i \in Ids
  PROVE  Position(i) \in Point /\ Position(i)[2] = i
<1>1. row[i] \in RowRecord /\ i \in Nat
  BY Naturals0 DEF RowsOK
<1>2. row[i].at \in Instants \union {0}
  BY <1>1 DEF RowRecord
<1>3. row[i].at \in Nat
  BY <1>2, Naturals0
<1> QED
  BY <1>1, <1>3 DEF Position, Point

LEMMA BeforeTransitive ==
  ASSUME NEW a \in Point, NEW b \in Point, NEW c \in Point, Before(a, b), Before(b, c)
  PROVE  Before(a, c)
BY DEF Before, Point

LEMMA BeforeAsymmetric ==
  ASSUME NEW a \in Point, NEW b \in Point, Before(a, b)
  PROVE  ~Before(b, a)
BY DEF Before, Point

LEMMA BeforeIrreflexive ==
  ASSUME NEW a \in Point
  PROVE  ~Before(a, a)
BY DEF Before, Point

LEMMA CursorPoint ==
  ASSUME NEW r \in RequestRecord
  PROVE  r.cursor \in Point
<1>1. r.cursor \in (Instants \union {0}) \X (Ids \union {0})
  BY DEF RequestRecord
<1> QED
  BY <1>1, Naturals0 DEF Point

-----------------------------------------------------------------------------
(* Initial states.                                                         *)

LEMMA NoRequestSound ==
  ASSUME RowsOK
  PROVE  Sound(NoRequest)
<1>1. NoRequest \in RequestRecord
  BY PaginationAssumption DEF PaginationAssumption, NoRequest, RequestRecord, Start, Nothing
<1>2. \A i \in Ids : 0 <= row[i].version
  <2>1. \A i \in Ids : row[i] \in RowRecord
    BY DEF RowsOK
  <2> QED
    BY <2>1 DEF RowRecord
<1> QED
  BY <1>1, <1>2 DEF Sound, RequestOK, NoRequest, BehindCursor, PageSound, Start, Nothing, Matching

LEMMA PaginationInitInv == PaginationInit => PaginationInv
<1> SUFFICES ASSUME PaginationInit
             PROVE  PaginationInv
  OBVIOUS
<1>1. RowsOK
  <2>1. NoRow \in RowRecord
    BY PaginationAssumption DEF PaginationAssumption, NoRow, RowRecord
  <2> QED
    BY <2>1 DEF PaginationInit, RowsOK
<1>2. CacheOK
  BY PaginationAssumption DEF PaginationAssumption, PaginationInit, CacheOK, OwedOK, NoRow, Nothing
<1>3. \A q \in Requests : Sound(req[q])
  BY <1>1, NoRequestSound DEF PaginationInit
<1>4. req \in [Requests -> RequestRecord]
  BY <1>1, NoRequestSound DEF PaginationInit, Sound, RequestOK
<1> QED
  BY <1>1, <1>2, <1>3, <1>4 DEF PaginationInv, PaginationTypeOK, Sound

-----------------------------------------------------------------------------
(* Steps of requests: one record changes and the rows stay.                *)

LEMMA RequestStep ==
  ASSUME PaginationInv, UNCHANGED row, CacheOK',
         NEW q \in Requests, NEW r, Sound(r), req' = [req EXCEPT ![q] = r]
  PROVE  PaginationInv'
<1>1. RowsOK'
  BY DEF PaginationInv, PaginationTypeOK, RowsOK
<1>2. req \in [Requests -> RequestRecord] /\ r \in RequestRecord
  BY DEF PaginationInv, PaginationTypeOK, Sound, RequestOK
<1>3. ASSUME NEW p \in Requests
      PROVE  req'[p] \in RequestRecord /\ Sound(req'[p])
  <2>1. CASE p = q
    BY <1>2, <2>1
  <2>2. CASE p # q
    <3>1. req'[p] = req[p]
      BY <1>2, <2>2
    <3> QED
      BY <1>2, <3>1 DEF PaginationInv, PaginationTypeOK, Sound
  <2> QED
    BY <2>1, <2>2
<1>4. req' \in [Requests -> RequestRecord]
  BY <1>2
<1>5. ASSUME NEW p \in Requests
      PROVE  RequestOK(req[p])' /\ BehindCursor(req[p])' /\ PageSound(req[p])'
  BY <1>3 DEF Sound, RequestOK, BehindCursor, PageSound, Position, Matching, Exists, After, Known
<1> QED
  BY <1>1, <1>4, <1>5 DEF PaginationInv, PaginationTypeOK

LEMMA RequestFits ==
  ASSUME PaginationInv, NEW q \in Requests
  PROVE  Sound(req[q]) /\ req[q] \in RequestRecord /\ RowsOK
BY DEF PaginationInv, PaginationTypeOK, Sound, RequestOK

LEMMA CacheUnchanged ==
  ASSUME PaginationInv, UNCHANGED <<row, cache, job, owed>>
  PROVE  CacheOK'
BY DEF PaginationInv, PaginationTypeOK, CacheOK, OwedOK

LEMMA StartWalkInv ==
  ASSUME PaginationInv, NEW q \in Requests, StartWalk(q)
  PROVE  PaginationInv'
<1>1. PICK want \in Filters :
        req' = [req EXCEPT ![q] = [NoRequest EXCEPT !.pc = "ask", !.want = want,
                                                    !.base = Matching(want)]]
  BY DEF StartWalk
<1> DEFINE r == [NoRequest EXCEPT !.pc = "ask", !.want = want, !.base = Matching(want)]
<1>2. Sound(NoRequest) /\ RowsOK
  BY RequestFits, NoRequestSound
<1>3. want \subseteq Ids /\ Matching(want) \subseteq Ids
  BY PaginationAssumption DEF PaginationAssumption, Matching
<1>4. RequestOK(r)
  <2>1. NoRequest \in RequestRecord
    BY <1>2 DEF Sound, RequestOK
  <2>2. r \in RequestRecord
    BY <1>3, <2>1 DEF RequestRecord
  <2>3. r.cursor = Start /\ r.node = NoRequest.node
    BY DEF NoRequest
  <2> QED
    BY <1>2, <2>2, <2>3 DEF Sound, RequestOK
<1>5. \A i \in Matching(want) : After(Start, i)
  <2>1. ASSUME NEW i \in Ids
        PROVE  After(Start, i)
    <3>1. i \in Nat \ {0} /\ row[i].at \in Nat
      BY <1>2, PositionPoint, PaginationAssumption DEF PaginationAssumption, Position, Point
    <3> QED
      BY <3>1 DEF After, Before, Start, Position
  <2> QED
    BY <1>3, <2>1
<1>6. BehindCursor(r) /\ PageSound(r)
  BY <1>5 DEF BehindCursor, PageSound, NoRequest, Matching, Known, Exists
<1>7. UNCHANGED <<row, cache, job, owed>>
  BY DEF StartWalk
<1> QED
  BY <1>1, <1>4, <1>6, <1>7, CacheUnchanged, RequestStep DEF Sound

-----------------------------------------------------------------------------
(* The query for ids.                                                      *)

LEMMA PointsOfRows ==
  ASSUME PaginationInv, NEW q \in Requests
  PROVE  /\ req[q].cursor \in Point
         /\ \A i \in Ids : Position(i) \in Point
BY RequestFits, CursorPoint, PositionPoint

\* What LIMIT leaves out comes after all that is found.
LEMMA LeftOut ==
  ASSUME PaginationInv, NEW q \in Requests, req[q].pc = "ask",
         NEW found, NEW n,
         Selects(found, {i \in Matching(req[q].want) : After(req[q].cursor, i)}, n)
  PROVE  /\ found \subseteq req[q].want /\ found \subseteq Ids
         /\ \A i \in found : Known(i) /\ After(req[q].cursor, i)
         /\ \A i \in Matching(req[q].base) \ (req[q].shown \union found), j \in found :
              Before(Position(j), Position(i))
         /\ Cardinality(found) # n => Matching(req[q].base) \subseteq req[q].shown \union found
<1> DEFINE S == {i \in Matching(req[q].want) : After(req[q].cursor, i)}
<1>1. /\ BehindCursor(req[q])
      /\ req[q].want \subseteq Ids
  BY RequestFits DEF Sound, RequestRecord
<1>2. \A i \in Matching(req[q].base) \ req[q].shown : i \in S
  BY <1>1 DEF BehindCursor, Matching
<1>3. found \subseteq S /\ \A i \in found, j \in S \ found : Before(Position(i), Position(j))
  BY DEF Selects
<1>4. \A i \in S : i \in req[q].want /\ Known(i) /\ After(req[q].cursor, i)
  BY DEF Matching, Exists, Known
<1>5. Cardinality(found) # n => found = S
  BY DEF Selects
<1> HIDE DEF S
<1> QED
  BY <1>1, <1>2, <1>3, <1>4, <1>5

\* The record of a request that has got a page.
LEMMA GotPage ==
  ASSUME PaginationInv, NEW q \in Requests, req[q].pc = "ask",
         NEW page \in SUBSET Ids, NEW more \in BOOLEAN,
         GetPage(q, page, more), UNCHANGED <<row, cache, job, owed>>,
         \A i \in page : Known(i) /\ After(req[q].cursor, i),
         ~more => Matching(req[q].base) \subseteq req[q].shown \union page,
         more => /\ page # {}
                 /\ \A i \in Matching(req[q].base) \ (req[q].shown \union page), j \in page :
                      Before(Position(j), Position(i))
                 /\ \E i \in req[q].want :
                      Known(i) /\ \A j \in page : Before(Position(j), Position(i))
  PROVE  PaginationInv'
<1> DEFINE r == [req[q] EXCEPT !.pc = "lookup", !.page = page, !.more = more]
<1>1. Sound(req[q]) /\ req[q] \in RequestRecord
  BY RequestFits
<1>2. r \in RequestRecord
  BY <1>1 DEF RequestRecord
<1>3. /\ r.cursor = req[q].cursor /\ r.shown = req[q].shown /\ r.node = req[q].node
      /\ r.base = req[q].base /\ r.want = req[q].want
      /\ r.pc = "lookup" /\ r.page = page /\ r.more = more
  BY <1>1 DEF RequestRecord
<1>4. req' = [req EXCEPT ![q] = r]
  BY DEF GetPage
<1> HIDE DEF r
<1>5. RequestOK(r)
  BY <1>1, <1>2, <1>3 DEF Sound, RequestOK
<1>6. BehindCursor(r)
  BY <1>1, <1>3 DEF Sound, BehindCursor
<1>7. PageSound(r)
  BY <1>3 DEF PageSound
<1> QED
  BY <1>4, <1>5, <1>6, <1>7, CacheUnchanged, RequestStep DEF Sound

LEMMA QueryIdsInv ==
  ASSUME PaginationInv, NEW q \in Requests, QueryIds(q)
  PROVE  PaginationInv'
<1> DEFINE S == {i \in Matching(req[q].want) : After(req[q].cursor, i)}
<1>1. PICK limit \in 1..MaxLimit, found \in SUBSET Ids :
        /\ Selects(found, S, limit + 1)
        /\ \/ ~HasNext(found, limit) /\ GetPage(q, found, FALSE)
           \/ /\ HasNext(found, limit)
              /\ \E i \in found : IsLast(i, found) /\ GetPage(q, found \ {i}, TRUE)
  BY DEF QueryIds
<1>2. req[q].pc = "ask" /\ UNCHANGED <<row, cache, job, owed>>
  BY DEF QueryIds
<1>3. limit \in Nat \ {0}
  BY <1>1, PaginationAssumption DEF PaginationAssumption
<1>4. /\ found \subseteq req[q].want
      /\ \A i \in found : Known(i) /\ After(req[q].cursor, i)
      /\ \A i \in Matching(req[q].base) \ (req[q].shown \union found), j \in found :
           Before(Position(j), Position(i))
      /\ Cardinality(found) # limit + 1 =>
           Matching(req[q].base) \subseteq req[q].shown \union found
  BY <1>1, <1>2, LeftOut
<1>5. CASE ~HasNext(found, limit) /\ GetPage(q, found, FALSE)
  <2>1. Cardinality(found) # limit + 1
    BY <1>3, <1>5 DEF HasNext
  <2> QED
    BY <1>2, <1>4, <1>5, <2>1, GotPage
<1>6. CASE /\ HasNext(found, limit)
           /\ \E i \in found : IsLast(i, found) /\ GetPage(q, found \ {i}, TRUE)
  <2>1. PICK last \in found : IsLast(last, found) /\ GetPage(q, found \ {last}, TRUE)
    BY <1>6
  <2> DEFINE page == found \ {last}
  <2>2. page # {}
    <3>1. SUFFICES ASSUME found = {last}
                   PROVE  FALSE
      BY <2>1
    <3>2. Cardinality(found) = 1
      BY <3>1, FS_Singleton
    <3> QED
      BY <1>3, <1>6, <3>2 DEF HasNext
  <2>3. last \in req[q].want /\ Known(last)
        /\ \A j \in page : Before(Position(j), Position(last))
    BY <1>4, <2>1 DEF IsLast
  <2>4. \A i \in Matching(req[q].base) \ (req[q].shown \union page), j \in page :
          Before(Position(j), Position(i))
    BY <1>4, <2>3
  <2>5. page \in SUBSET Ids /\ \A i \in page : Known(i) /\ After(req[q].cursor, i)
    BY <1>1, <1>4
  <2>6. GetPage(q, page, TRUE)
    BY <2>1
  <2> HIDE DEF page
  <2> QED
    BY <1>2, <2>2, <2>3, <2>4, <2>5, <2>6, GotPage
<1> QED
  BY <1>1, <1>5, <1>6

-----------------------------------------------------------------------------
(* The steps between the query and the answer.                             *)

\* A request that stays on its page.
LEMMA SamePage ==
  ASSUME PaginationInv, NEW q \in Requests, OnPage(q), UNCHANGED row, CacheOK',
         NEW pc \in {"fetch", "enqueue", "answer"}, NEW node \in [Ids -> 0..MaxVersion],
         NEW queue \in SUBSET Ids, \A i \in Ids : node[i] <= row[i].version,
         req' = [req EXCEPT ![q] = [req[q] EXCEPT !.pc = pc, !.node = node, !.queue = queue]]
  PROVE  PaginationInv'
<1> DEFINE r == [req[q] EXCEPT !.pc = pc, !.node = node, !.queue = queue]
<1>1. Sound(req[q]) /\ req[q] \in RequestRecord
  BY RequestFits
<1>2. r \in RequestRecord
  BY <1>1 DEF RequestRecord
<1>3. /\ r.cursor = req[q].cursor /\ r.shown = req[q].shown /\ r.base = req[q].base
      /\ r.want = req[q].want /\ r.page = req[q].page /\ r.more = req[q].more
      /\ r.pc = pc /\ r.node = node
  BY <1>1 DEF RequestRecord
<1>4. req' = [req EXCEPT ![q] = r]
  OBVIOUS
<1> HIDE DEF r
<1>5. RequestOK(r)
  BY <1>1, <1>2, <1>3 DEF Sound, RequestOK
<1>6. BehindCursor(r)
  BY <1>1, <1>3 DEF Sound, BehindCursor
<1>7. PageSound(r)
  BY <1>1, <1>3 DEF Sound, PageSound, OnPage
<1> QED
  BY <1>4, <1>5, <1>6, <1>7, RequestStep DEF Sound

LEMMA NodeTypes ==
  ASSUME PaginationInv, NEW q \in Requests
  PROVE  /\ req[q].node \in [Ids -> 0..MaxVersion]
         /\ \A i \in Ids : req[q].node[i] <= row[i].version
         /\ req[q].page \subseteq Ids /\ req[q].queue \subseteq Ids
         /\ \A i \in Ids : row[i].version \in 0..MaxVersion
         /\ 0 \in 0..MaxVersion
         /\ \A i \in Ids : 0 <= row[i].version
<1>1. /\ req[q].node \in [Ids -> 0..MaxVersion]
      /\ req[q].page \subseteq Ids /\ req[q].queue \subseteq Ids
  BY RequestFits DEF RequestRecord
<1>2. \A i \in Ids : req[q].node[i] <= row[i].version
  BY RequestFits DEF Sound, RequestOK
<1>3. \A i \in Ids : row[i].version \in 0..MaxVersion
  BY RequestFits DEF RowsOK, RowRecord
<1>4. 0 \in 0..MaxVersion /\ \A i \in Ids : 0 <= row[i].version
  BY <1>3, PaginationAssumption DEF PaginationAssumption
<1> QED
  BY <1>1, <1>2, <1>3, <1>4

LEMMA LookupInv ==
  ASSUME PaginationInv, NEW q \in Requests, Lookup(q)
  PROVE  PaginationInv'
<1> DEFINE hits == {i \in req[q].page : cache[i] # Nothing}
           node == [i \in Ids |-> IF i \in hits THEN cache[i] ELSE Nothing]
           pc == IF hits = req[q].page THEN "answer" ELSE "fetch"
<1>1. req' = [req EXCEPT ![q].pc = pc, ![q].node = node]
  BY DEF Lookup
<1>2. OnPage(q) /\ UNCHANGED <<row, cache, job, owed>>
  BY DEF Lookup, OnPage
<1>3. CacheOK
  BY DEF PaginationInv, PaginationTypeOK
<1>4. node \in [Ids -> 0..MaxVersion] /\ \A i \in Ids : node[i] <= row[i].version
  BY <1>3, NodeTypes DEF CacheOK, Nothing
<1>5. pc \in {"fetch", "enqueue", "answer"}
  OBVIOUS
<1> HIDE DEF node, pc
<1>6. req' = [req EXCEPT ![q] = [req[q] EXCEPT !.pc = pc, !.node = node,
                                               !.queue = req[q].queue]]
  BY <1>1, RequestFits DEF RequestRecord, PaginationInv, PaginationTypeOK
<1> QED
  BY <1>2, <1>4, <1>5, <1>6, NodeTypes, CacheUnchanged, SamePage

LEMMA FetchInv ==
  ASSUME PaginationInv, NEW q \in Requests, Fetch(q)
  PROVE  PaginationInv'
<1> DEFINE Fetched(i) == i \in req[q].page /\ req[q].node[i] = Nothing /\ Exists(i)
           node == [i \in Ids |-> IF Fetched(i) THEN row[i].version ELSE req[q].node[i]]
           pc == IF ToQueue(q) = {} THEN "answer" ELSE "enqueue"
<1>1. req' = [req EXCEPT ![q].pc = pc, ![q].node = node, ![q].queue = ToQueue(q)]
  BY DEF Fetch
<1>2. OnPage(q) /\ UNCHANGED <<row, cache, job, owed>>
  BY DEF Fetch, OnPage
<1>3. node \in [Ids -> 0..MaxVersion] /\ \A i \in Ids : node[i] <= row[i].version
  BY NodeTypes
<1>4. pc \in {"fetch", "enqueue", "answer"}
  OBVIOUS
<1>5. ToQueue(q) \in SUBSET Ids
  BY NodeTypes DEF ToQueue
<1> HIDE DEF node, pc
<1>6. req' = [req EXCEPT ![q] = [req[q] EXCEPT !.pc = pc, !.node = node,
                                               !.queue = ToQueue(q)]]
  BY <1>1
<1> QED
  BY <1>2, <1>3, <1>4, <1>5, <1>6, CacheUnchanged, SamePage

LEMMA EnqueueInv ==
  ASSUME PaginationInv, NEW q \in Requests, Enqueue(q)
  PROVE  PaginationInv'
<1>1. PICK i \in req[q].queue :
        /\ job' = IF job[i] = Nothing THEN [job EXCEPT ![i] = req[q].node[i]] ELSE job
        /\ req' = [req EXCEPT ![q].queue = @ \ {i},
                              ![q].pc = IF req[q].queue = {i} THEN "answer" ELSE "enqueue"]
  BY DEF Enqueue
<1> DEFINE pc == IF req[q].queue = {i} THEN "answer" ELSE "enqueue"
<1>2. OnPage(q) /\ UNCHANGED <<row, cache, owed>>
  BY DEF Enqueue, OnPage
<1>3. CacheOK'
  BY <1>1, <1>2, NodeTypes DEF PaginationInv, PaginationTypeOK, CacheOK, OwedOK
<1>4. pc \in {"fetch", "enqueue", "answer"} /\ req[q].queue \ {i} \in SUBSET Ids
  BY NodeTypes
<1> HIDE DEF pc
<1>5. req' = [req EXCEPT ![q] = [req[q] EXCEPT !.pc = pc, !.node = req[q].node,
                                               !.queue = req[q].queue \ {i}]]
  BY <1>1, RequestFits DEF RequestRecord, PaginationInv, PaginationTypeOK, pc
<1> QED
  BY <1>2, <1>3, <1>4, <1>5, NodeTypes, SamePage

-----------------------------------------------------------------------------
(* The answer.                                                             *)

\* A request that ends, in whatever way.
LEMMA EndInv ==
  ASSUME PaginationInv, NEW q \in Requests, req' = [req EXCEPT ![q] = NoRequest],
         UNCHANGED row, CacheOK'
  PROVE  PaginationInv'
BY RequestFits, NoRequestSound, RequestStep

\* What the next page begins from is sound if the cursor is that of the last row of
\* the page, or the page was empty.
LEMMA NextSound ==
  ASSUME PaginationInv, NEW q \in Requests, req[q].pc = "answer", NEW c,
         \/ req[q].page = {} /\ c = req[q].cursor
         \/ \E i \in req[q].page : IsLast(i, req[q].page) /\ c = Position(i)
  PROVE  Sound([NoRequest EXCEPT
           !.pc = IF req[q].more THEN "ask" ELSE "done", !.want = req[q].want,
           !.base = req[q].base, !.shown = req[q].shown \union req[q].page, !.cursor = c])
<1> DEFINE x == req[q]
           pc == IF x.more THEN "ask" ELSE "done"
           shown == x.shown \union x.page
           r == [NoRequest EXCEPT !.pc = pc, !.want = x.want, !.base = x.base,
                                  !.shown = shown, !.cursor = c]
<1>1. Sound(x) /\ x \in RequestRecord /\ RowsOK
  BY RequestFits
<1>2. Sound(NoRequest) /\ NoRequest \in RequestRecord
  BY <1>1, NoRequestSound DEF Sound, RequestOK
<1>3. x.page \subseteq Ids /\ x.shown \subseteq Ids /\ x.base \subseteq Ids /\ x.want \subseteq Ids
  BY <1>1 DEF RequestRecord
<1>4. c \in (Instants \union {0}) \X (Ids \union {0})
  <2>1. CASE c = x.cursor
    BY <1>1, <2>1 DEF RequestRecord
  <2>2. ASSUME NEW i \in x.page, c = Position(i)
        PROVE  c \in (Instants \union {0}) \X (Ids \union {0})
    BY <1>1, <1>3, <2>2 DEF RowsOK, RowRecord, Position
  <2> QED
    BY <2>1, <2>2
<1>5. r \in RequestRecord
  BY <1>2, <1>3, <1>4 DEF RequestRecord
<1>6. /\ r.pc = pc /\ r.want = x.want /\ r.base = x.base /\ r.shown = shown /\ r.cursor = c
      /\ r.node = NoRequest.node
  BY DEF NoRequest
<1>7. c = Start \/ \E i \in shown : c = Position(i)
  BY <1>1 DEF Sound, RequestOK
<1>8. RequestOK(r)
  BY <1>2, <1>5, <1>6, <1>7 DEF Sound, RequestOK
<1>9. /\ \A i \in x.page : Known(i) /\ After(x.cursor, i)
      /\ ~x.more => Matching(x.base) \subseteq shown
      /\ x.more => /\ x.page # {}
                   /\ \A i \in Matching(x.base) \ shown, j \in x.page :
                        Before(Position(j), Position(i))
  BY <1>1 DEF Sound, PageSound
<1>10. x.cursor \in Point /\ \A i \in Ids : Position(i) \in Point
  BY PointsOfRows
<1>11. \A i \in shown : Known(i) /\ ~After(c, i)
  <2>1. ASSUME NEW i \in x.shown
        PROVE  Known(i) /\ ~After(c, i)
    <3>1. Known(i) /\ ~After(x.cursor, i)
      BY <1>1 DEF Sound, BehindCursor
    <3>2. CASE c = x.cursor
      BY <3>1, <3>2
    <3>3. ASSUME NEW last \in x.page, c = Position(last), After(c, i)
          PROVE  FALSE
      <4>1. Before(x.cursor, Position(last)) /\ Before(Position(last), Position(i))
        BY <1>9, <3>3 DEF After
      <4>2. Before(x.cursor, Position(i))
        BY <1>3, <1>10, <4>1, BeforeTransitive
      <4> QED
        BY <3>1, <4>2 DEF After
    <3> QED
      BY <3>1, <3>2, <3>3
  <2>2. ASSUME NEW i \in x.page
        PROVE  Known(i) /\ ~After(c, i)
    <3>1. PICK last \in x.page : IsLast(last, x.page) /\ c = Position(last)
      BY <2>2
    <3>2. CASE i = last
      BY <1>3, <1>9, <1>10, <3>1, <3>2, BeforeIrreflexive DEF After
    <3>3. CASE i # last
      <4>1. Before(Position(i), Position(last))
        BY <3>1, <3>3, <2>2 DEF IsLast
      <4>2. ~Before(Position(last), Position(i))
        BY <1>3, <1>10, <4>1, BeforeAsymmetric
      <4> QED
        BY <1>9, <3>1, <4>2 DEF After
    <3> QED
      BY <3>2, <3>3
  <2> QED
    BY <2>1, <2>2
<1>12. \A i \in x.base : Known(i) /\ i \in x.want
  BY <1>1 DEF Sound, BehindCursor
<1>13. x.more => \A i \in Matching(x.base) \ shown : After(c, i)
  BY <1>9 DEF After
<1>14. BehindCursor(r)
  BY <1>6, <1>9, <1>11, <1>12, <1>13 DEF BehindCursor
<1>15. PageSound(r)
  BY <1>6 DEF PageSound
<1> QED
  BY <1>8, <1>14, <1>15 DEF Sound

LEMMA AnswerPageInv ==
  ASSUME PaginationInv, NEW q \in Requests, AnswerPage(q)
  PROVE  PaginationInv'
<1> DEFINE Next(c) == [NoRequest EXCEPT
             !.pc = IF req[q].more THEN "ask" ELSE "done", !.want = req[q].want,
             !.base = req[q].base, !.shown = req[q].shown \union req[q].page, !.cursor = c]
<1>1. req[q].pc = "answer" /\ UNCHANGED <<row, cache, job, owed>>
  BY DEF AnswerPage
<1>2. CacheOK'
  BY <1>1, CacheUnchanged
<1>3. CASE req' = [req EXCEPT ![q] = NoRequest]
  BY <1>1, <1>2, <1>3, EndInv
<1>4. CASE req[q].page = {} /\ req' = [req EXCEPT ![q] = Next(req[q].cursor)]
  <2>1. Sound(Next(req[q].cursor))
    BY <1>1, <1>4, NextSound
  <2> HIDE DEF Next
  <2> QED
    BY <1>1, <1>2, <1>4, <2>1, RequestStep
<1>5. ASSUME NEW i \in req[q].page, IsLast(i, req[q].page),
             req' = [req EXCEPT ![q] = Next(Cursor(i))]
      PROVE  PaginationInv'
  <2>1. Sound(Next(Cursor(i)))
    BY <1>1, <1>5, NextSound DEF Cursor
  <2> HIDE DEF Next
  <2> QED
    BY <1>1, <1>2, <1>5, <2>1, RequestStep
<1> QED
  BY <1>3, <1>4, <1>5 DEF AnswerPage

LEMMA FailInv ==
  ASSUME PaginationInv, NEW q \in Requests, Fail(q)
  PROVE  PaginationInv'
BY EndInv, CacheUnchanged DEF Fail

-----------------------------------------------------------------------------
(* The read of one record.                                                 *)

\* A request that is on no walk keeps what x says of one.
LEMMA SingleRead ==
  ASSUME PaginationInv, NEW q \in Requests, UNCHANGED <<row, cache, job, owed>>,
         NEW x, Sound(x), NEW r \in RequestRecord,
         r.base = x.base, r.want = x.want, r.shown = x.shown, r.cursor = x.cursor,
         r.pc \in {"load", "store"}, \A i \in Ids : r.node[i] <= row[i].version,
         req' = [req EXCEPT ![q] = r]
  PROVE  PaginationInv'
<1>1. RequestOK(r)
  BY DEF Sound, RequestOK
<1>2. BehindCursor(r) /\ PageSound(r)
  BY DEF Sound, BehindCursor, PageSound
<1> QED
  BY <1>1, <1>2, CacheUnchanged, RequestStep DEF Sound

LEMMA MissInv ==
  ASSUME PaginationInv, NEW q \in Requests, Miss(q)
  PROVE  PaginationInv'
<1>1. PICK i \in Ids :
        req' = [req EXCEPT ![q] = [NoRequest EXCEPT !.pc = "load", !.page = {i}]]
  BY DEF Miss
<1> DEFINE r == [NoRequest EXCEPT !.pc = "load", !.page = {i}]
<1>2. Sound(NoRequest) /\ NoRequest \in RequestRecord
  BY RequestFits, NoRequestSound DEF Sound, RequestOK
<1>3. r \in RequestRecord
  BY <1>2 DEF RequestRecord
<1>4. /\ r.base = NoRequest.base /\ r.want = NoRequest.want /\ r.shown = NoRequest.shown
      /\ r.cursor = NoRequest.cursor /\ r.node = NoRequest.node /\ r.pc = "load"
  BY DEF NoRequest
<1>5. \A i_1 \in Ids : r.node[i_1] <= row[i_1].version
  BY <1>2, <1>4 DEF Sound, RequestOK
<1>6. UNCHANGED <<row, cache, job, owed>>
  BY DEF Miss
<1> HIDE DEF r
<1> QED
  BY <1>1, <1>2, <1>3, <1>4, <1>5, <1>6, SingleRead DEF r

LEMMA LoadInv ==
  ASSUME PaginationInv, NEW q \in Requests, Load(q)
  PROVE  PaginationInv'
<1>1. PICK i \in req[q].page :
        req' = IF Exists(i) THEN [req EXCEPT ![q].pc = "store", ![q].node[i] = row[i].version]
               ELSE [req EXCEPT ![q] = NoRequest]
  BY DEF Load
<1>2. UNCHANGED <<row, cache, job, owed>>
  BY DEF Load
<1>3. CASE ~Exists(i)
  BY <1>1, <1>2, <1>3, CacheUnchanged, EndInv
<1>4. CASE Exists(i)
  <2> DEFINE node == [req[q].node EXCEPT ![i] = row[i].version]
             r == [req[q] EXCEPT !.pc = "store", !.node = node]
  <2>1. Sound(req[q]) /\ req[q] \in RequestRecord
    BY RequestFits
  <2>2. node \in [Ids -> 0..MaxVersion] /\ \A j \in Ids : node[j] <= row[j].version
    BY NodeTypes
  <2>3. req' = [req EXCEPT ![q] = r]
    BY <1>1, <1>4
  <2> HIDE DEF node
  <2>4. r \in RequestRecord
    BY <2>1, <2>2 DEF RequestRecord
  <2>5. /\ r.base = req[q].base /\ r.want = req[q].want /\ r.shown = req[q].shown
        /\ r.cursor = req[q].cursor /\ r.node = node /\ r.pc = "store"
    BY <2>1 DEF RequestRecord
  <2> HIDE DEF r
  <2> QED
    BY <1>2, <2>1, <2>2, <2>3, <2>4, <2>5, SingleRead
<1> QED
  BY <1>3, <1>4

LEMMA StoreInv ==
  ASSUME PaginationInv, NEW q \in Requests, Store(q)
  PROVE  PaginationInv'
<1>1. PICK i \in req[q].page : cache' = [cache EXCEPT ![i] = req[q].node[i]]
  BY DEF Store
<1>2. req' = [req EXCEPT ![q] = NoRequest] /\ UNCHANGED <<row, job, owed>>
  BY DEF Store
<1>3. CacheOK'
  BY <1>1, <1>2, NodeTypes DEF PaginationInv, PaginationTypeOK, CacheOK, OwedOK
<1> QED
  BY <1>2, <1>3, EndInv

LEMMA RequestStepsInv ==
  ASSUME PaginationInv, NEW q \in Requests, PageStep(q)
  PROVE  PaginationInv'
BY StartWalkInv, QueryIdsInv, LookupInv, FetchInv, EnqueueInv, AnswerPageInv, MissInv,
   LoadInv, StoreInv, FailInv DEF PageStep

-----------------------------------------------------------------------------
(* Writers and the worker: the records of requests stay.                   *)

\* Rows that are known keep their place, and no row comes back.
RowsGoOn ==
  /\ RowsOK'
  /\ \A i \in Ids : row[i].version <= row'[i].version
  /\ \A i \in Ids : Known(i) => row'[i].st # "none" /\ row'[i].at = row[i].at
  /\ \A i \in Ids : row'[i].st = "there" => Exists(i) \/ ~Known(i)

LEMMA RowStep ==
  ASSUME PaginationInv, RowsGoOn, CacheOK', UNCHANGED req
  PROVE  PaginationInv'
<1> SUFFICES ASSUME NEW q \in Requests
             PROVE  RequestOK(req[q])' /\ BehindCursor(req[q])' /\ PageSound(req[q])'
  BY DEF PaginationInv, PaginationTypeOK, RowsGoOn
<1> DEFINE x == req[q]
<1>1. Sound(x) /\ x \in RequestRecord /\ RowsOK
  BY RequestFits
<1>2. /\ x.page \subseteq Ids /\ x.shown \subseteq Ids /\ x.base \subseteq Ids
      /\ x.want \subseteq Ids /\ x.node \in [Ids -> 0..MaxVersion]
  BY <1>1 DEF RequestRecord
<1>3. \A i \in Ids : Known(i) => Position(i)' = Position(i) /\ Known(i)'
  BY DEF RowsGoOn, Position, Known
<1>4. \A i \in x.base \union x.shown : Known(i)
  BY <1>1 DEF Sound, BehindCursor
<1>5. Matching(x.base)' \subseteq Matching(x.base)
  BY <1>2, <1>4 DEF Matching, Exists, RowsGoOn
<1>6. UNCHANGED x
  OBVIOUS
<1>7. RequestOK(x)'
  <2>1. \A i \in Ids : x.node[i] <= row'[i].version
    <3>1. ASSUME NEW i \in Ids
          PROVE  x.node[i] <= row'[i].version
      <4>1. x.node[i] <= row[i].version /\ row[i].version <= row'[i].version
        BY <1>1 DEF Sound, RequestOK, RowsGoOn
      <4>2. row[i].version \in Int /\ row'[i].version \in Int /\ x.node[i] \in Int
        <5>1. x.node[i] \in 0..MaxVersion
          BY <1>2
        <5>2. row[i].version \in 0..MaxVersion
          BY <1>1 DEF RowsOK, RowRecord
        <5>3. row'[i].version \in 0..MaxVersion
          BY DEF RowsGoOn, RowsOK, RowRecord
        <5> QED
          BY <5>1, <5>2, <5>3
      <4> QED
        BY <4>1, <4>2
    <3> QED
      BY <3>1
  <2>2. x.cursor = Start \/ \E i \in x.shown : x.cursor = Position(i)'
    BY <1>1, <1>2, <1>3, <1>4 DEF Sound, RequestOK
  <2> QED
    BY <1>1, <1>6, <2>1, <2>2 DEF RequestOK, Position
<1>8. BehindCursor(x)'
  <2>1. \A i \in x.shown : Known(i)' /\ ~After(x.cursor, i)'
    BY <1>1, <1>2, <1>3 DEF Sound, BehindCursor, After
  <2>2. \A i \in x.base : Known(i)' /\ i \in x.want
    BY <1>1, <1>2, <1>3 DEF Sound, BehindCursor
  <2>3. x.pc = "ask" => \A i \in Matching(x.base)' \ x.shown : After(x.cursor, i)'
    <3>1. \A i \in Matching(x.base) : i \in Ids /\ Known(i)
      BY <1>2, <1>4 DEF Matching
    <3> QED
      BY <1>1, <1>3, <1>5, <3>1 DEF Sound, BehindCursor, After
  <2>4. x.pc = "done" => Matching(x.base)' \subseteq x.shown
    BY <1>1, <1>5 DEF Sound, BehindCursor
  <2> QED
    BY <1>6, <2>1, <2>2, <2>3, <2>4 DEF BehindCursor
<1>9. PageSound(x)'
  <2> SUFFICES ASSUME x.pc \in {"lookup", "fetch", "enqueue", "answer"}
               PROVE  PageSound(x)'
    BY <1>6 DEF PageSound
  <2> DEFINE left == Matching(x.base) \ (x.shown \union x.page)
  <2>1. /\ \A i \in x.page : Known(i) /\ After(x.cursor, i)
        /\ ~x.more => left = {}
        /\ x.more => x.page # {}
        /\ x.more => \A i \in left, j \in x.page : Before(Position(j), Position(i))
        /\ x.more => \E i \in x.want :
                       Known(i) /\ \A j \in x.page : Before(Position(j), Position(i))
    BY <1>1 DEF Sound, PageSound
  <2>2. left' \subseteq left
    BY <1>5, <1>6
  <2>3. \A i \in left : i \in Ids /\ Known(i)
    BY <1>2, <1>4 DEF Matching
  <2>4. \A i \in x.page : Known(i)' /\ After(x.cursor, i)'
    BY <1>2, <1>3, <2>1 DEF After
  <2>5. ~x.more => left' = {}
    BY <2>1, <2>2
  <2>6. x.more => \A i \in left', j \in x.page : Before(Position(j)', Position(i)')
    BY <1>2, <1>3, <2>1, <2>2, <2>3
  <2>7. x.more => \E i \in x.want :
                    Known(i)' /\ \A j \in x.page : Before(Position(j)', Position(i)')
    BY <1>2, <1>3, <2>1
  <2> QED
    BY <1>6, <2>1, <2>4, <2>5, <2>6, <2>7 DEF PageSound, Before
<1> QED
  BY <1>7, <1>8, <1>9

\* One row is replaced by a later one; the rest follows from RowStep.
LEMMA RowChange ==
  ASSUME PaginationInv, NEW i \in Ids, NEW new \in RowRecord,
         row' = [row EXCEPT ![i] = new], UNCHANGED <<cache, job, req>>,
         OwedOK',
         row[i].version <= new.version, new.st # "none",
         Known(i) => new.at = row[i].at,
         new.st = "there" => Exists(i) \/ ~Known(i)
  PROVE  PaginationInv'
<1>1. /\ row \in [Ids -> RowRecord]
      /\ \A j \in Ids : row[j].st = "none" => row[j] = NoRow
      /\ CacheOK
  BY DEF PaginationInv, PaginationTypeOK, RowsOK
<1>2. row'[i] = new /\ \A j \in Ids \ {i} : row'[j] = row[j]
  BY <1>1
<1>3. RowsOK'
  <2>1. row' \in [Ids -> RowRecord]
    BY <1>1
  <2>2. \A j \in Ids : row'[j].st = "none" => row'[j] = NoRow
    BY <1>1, <1>2
  <2> QED
    BY <2>1, <2>2 DEF RowsOK
<1>4. \A j \in Ids : row[j].version \in Nat /\ row'[j].version \in Nat
  <2>1. \A j \in Ids : row[j].version \in 0..MaxVersion
    BY <1>1 DEF RowRecord
  <2>2. \A j \in Ids : row'[j].version \in 0..MaxVersion
    BY <1>3 DEF RowsOK, RowRecord
  <2> QED
    BY <2>1, <2>2, PaginationAssumption DEF PaginationAssumption
<1>5. \A j \in Ids : row[j].version <= row'[j].version
  BY <1>2, <1>4
<1>6. CacheOK'
  <2>1. ASSUME NEW j \in Ids
        PROVE  cache[j] <= row'[j].version /\ job[j] <= row'[j].version
    <3>1. cache[j] <= row[j].version /\ job[j] <= row[j].version
      BY <1>1 DEF CacheOK
    <3>2. cache[j] \in 0..MaxVersion /\ job[j] \in 0..MaxVersion
      BY <1>1 DEF CacheOK
    <3> QED
      BY <1>4, <1>5, <3>1, <3>2, PaginationAssumption DEF PaginationAssumption
  <2> QED
    BY <1>1, <2>1 DEF CacheOK
<1>7. RowsGoOn
  <2>1. \A j \in Ids : Known(j) => row'[j].st # "none" /\ row'[j].at = row[j].at
    BY <1>2 DEF Known
  <2>2. \A j \in Ids : row'[j].st = "there" => Exists(j) \/ ~Known(j)
    BY <1>2 DEF Exists
  <2> QED
    BY <1>3, <1>5, <2>1, <2>2 DEF RowsGoOn
<1> QED
  BY <1>6, <1>7, RowStep

LEMMA OneRow ==
  ASSUME PaginationInv, NEW i \in Ids
  PROVE  /\ row \in [Ids -> RowRecord] /\ row[i] \in RowRecord
         /\ row[i].st = "none" => row[i] = NoRow
BY DEF PaginationInv, PaginationTypeOK, RowsOK

LEMMA InsertInv ==
  ASSUME PaginationInv, NEW i \in Ids, Insert(i)
  PROVE  PaginationInv'
<1>1. PICK t \in Instants : row' = [row EXCEPT ![i] = [st |-> "there", at |-> t, version |-> 1]]
  BY DEF Insert
<1> DEFINE new == [st |-> "there", at |-> t, version |-> 1]
<1>2. row[i].st = "none" /\ UNCHANGED <<cache, job, owed, req>>
  BY DEF Insert
<1>3. new \in RowRecord
  BY PaginationAssumption DEF PaginationAssumption, RowRecord
<1>4. row[i].version <= new.version
  BY <1>2, OneRow DEF NoRow
<1>5. OwedOK'
  BY <1>2 DEF PaginationInv, PaginationTypeOK, CacheOK, OwedOK
<1> QED
  BY <1>1, <1>2, <1>3, <1>4, <1>5, RowChange DEF Known

LEMMA WrittenKeeps ==
  ASSUME PaginationInv, NEW i \in Ids, Written(i)
  PROVE  UNCHANGED <<cache, job, req>> /\ OwedOK'
BY PaginationAssumption
   DEF Written, PaginationInv, PaginationTypeOK, CacheOK, OwedOK, PaginationAssumption

LEMMA UpdateInv ==
  ASSUME PaginationInv, NEW i \in Ids, Update(i)
  PROVE  PaginationInv'
<1> DEFINE new == [row[i] EXCEPT !.version = row[i].version + 1]
<1>1. Exists(i) /\ row[i].version < MaxVersion /\ Written(i)
  BY DEF Update
<1>2. row' = [row EXCEPT ![i] = new]
  BY DEF Update
<1>3. row[i].version \in 0..MaxVersion
  BY OneRow DEF RowRecord
<1>4. row[i].version + 1 \in 0..MaxVersion /\ row[i].version <= row[i].version + 1
  BY <1>1, <1>3, PaginationAssumption DEF PaginationAssumption
<1>5. new \in RowRecord /\ new.st = row[i].st /\ new.at = row[i].at
      /\ new.version = row[i].version + 1
  BY <1>4, OneRow DEF RowRecord
<1> HIDE DEF new
<1> QED
  BY <1>1, <1>2, <1>4, <1>5, WrittenKeeps, RowChange DEF Exists

LEMMA RemoveInv ==
  ASSUME PaginationInv, NEW i \in Ids, Remove(i)
  PROVE  PaginationInv'
<1> DEFINE new == [row[i] EXCEPT !.st = "gone"]
<1>1. Exists(i) /\ Written(i)
  BY DEF Remove
<1>2. row' = [row EXCEPT ![i] = new]
  BY DEF Remove
<1>3. row[i].version \in 0..MaxVersion
  BY OneRow DEF RowRecord
<1>4. new \in RowRecord /\ new.st = "gone" /\ new.at = row[i].at
      /\ new.version = row[i].version
  BY OneRow DEF RowRecord
<1>5. row[i].version <= row[i].version
  BY <1>3, PaginationAssumption DEF PaginationAssumption
<1> HIDE DEF new
<1> QED
  BY <1>1, <1>2, <1>4, <1>5, WrittenKeeps, RowChange

\* Steps that touch only the cache, the jobs and what is owed.
LEMMA CacheStepsInv ==
  ASSUME PaginationInv, NEW i \in Ids,
         Invalidate(i) \/ RunJob(i) \/ StallJob(i) \/ FailJob(i) \/ Expire(i)
  PROVE  PaginationInv'
<1>1. UNCHANGED <<row, req>>
  BY DEF Invalidate, RunJob, StallJob, FailJob, Expire
<1>2. CacheOK /\ \A j \in Ids : 0 \in 0..MaxVersion /\ 0 <= row[j].version
  <2>1. \A j \in Ids : row[j].version \in 0..MaxVersion
    BY DEF PaginationInv, PaginationTypeOK, RowsOK, RowRecord
  <2> QED
    BY <2>1, PaginationAssumption DEF PaginationAssumption, PaginationInv, PaginationTypeOK
<1>3. CacheOK'
  <2>1. CASE Invalidate(i)
    BY <1>1, <1>2, <2>1 DEF Invalidate, CacheOK, OwedOK, Nothing
  <2>2. CASE RunJob(i)
    BY <1>1, <1>2, <2>2 DEF RunJob, CacheOK, OwedOK, Nothing
  <2>3. CASE StallJob(i)
    BY <1>1, <1>2, <2>3 DEF StallJob, CacheOK, OwedOK
  <2>4. CASE FailJob(i)
    BY <1>1, <1>2, <2>4 DEF FailJob, CacheOK, OwedOK, Nothing
  <2>5. CASE Expire(i)
    BY <1>1, <1>2, <2>5 DEF Expire, CacheOK, OwedOK, Nothing
  <2> QED
    BY <2>1, <2>2, <2>3, <2>4, <2>5
<1>4. RowsGoOn
  <2>1. \A j \in Ids : row[j].version \in 0..MaxVersion
    BY DEF PaginationInv, PaginationTypeOK, RowsOK, RowRecord
  <2>2. \A j \in Ids : row[j].version <= row'[j].version
    BY <1>1, <2>1, PaginationAssumption DEF PaginationAssumption
  <2> QED
    BY <1>1, <2>2 DEF RowsGoOn, RowsOK, PaginationInv, PaginationTypeOK, Known, Exists
<1> QED
  BY <1>1, <1>3, <1>4, RowStep

LEMMA PaginationStepInv == PaginationInv /\ [PaginationNext]_paginationVars => PaginationInv'
<1> SUFFICES ASSUME PaginationInv, [PaginationNext]_paginationVars
             PROVE  PaginationInv'
  OBVIOUS
<1>1. ASSUME NEW q \in Requests, PageStep(q)
      PROVE  PaginationInv'
  BY <1>1, RequestStepsInv
<1>2. ASSUME NEW i \in Ids, RecordStep(i)
      PROVE  PaginationInv'
  BY <1>2, InsertInv, UpdateInv, RemoveInv, CacheStepsInv DEF RecordStep
<1>3. CASE UNCHANGED paginationVars
  BY <1>3 DEF paginationVars, PaginationInv, PaginationTypeOK, RowsOK, CacheOK, OwedOK, RequestOK,
              BehindCursor, PageSound, Position, Matching, Exists, After, Known
<1> QED
  BY <1>1, <1>2, <1>3 DEF PaginationNext

-----------------------------------------------------------------------------

\* The inductive invariant of walks and of the cache.
THEOREM PaginationInvariance == PaginationSpec => []PaginationInv
BY PaginationInitInv, PaginationStepInv, PTL DEF PaginationSpec

LEMMA InvGivesProperties ==
  PaginationInv => PaginationTypeOK /\ WalkNoRepeat /\ WalkComplete /\ NextPageFollows
<1> SUFFICES ASSUME PaginationInv
             PROVE  PaginationTypeOK /\ WalkNoRepeat /\ WalkComplete /\ NextPageFollows
  OBVIOUS
<1>1. PaginationTypeOK /\ \A q \in Requests : BehindCursor(req[q]) /\ PageSound(req[q])
  BY DEF PaginationInv
<1>2. WalkNoRepeat
  BY <1>1 DEF WalkNoRepeat, OnPage, BehindCursor, PageSound
<1>3. WalkComplete
  BY <1>1 DEF WalkComplete, BehindCursor
<1>4. NextPageFollows
  BY <1>1 DEF NextPageFollows, OnPage, PageSound, Known
<1> QED
  BY <1>1, <1>2, <1>3, <1>4

\* Types, cursors of rows shown, and versions that rows have had, for any table.
THEOREM PaginationTypes == PaginationSpec => []PaginationTypeOK
BY PaginationInvariance, InvGivesProperties, PTL

\* No walk shows a row twice.
THEOREM NoRepeat == PaginationSpec => []WalkNoRepeat
BY PaginationInvariance, InvGivesProperties, PTL

\* No walk that comes to its end leaves out a row that was there all the time.
THEOREM Complete == PaginationSpec => []WalkComplete
BY PaginationInvariance, InvGivesProperties, PTL

\* hasNextPage is never said without a cursor to go on from and a row to find.
THEOREM NextFollows == PaginationSpec => []NextPageFollows
BY PaginationInvariance, InvGivesProperties, PTL

=============================================================================
