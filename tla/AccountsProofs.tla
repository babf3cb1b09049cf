--------------------------- MODULE AccountsProofs ---------------------------
(***************************************************************************)
(* Status changes, used links and the cached profile for any number of     *)
(* users, requests and links.                                              *)
(***************************************************************************)
EXTENDS AccountsProps, TLAPS

Local(q) == Control(q) /\ Reads(q) /\ Uses(q)

dataVars == <<row, cache, link, blacklist, answered>>

LEMMA NoRequestFits == NoRequest \in RequestRecord
  BY DEF NoRequest, Request, RequestRecord, Absent

LEMMA RequestTypes ==
  ASSUME AccountsInv, NEW q \in Requests
  PROVE  req \in [Requests -> RequestRecord] /\ req[q] \in RequestRecord
  BY DEF AccountsInv, AccountsTypeOK

\* A request that has read a row and goes on.
LEMMA ReadRecord ==
  ASSUME NEW x \in RequestRecord, NEW s \in AccountStatus
  PROVE  /\ [x EXCEPT !.pc = "select", !.seen = s, !.stale = FALSE] \in RequestRecord
         /\ [x EXCEPT !.pc = "fill", !.seen = s, !.stale = FALSE] \in RequestRecord
         /\ [x EXCEPT !.pc = "remove", !.seen = s] \in RequestRecord
  <1>1. [x EXCEPT !.pc = "select", !.seen = s, !.stale = FALSE] \in RequestRecord
    BY DEF RequestRecord
  <1>2. [x EXCEPT !.pc = "fill", !.seen = s, !.stale = FALSE] \in RequestRecord
    BY DEF RequestRecord
  <1>3. [x EXCEPT !.pc = "remove", !.seen = s] \in RequestRecord
    BY DEF RequestRecord
  <1>4. QED
    BY <1>1, <1>2, <1>3

LEMMA Replaced ==
  ASSUME AccountsInv, NEW q \in Requests, NEW r, req' = [req EXCEPT ![q] = r]
  PROVE  req'[q] = r
  BY RequestTypes

LEMMA InitInv == AccountsInit => AccountsInv
  <1> SUFFICES ASSUME AccountsInit PROVE AccountsInv
    OBVIOUS
  <1>1. AccountsTypeOK
    <2>1. /\ row \in [Users -> AccountStatus \union Absent]
          /\ \A u \in Users : Role[u] # "member" => row[u] \in {"active", "gone"}
      BY DEF AccountsInit, AccountStatus, Absent
    <2>2. cache \in [Users -> [status : AccountStatus \union {"none"}, raced : BOOLEAN]]
      BY DEF AccountsInit, Uncached
    <2>3. /\ link \in [Links -> [op : LinkOps, user : Users] \union {Unsigned}]
          /\ blacklist \subseteq Links /\ answered \subseteq Links
      BY DEF AccountsInit
    <2>4. req \in [Requests -> RequestRecord]
      BY NoRequestFits DEF AccountsInit
    <2>5. mishaps = 0
      BY DEF AccountsInit
    <2>6. mishaps \in 0..MaxMishaps
      <3>1. MaxMishaps \in Nat
        BY AccountsAssumption
      <3>2. 0 \in 0..MaxMishaps
        BY <3>1
      <3>3. QED
        BY <2>5, <3>2
    <2>7. QED
      BY <2>1, <2>2, <2>3, <2>4, <2>6 DEF AccountsTypeOK
  <1>2. ASSUME NEW q \in Requests PROVE Local(q)
    <2>1. req[q] = NoRequest
      BY DEF AccountsInit
    <2>2. QED
      BY <2>1 DEF Local, Control, Reads, Uses, LinkOps, NoRequest, Request
  <1>3. CacheTruthful
    BY DEF AccountsInit, CacheTruthful
  <1>4. QED
    BY <1>1, <1>2, <1>3 DEF AccountsInv, Local, AccountsInit

-----------------------------------------------------------------------------
(* Steps that leave the rows and the links as they are.                    *)

\* One request moves on; what is blacklisted or answered stays so.
LEMMA ChangeInv ==
  ASSUME AccountsInv, NEW q \in Requests, NEW r \in RequestRecord,
         req' = [req EXCEPT ![q] = r], Local(q)', row' = row, link' = link,
         blacklist \subseteq blacklist', blacklist' \subseteq Links,
         answered \subseteq answered', answered' \subseteq Links,
         \A t \in answered' \ answered : Used(t)',
         cache' \in [Users -> [status : AccountStatus \union {"none"}, raced : BOOLEAN]],
         CacheTruthful', mishaps' \in 0..MaxMishaps
  PROVE  AccountsInv'
  <1>1. AccountsTypeOK'
    BY DEF AccountsInv, AccountsTypeOK
  <1>2. ASSUME NEW p \in Requests PROVE Local(p)'
    <2>1. CASE p = q
      BY <2>1
    <2>2. CASE p # q
      <3>1. req'[p] = req[p]
        BY <2>2 DEF AccountsInv, AccountsTypeOK
      <3>2. Local(p)
        BY DEF AccountsInv, Local
      <3>3. QED
        BY <3>1, <3>2 DEF Local, Control, Reads, Uses, Verified
    <2>3. QED
      BY <2>1, <2>2
  <1>3. ASSUME NEW t \in answered' PROVE Used(t)'
    BY DEF AccountsInv, Used, Verified
  <1>4. QED
    BY <1>1, <1>2, <1>3 DEF AccountsInv, Local

\* A step that changes one request and nothing else.
LEMMA AdvanceInv ==
  ASSUME AccountsInv, NEW q \in Requests, NEW r \in RequestRecord,
         UNCHANGED dataVars, mishaps' \in 0..MaxMishaps,
         req' = [req EXCEPT ![q] = r], req[q].pc # "invalidate", Local(q)'
  PROVE  AccountsInv'
  <1>1. /\ row' = row /\ link' = link /\ blacklist' = blacklist
        /\ answered' = answered /\ cache' = cache
    BY DEF dataVars
  <1>2. /\ blacklist \subseteq Links /\ answered \subseteq Links
        /\ cache \in [Users -> [status : AccountStatus \union {"none"}, raced : BOOLEAN]]
    BY DEF AccountsInv, AccountsTypeOK
  <1>3. CacheTruthful'
    BY <1>1 DEF AccountsInv, AccountsTypeOK, CacheTruthful
  <1>4. QED
    BY <1>1, <1>2, <1>3, ChangeInv

\* A request that ends.
LEMMA LeaveInv ==
  ASSUME AccountsInv, NEW q \in Requests, Leave(q), UNCHANGED dataVars,
         mishaps' \in 0..MaxMishaps, req[q].pc # "invalidate"
  PROVE  AccountsInv'
  <1>1. req'[q] = NoRequest
    BY DEF Leave, AccountsInv, AccountsTypeOK
  <1>2. Local(q)'
    BY <1>1 DEF Local, Control, Reads, Uses, NoRequest, Request, LinkOps
  <1>3. QED
    BY <1>2, NoRequestFits, AdvanceInv DEF Leave

\* A request that goes on to pc without having read anything new.
LEMMA AdmittedInv ==
  ASSUME AccountsInv, NEW q \in Requests, NEW op \in LinkOps \union Moderation \union {"findOneById"},
         NEW pc \in {"issue", "find", "load"}, NEW u \in Users,
         Begin(q, Request(op, pc, u)), UNCHANGED dataVars, mishaps' \in 0..MaxMishaps,
         pc = "issue" <=> op \in LinkOps, pc = "find" => op \in Moderation
  PROVE  AccountsInv'
  <1> DEFINE r == Request(op, pc, u)
  <1>1. r \in RequestRecord
    BY DEF Request, RequestRecord, Absent
  <1>2. req' = [req EXCEPT ![q] = r] /\ req[q].pc = "idle"
    BY DEF Begin
  <1>3. req'[q] = r
    BY <1>2 DEF AccountsInv, AccountsTypeOK
  <1>4. Local(q)'
    BY <1>3 DEF Local, Control, Reads, Uses, Request, LinkOps, Moderation, SaveOps
  <1> HIDE DEF r
  <1>5. QED
    BY <1>1, <1>2, <1>4, AdvanceInv

LEMMA FollowLinkInv ==
  ASSUME AccountsInv, NEW q \in Requests, FollowLink(q), mishaps' = mishaps
  PROVE  AccountsInv'
  <1>1. PICK t \in Links \ blacklist :
          /\ link[t] # Unsigned
          /\ Begin(q, [Request(link[t].op, FirstStep(link[t].op), link[t].user)
                         EXCEPT !.token = t, !.late = t \in answered])
    BY DEF FollowLink
  <1> DEFINE op == link[t].op
             r == [Request(op, FirstStep(op), link[t].user)
                     EXCEPT !.token = t, !.late = t \in answered]
  <1>2. link[t] \in [op : LinkOps, user : Users]
    BY <1>1 DEF AccountsInv, AccountsTypeOK
  <1>3. /\ r.op = op /\ r.pc = FirstStep(op) /\ r.user = link[t].user /\ r.token = t
        /\ r.late = (t \in answered) /\ r \in RequestRecord
    <2> DEFINE r0 == Request(op, FirstStep(op), link[t].user)
    <2>1. FirstStep(op) \in {"spend", "find"} /\ op \in LinkOps /\ link[t].user \in Users
      BY <1>2 DEF FirstStep
    <2>2. r0 \in RequestRecord
      BY <2>1 DEF Request, RequestRecord, Absent
    <2>3. r0.op = op /\ r0.pc = FirstStep(op) /\ r0.user = link[t].user
      BY DEF Request
    <2> DEFINE late == t \in answered
    <2>4. late \in BOOLEAN
      OBVIOUS
    <2>5. r = [r0 EXCEPT !.token = t, !.late = late]
      OBVIOUS
    <2> HIDE DEF r0, op, late, r
    <2>6. /\ r.op = op /\ r.pc = FirstStep(op) /\ r.user = link[t].user /\ r.token = t
          /\ r.late = late
      BY <2>2, <2>3, <2>5 DEF RequestRecord
    <2>7. r \in RequestRecord
      BY <2>2, <2>4, <2>5 DEF RequestRecord
    <2>8. QED
      BY <2>6, <2>7 DEF late
  <1> HIDE DEF r
  <1>4. req' = [req EXCEPT ![q] = r] /\ req[q].pc = "idle" /\ UNCHANGED dataVars
    BY <1>1 DEF Begin, r, FollowLink, dataVars
  <1>5. req'[q] = r
    BY <1>4 DEF AccountsInv, AccountsTypeOK
  <1>6. t \in answered => op = "verifyAccount"
    BY <1>1 DEF AccountsInv, Used
  <1>7. Control(q)'
    BY <1>2, <1>3, <1>4, <1>5 DEF Control, FirstStep, LinkOps, SaveOps, dataVars
  <1>8. Reads(q)' /\ Uses(q)'
    BY <1>3, <1>4, <1>5, <1>6 DEF Reads, Uses, FirstStep, dataVars
  <1>9. mishaps' \in 0..MaxMishaps
    BY DEF AccountsInv, AccountsTypeOK
  <1>10. QED
    BY <1>3, <1>4, <1>7, <1>8, <1>9, AdvanceInv DEF Local

LEMMA FindForSignOutInv ==
  ASSUME AccountsInv, NEW q \in Requests, FindForSignOut(q), mishaps' = mishaps
  PROVE  AccountsInv'
  <1>1. UNCHANGED dataVars /\ req[q].pc = "find" /\ mishaps' \in 0..MaxMishaps
    BY DEF FindForSignOut, dataVars, AccountsInv, AccountsTypeOK
  <1>2. CASE Exists(req[q].user)
    <2> DEFINE r == [req[q] EXCEPT !.pc = "spend"]
    <2>1. req' = [req EXCEPT ![q] = r] /\ r \in RequestRecord /\ req'[q] = r
      <3>1. req' = [req EXCEPT ![q] = r]
        BY <1>2 DEF FindForSignOut, Goto
      <3>2. r \in RequestRecord
        BY RequestTypes DEF RequestRecord
      <3>3. QED
        BY <3>1, <3>2, Replaced
    <2>2. Local(q)'
      BY <1>1, <2>1 DEF Local, AccountsInv, AccountsTypeOK, RequestRecord, Control, Reads,
                        Uses, LinkOps, dataVars, FindForSignOut
    <2> HIDE DEF r
    <2>3. QED
      BY <1>1, <2>1, <2>2, AdvanceInv
  <1>3. CASE ~Exists(req[q].user)
    BY <1>1, <1>3, LeaveInv DEF FindForSignOut
  <1>4. QED
    BY <1>2, <1>3

LEMMA LookupForRemovalInv ==
  ASSUME AccountsInv, NEW q \in Requests, LookupForRemoval(q), mishaps' = mishaps
  PROVE  AccountsInv'
  <1>1. UNCHANGED dataVars /\ req[q].pc = "lookup" /\ mishaps' \in 0..MaxMishaps
    BY DEF LookupForRemoval, dataVars, AccountsInv, AccountsTypeOK
  <1>2. CASE Exists(req[q].user)
    <2> DEFINE r == [req[q] EXCEPT !.pc = "remove", !.seen = row[req[q].user]]
    <2>1. req' = [req EXCEPT ![q] = r] /\ r \in RequestRecord /\ req'[q] = r
      <3>1. req' = [req EXCEPT ![q] = r]
        BY <1>2 DEF LookupForRemoval
      <3>2. r \in RequestRecord
        BY <1>2, RequestTypes, ReadRecord DEF Exists
      <3>3. QED
        BY <3>1, <3>2, Replaced
    <2>2. Local(q)'
      BY <1>1, <2>1 DEF Local, AccountsInv, AccountsTypeOK, RequestRecord, Control, Reads,
                        Uses, LinkOps, dataVars, LookupForRemoval
    <2> HIDE DEF r
    <2>3. QED
      BY <1>1, <2>1, <2>2, AdvanceInv
  <1>3. CASE ~Exists(req[q].user)
    BY <1>1, <1>3, LeaveInv DEF LookupForRemoval
  <1>4. QED
    BY <1>2, <1>3

\* What an operation of SaveOps finds eligible it may change.
LEMMA EligibleLegal ==
  ASSUME AccountsInv, NEW q \in Requests, req[q].op \in SaveOps, Eligible(req[q].op, req[q].user)
  PROVE  LET u == req[q].user
         IN row[u] \in AccountStatus /\ Legal(req[q].op, u, row[u], NewStatus(req[q].op))
  BY DEF Eligible, SaveOps, Moderation, AccountStatus, Legal, NewStatus

LEMMA FindForSaveInv ==
  ASSUME AccountsInv, NEW q \in Requests, FindForSave(q), mishaps' = mishaps
  PROVE  AccountsInv'
  <1>1. UNCHANGED dataVars /\ req[q].pc = "find" /\ req[q].op \in SaveOps
        /\ mishaps' \in 0..MaxMishaps
    BY DEF FindForSave, dataVars, AccountsInv, AccountsTypeOK
  <1>2. CASE Eligible(req[q].op, req[q].user)
    <2> DEFINE r == [req[q] EXCEPT !.pc = "select", !.seen = row[req[q].user],
                                   !.stale = FALSE]
    <2>1. row[req[q].user] \in AccountStatus
          /\ Legal(req[q].op, req[q].user, row[req[q].user], NewStatus(req[q].op))
      BY <1>1, <1>2, EligibleLegal
    <2>2. req' = [req EXCEPT ![q] = r] /\ r \in RequestRecord /\ req'[q] = r
      <3>1. req' = [req EXCEPT ![q] = r]
        BY <1>2 DEF FindForSave
      <3>2. r \in RequestRecord
        BY <2>1, RequestTypes, ReadRecord
      <3>3. QED
        BY <3>1, <3>2, Replaced
    <2>3. req[q].op = "verifyAccount" => req[q].token \notin answered
      <3>1. SUFFICES ASSUME req[q].op = "verifyAccount" PROVE ~Used(req[q].token)
        BY DEF AccountsInv
      <3>2. link[req[q].token] = [op |-> req[q].op, user |-> req[q].user]
        BY <1>1, <3>1 DEF AccountsInv, Control, LinkOps
      <3>3. row[req[q].user] = "pending"
        BY <1>2, <3>1 DEF Eligible
      <3>4. QED
        BY <3>1, <3>2, <3>3 DEF Used, Verified
    <2>4. Control(q)'
      BY <1>1, <2>2 DEF AccountsInv, AccountsTypeOK, RequestRecord, Control, dataVars,
                        SaveOps
    <2>5. Reads(q)'
      BY <1>1, <2>1, <2>2 DEF AccountsInv, AccountsTypeOK, RequestRecord, Reads, dataVars,
                        Legal, NewStatus
    <2>6. Uses(q)'
      BY <1>1, <2>1, <2>2, <2>3 DEF AccountsInv, AccountsTypeOK, RequestRecord, Uses,
                        AccountStatus, dataVars
    <2> HIDE DEF r
    <2>7. QED
      BY <1>1, <2>2, <2>4, <2>5, <2>6, AdvanceInv DEF Local
  <1>3. CASE ~Eligible(req[q].op, req[q].user)
    BY <1>1, <1>3, LeaveInv DEF FindForSave
  <1>4. QED
    BY <1>2, <1>3

LEMMA SelectInv ==
  ASSUME AccountsInv, NEW q \in Requests, Select(q), mishaps' = mishaps
  PROVE  AccountsInv'
  <1>1. UNCHANGED dataVars /\ req[q].pc = "select" /\ mishaps' \in 0..MaxMishaps
    BY DEF Select, dataVars, AccountsInv, AccountsTypeOK
  <1> DEFINE r == [req[q] EXCEPT !.pc = "write", !.found = row[req[q].user]]
  <1>2. row[req[q].user] \in AccountStatus \union Absent
    BY <1>1 DEF AccountsInv, AccountsTypeOK, Control
  <1>3. req' = [req EXCEPT ![q] = r] /\ r \in RequestRecord /\ req'[q] = r
    <2>1. req' = [req EXCEPT ![q] = r]
      BY DEF Select
    <2>2. r \in RequestRecord
      BY <1>2, RequestTypes DEF RequestRecord
    <2>3. QED
      BY <2>1, <2>2, Replaced
  <1>4. Control(q)'
    BY <1>1, <1>3 DEF AccountsInv, AccountsTypeOK, RequestRecord, Control, dataVars, SaveOps
  <1>5. Reads(q)'
    BY <1>1, <1>3 DEF AccountsInv, AccountsTypeOK, RequestRecord, Reads, dataVars,
                      Legal, NewStatus
  <1>6. Uses(q)'
    BY <1>1, <1>3 DEF AccountsInv, AccountsTypeOK, RequestRecord, Uses, Verified, dataVars
  <1> HIDE DEF r
  <1>7. QED
    BY <1>1, <1>3, <1>4, <1>5, <1>6, AdvanceInv DEF Local

LEMMA LoadProfileInv ==
  ASSUME AccountsInv, NEW q \in Requests, LoadProfile(q), mishaps' = mishaps
  PROVE  AccountsInv'
  <1>1. UNCHANGED dataVars /\ req[q].pc = "load" /\ mishaps' \in 0..MaxMishaps
    BY DEF LoadProfile, dataVars, AccountsInv, AccountsTypeOK
  <1>2. CASE Exists(req[q].user)
    <2> DEFINE r == [req[q] EXCEPT !.pc = "fill", !.seen = row[req[q].user],
                                   !.stale = FALSE]
    <2>1. req' = [req EXCEPT ![q] = r] /\ r \in RequestRecord /\ req'[q] = r
      <3>1. req' = [req EXCEPT ![q] = r]
        BY <1>2 DEF LoadProfile
      <3>2. r \in RequestRecord
        BY <1>2, RequestTypes, ReadRecord DEF Exists
      <3>3. QED
        BY <3>1, <3>2, Replaced
    <2>2. Control(q)'
      BY <1>1, <2>1 DEF AccountsInv, AccountsTypeOK, RequestRecord, Control, dataVars
    <2>3. Reads(q)' /\ Uses(q)'
      BY <1>1, <1>2, <2>1 DEF AccountsInv, AccountsTypeOK, RequestRecord, Reads, Uses,
                              Exists, dataVars
    <2> HIDE DEF r
    <2>4. QED
      BY <1>1, <2>1, <2>2, <2>3, AdvanceInv DEF Local
  <1>3. CASE ~Exists(req[q].user)
    BY <1>1, <1>3, LeaveInv DEF LoadProfile
  <1>4. QED
    BY <1>2, <1>3

-----------------------------------------------------------------------------
(* Steps that change a row.                                                *)

\* An operation that writes the row leaves no account unverified, and everyone
\* else who has read it is stale.
LEMMA SetRowInv ==
  ASSUME AccountsInv, NEW q \in Requests, req[q].pc \in Writing,
         NEW s \in {"active", "suspended", "gone"},
         SetRow(q, req[q].user, s, "invalidate"),
         UNCHANGED <<cache, link, blacklist, answered>>, mishaps' = mishaps,
         s = "suspended" => Role[req[q].user] = "member"
  PROVE  AccountsInv'
  <1> DEFINE u == req[q].user
  <1>1. u \in Users /\ row' = [row EXCEPT ![u] = s]
    BY DEF AccountsInv, Control, SetRow, Writing
  <1>2. /\ row'[u] = s
        /\ \A w \in Users : w # u => row'[w] = row[w]
        /\ \A w \in Users : Verified(w) => Verified(w)'
        /\ \A w \in Users : row[w] # "none" => row'[w] # "none"
    BY <1>1 DEF AccountsInv, AccountsTypeOK, Verified
  <1>3. req'[q] = [req[q] EXCEPT !.pc = "invalidate"]
    BY DEF SetRow, AccountsInv, AccountsTypeOK
  <1>4. ASSUME NEW p \in Requests, p # q
        PROVE  req'[p] = [req[p] EXCEPT !.stale = @ \/ (req[p].user = u /\ row[u] # s)]
    BY <1>4 DEF SetRow
  <1>5. ASSUME NEW p \in Requests, p # q
        PROVE  /\ req'[p] \in RequestRecord
               /\ req'[p].op = req[p].op /\ req'[p].pc = req[p].pc
               /\ req'[p].user = req[p].user /\ req'[p].token = req[p].token
               /\ req'[p].seen = req[p].seen /\ req'[p].found = req[p].found
               /\ req'[p].late = req[p].late
               /\ ~req'[p].stale => ~req[p].stale /\ (req[p].user = u => row[u] = s)
    <2> DEFINE b == req[p].stale \/ (req[p].user = u /\ row[u] # s)
    <2>1. req[p] \in RequestRecord
      BY DEF AccountsInv, AccountsTypeOK
    <2>2. b \in BOOLEAN
      BY <2>1
    <2>3. req'[p] = [req[p] EXCEPT !.stale = b]
      BY <1>4, <1>5
    <2> HIDE DEF b
    <2>4. req'[p].stale = b
      BY <2>1, <2>3 DEF RequestRecord
    <2>5. ~b => ~req[p].stale /\ (req[p].user = u => row[u] = s)
      BY DEF b
    <2>6. QED
      BY <2>1, <2>2, <2>3, <2>4, <2>5 DEF RequestRecord
  <1>6. AccountsTypeOK'
    <2>1. req' \in [Requests -> RequestRecord]
      <3>1. req'[q] \in RequestRecord
        BY <1>3, RequestTypes DEF RequestRecord
      <3>2. \A p \in Requests : req'[p] \in RequestRecord
        BY <3>1, <1>5
      <3>3. req' = [p \in Requests |-> req'[p]]
        BY DEF SetRow
      <3>4. QED
        BY <3>2, <3>3
    <2>2. row' \in [Users -> AccountStatus \union Absent]
      BY <1>1 DEF AccountsInv, AccountsTypeOK, AccountStatus, Absent
    <2>3. \A w \in Users : Role[w] # "member" => row'[w] \in {"active", "gone"}
      BY <1>1, <1>2 DEF AccountsInv, AccountsTypeOK
    <2>4. QED
      BY <2>1, <2>2, <2>3 DEF AccountsInv, AccountsTypeOK
  <1>7. ASSUME NEW p \in Requests PROVE Local(p)'
    <2>1. CASE p = q
      BY <2>1, <1>2, <1>3 DEF AccountsInv, AccountsTypeOK, RequestRecord, Local, Control,
                              Reads, Uses, Writing, Verified, SaveOps, Moderation, LinkOps
    <2>2. CASE p # q
      <3>1. Control(p)'
        BY <2>2, <1>5 DEF AccountsInv, Control
      <3>2. req[p].pc # "idle" => req[p].user \in Users
        BY DEF AccountsInv, Control
      <3>3. ~req'[p].stale /\ req[p].pc # "idle" => row'[req[p].user] = row[req[p].user]
        BY <2>2, <3>2, <1>2, <1>5
      <3>4. Reads(p)'
        <4>1. Reads(p)
          BY DEF AccountsInv
        <4> HIDE DEF u
        <4>2. QED
          BY <4>1, <2>2, <3>3, <1>5 DEF Reads, Legal, NewStatus
      <3>5. Uses(p)'
        <4>1. Uses(p)
          BY DEF AccountsInv
        <4> DEFINE w == req[p].user
        <4>2. req[p].pc # "idle" =>
                /\ row[w] \notin {"none", "pending"} => row'[w] \notin {"none", "pending"}
                /\ row[w] # "none" => row'[w] # "none"
          BY <3>2, <1>2 DEF Verified
        <4>3. blacklist' = blacklist /\ answered' = answered
          OBVIOUS
        <4>4. /\ req'[p].op = req[p].op /\ req'[p].pc = req[p].pc
              /\ req'[p].user = req[p].user /\ req'[p].token = req[p].token
              /\ req'[p].found = req[p].found /\ req'[p].late = req[p].late
          BY <2>2, <1>5
        <4>5. QED
          BY ONLY <4>1, <4>2, <4>3, <4>4 DEF Uses, Verified
      <3>6. QED
        BY <3>1, <3>4, <3>5 DEF Local
    <2>3. QED
      BY <2>1, <2>2
  <1>8. ASSUME NEW t \in answered' PROVE Used(t)'
    <2>1. t \in Links /\ link[t] \in [op : LinkOps, user : Users]
      BY DEF AccountsInv, AccountsTypeOK, Used
    <2>2. QED
      BY <2>1, <1>2 DEF AccountsInv, Used
  <1>9. CacheTruthful'
    <2>1. req'[q].pc = "invalidate" /\ req'[q].user = u
      BY <1>3 DEF AccountsInv, AccountsTypeOK, RequestRecord
    <2>2. ASSUME NEW w \in Users, w # u, NEW p \in Requests, req[p].pc = "invalidate",
                 req[p].user = w
          PROVE  req'[p].pc = "invalidate" /\ req'[p].user = w
      <3>1. p # q
        BY <2>2
      <3>2. QED
        BY <3>1, <2>2, <1>5
    <2>3. QED
      BY <2>1, <2>2, <1>2 DEF AccountsInv, CacheTruthful
  <1>10. QED
    BY <1>6, <1>7, <1>8, <1>9 DEF AccountsInv, Local

LEMMA RemoveInv ==
  ASSUME AccountsInv, NEW q \in Requests, Remove(q), mishaps' = mishaps
  PROVE  AccountsInv'
  <1>1. SetRow(q, req[q].user, "gone", "invalidate") /\ req[q].pc \in Writing
    BY DEF Remove, Writing
  <1>2. UNCHANGED <<cache, link, blacklist, answered>>
    BY DEF Remove
  <1>3. QED
    BY <1>1, <1>2, SetRowInv

\* What save leaves in the row.
Written(q) ==
  LET r == req[q]
      s == NewStatus(r.op)
  IN IF r.found \in Absent \/ (r.found # s /\ Exists(r.user)) THEN s ELSE row[r.user]

LEMMA WrittenStatus ==
  ASSUME AccountsInv, NEW q \in Requests, req[q].pc = "write",
         ~(req[q].found \in Absent /\ Exists(req[q].user))
  PROVE  /\ Written(q) \in {"active", "suspended", "gone"}
         /\ Written(q) = "suspended" => Role[req[q].user] = "member"
  <1> DEFINE u == req[q].user
             f == req[q].found
             op == req[q].op
  <1>1. /\ op \in SaveOps /\ u \in Users /\ row[u] \in (AccountStatus \union Absent) \ {"none"}
        /\ f \in (AccountStatus \union Absent) \ {"none"}
        /\ f # "pending" => Verified(u)
        /\ Role[u] # "member" => row[u] \in {"active", "gone"}
        /\ Legal(op, u, req[q].seen, NewStatus(op))
    BY DEF AccountsInv, AccountsTypeOK, RequestRecord, Control, Uses, Reads
  <1>2. NewStatus(op) \in {"active", "suspended"}
        /\ (NewStatus(op) = "suspended" => Role[u] = "member")
    BY <1>1 DEF NewStatus, Legal
  <1>3. CASE f \in Absent \/ (f # NewStatus(op) /\ Exists(u))
    BY <1>2, <1>3 DEF Written
  <1>4. CASE ~(f \in Absent \/ (f # NewStatus(op) /\ Exists(u)))
    <2>1. Written(q) = row[u]
      BY <1>4 DEF Written
    <2>2. row[u] # "pending"
      BY <1>1, <1>2, <1>4 DEF Verified, Exists, AccountStatus
    <2>3. QED
      BY <1>1, <2>1, <2>2 DEF AccountStatus, Absent
  <1>5. QED
    BY <1>3, <1>4

LEMMA WriteInv ==
  ASSUME AccountsInv, NEW q \in Requests, Write(q), mishaps' = mishaps
  PROVE  AccountsInv'
  <1>1. req[q].pc = "write" /\ UNCHANGED <<cache, link, blacklist, answered>>
        /\ mishaps' \in 0..MaxMishaps
    BY DEF Write, AccountsInv, AccountsTypeOK
  <1>2. CASE req[q].found \in Absent /\ Exists(req[q].user)
    <2>1. Leave(q) /\ UNCHANGED dataVars
      BY <1>1, <1>2 DEF Write, dataVars
    <2>2. QED
      BY <1>1, <2>1, LeaveInv
  <1>3. CASE ~(req[q].found \in Absent /\ Exists(req[q].user))
    <2>1. SetRow(q, req[q].user, Written(q), "invalidate")
      BY <1>3 DEF Write, Written
    <2>2. QED
      BY <1>1, <1>3, <2>1, WrittenStatus, SetRowInv DEF Writing
  <1>4. QED
    BY <1>2, <1>3

LEMMA SignUpInv ==
  ASSUME AccountsInv, NEW u \in Users, SignUp(u), mishaps' = mishaps
  PROVE  AccountsInv'
  <1>1. /\ row[u] = "none" /\ Role[u] = "member" /\ row' = [row EXCEPT ![u] = "pending"]
        /\ cache' = cache /\ link' = link /\ blacklist' = blacklist /\ req' = req
        /\ answered' = answered
    BY DEF SignUp
  <1>2. row'[u] = "pending" /\ \A w \in Users : w # u => row'[w] = row[w]
    BY <1>1 DEF AccountsInv, AccountsTypeOK
  <1>3. AccountsTypeOK'
    BY <1>1, <1>2 DEF AccountsInv, AccountsTypeOK, AccountStatus
  <1>4. ASSUME NEW q \in Requests PROVE Local(q)'
    <2>1. Control(q)'
      BY <1>1 DEF AccountsInv, Control
    <2>2. Reads(q)'
      BY <1>1, <1>2 DEF AccountsInv, Control, Reads, Legal, NewStatus, AccountStatus
    <2>3. Uses(q)'
      BY <1>1, <1>2 DEF AccountsInv, Control, Uses, Verified
    <2>4. QED
      BY <2>1, <2>2, <2>3 DEF Local
  <1>5. ASSUME NEW t \in answered' PROVE Used(t)'
    <2>1. Used(t) /\ link[t] \in [op : LinkOps, user : Users]
      BY <1>1 DEF AccountsInv, AccountsTypeOK, Used
    <2>2. QED
      BY <2>1, <1>1, <1>2 DEF Used, Verified
  <1>6. CacheTruthful'
    <2>1. cache[u] # Uncached => cache[u].status # "none" \/ cache[u].raced
      BY DEF AccountsInv, AccountsTypeOK, Uncached
    <2>2. QED
      BY <1>1, <1>2, <2>1 DEF AccountsInv, CacheTruthful
  <1>7. QED
    BY <1>3, <1>4, <1>5, <1>6 DEF AccountsInv, Local

-----------------------------------------------------------------------------
(* Steps on the links and the cache.                                       *)

LEMMA IssueLinkInv ==
  ASSUME AccountsInv, NEW q \in Requests, IssueLink(q), mishaps' = mishaps
  PROVE  AccountsInv'
  <1>1. PICK t \in Links :
          /\ link[t] = Unsigned
          /\ link' = [link EXCEPT ![t] = [op |-> req[q].op, user |-> req[q].user]]
    BY DEF IssueLink
  <1>2. /\ req[q].pc = "issue" /\ req' = [req EXCEPT ![q] = NoRequest]
        /\ row' = row /\ cache' = cache /\ blacklist' = blacklist /\ answered' = answered
    BY DEF IssueLink, Leave
  <1>3. req[q].op \in LinkOps /\ req[q].user \in Users
    BY <1>2 DEF AccountsInv, Control
  <1>4. \A x \in Links : link[x] # Unsigned => link'[x] = link[x]
    BY <1>1 DEF AccountsInv, AccountsTypeOK
  <1>5. AccountsTypeOK'
    <2>1. link' \in [Links -> [op : LinkOps, user : Users] \union {Unsigned}]
      BY <1>1, <1>3 DEF AccountsInv, AccountsTypeOK
    <2>2. req' \in [Requests -> RequestRecord]
      BY <1>2, NoRequestFits DEF AccountsInv, AccountsTypeOK
    <2>3. QED
      BY <1>2, <2>1, <2>2 DEF AccountsInv, AccountsTypeOK
  <1>6. ASSUME NEW p \in Requests PROVE Local(p)'
    <2>1. CASE p = q
      <3>1. req'[p] = NoRequest
        BY <2>1, <1>2 DEF AccountsInv, AccountsTypeOK
      <3>2. QED
        BY <3>1 DEF Local, Control, Reads, Uses, NoRequest, Request, LinkOps
    <2>2. CASE p # q
      <3>1. req'[p] = req[p] /\ Local(p)
        BY <2>2, <1>2 DEF AccountsInv, AccountsTypeOK, Local
      <3>2. req[p].op \in LinkOps => [op |-> req[p].op, user |-> req[p].user] # Unsigned
        BY DEF LinkOps, Unsigned
      <3>3. Control(p)'
        BY <3>1, <3>2, <1>4 DEF Local, Control
      <3>4. QED
        BY <3>1, <3>3, <1>2 DEF Local, Reads, Uses, Verified
    <2>3. QED
      BY <2>1, <2>2
  <1>7. ASSUME NEW x \in answered' PROVE Used(x)'
    <2>1. x \in Links /\ Used(x)
      BY <1>2 DEF AccountsInv, AccountsTypeOK
    <2>2. link'[x] = link[x]
      BY <2>1, <1>4 DEF Used
    <2>3. QED
      BY <2>1, <2>2, <1>2 DEF Used, Verified
  <1>8. CacheTruthful'
    BY <1>2 DEF AccountsInv, AccountsTypeOK, CacheTruthful
  <1>9. QED
    BY <1>5, <1>6, <1>7, <1>8 DEF AccountsInv, Local

\* The link of a request at this point is one that is signed for it.
LEMMA OwnLink ==
  ASSUME AccountsInv, NEW q \in Requests, req[q].op \in LinkOps,
         req[q].pc \notin {"idle", "issue"}
  PROVE  /\ req[q].token \in Links /\ req[q].token # NoLink /\ req[q].user \in Users
         /\ link[req[q].token] = [op |-> req[q].op, user |-> req[q].user]
         /\ link[req[q].token] # Unsigned
  <1>1. /\ req[q].token \in Links /\ req[q].user \in Users
        /\ link[req[q].token] = [op |-> req[q].op, user |-> req[q].user]
    BY DEF AccountsInv, Control
  <1>2. [op |-> req[q].op, user |-> req[q].user] # Unsigned
    BY DEF LinkOps, Unsigned
  <1>3. req[q].token # NoLink
    BY <1>1, AccountsAssumption DEF NoLink
  <1>4. QED
    BY <1>1, <1>2, <1>3

\* A request that answers: the link it follows, if any, has been used.
LEMMA SucceedInv ==
  ASSUME AccountsInv, NEW q \in Requests, Succeed(q), row' = row, link' = link,
         blacklist \subseteq blacklist', blacklist' \subseteq Links,
         cache' \in [Users -> [status : AccountStatus \union {"none"}, raced : BOOLEAN]],
         \A u \in Users : cache'[u] = cache[u] \/ cache'[u] = Uncached,
         req[q].pc = "invalidate" => cache'[req[q].user] = Uncached,
         \A t \in Links : t = req[q].token => Used(t)', mishaps' \in 0..MaxMishaps
  PROVE  AccountsInv'
  <1>1. req' = [req EXCEPT ![q] = NoRequest] /\ req'[q] = NoRequest
    BY DEF Succeed, Leave, AccountsInv, AccountsTypeOK
  <1>2. Local(q)'
    BY <1>1 DEF Local, Control, Reads, Uses, NoRequest, Request, LinkOps
  <1>3. /\ answered \subseteq answered' /\ answered' \subseteq Links
        /\ \A t \in answered' \ answered : Used(t)'
    <2>1. req[q].token \in Links \union {NoLink} /\ answered \subseteq Links
      BY DEF AccountsInv, AccountsTypeOK, RequestRecord
    <2>2. answered' = answered \union ({req[q].token} \ {NoLink})
      BY DEF Succeed
    <2>3. QED
      BY <2>1, <2>2
  <1>4. CacheTruthful'
    <2>1. SUFFICES ASSUME NEW u \in Users
          PROVE \/ cache'[u] = Uncached
                \/ cache'[u].raced
                \/ cache'[u].status = row'[u]
                \/ \E p \in Requests : req'[p].pc = "invalidate" /\ req'[p].user = u
      BY DEF CacheTruthful, Uncached
    <2>2. CASE cache'[u] # Uncached
      <3>1. cache'[u] = cache[u] /\ ~(req[q].pc = "invalidate" /\ req[q].user = u)
        BY <2>2
      <3>2. \A p \in Requests : p # q => req'[p] = req[p]
        BY <1>1 DEF AccountsInv, AccountsTypeOK
      <3>3. QED
        BY <2>2, <3>1, <3>2 DEF AccountsInv, CacheTruthful
    <2>3. QED
      BY <2>2
  <1>5. QED
    BY <1>1, <1>2, <1>3, <1>4, NoRequestFits, ChangeInv

LEMMA SpendInv ==
  ASSUME AccountsInv, NEW q \in Requests, Spend(q), mishaps' = mishaps
  PROVE  AccountsInv'
  <1> DEFINE t == req[q].token
  <1>1. /\ req[q].pc = "spend" /\ blacklist' = blacklist \union {t}
        /\ row' = row /\ cache' = cache /\ link' = link
    BY DEF Spend
  <1>2. req[q].op \in LinkOps
    BY <1>1 DEF AccountsInv, Control
  <1>3. /\ t \in Links /\ t # NoLink /\ link[t] = [op |-> req[q].op, user |-> req[q].user]
        /\ link[t] # Unsigned /\ req[q].user \in Users
    BY <1>1, <1>2, OwnLink
  <1>4. /\ blacklist \subseteq blacklist' /\ blacklist' \subseteq Links
        /\ mishaps' \in 0..MaxMishaps /\ answered \subseteq Links
        /\ cache' \in [Users -> [status : AccountStatus \union {"none"}, raced : BOOLEAN]]
    BY <1>1, <1>3 DEF AccountsInv, AccountsTypeOK
  <1>5. CASE req[q].op = "deleteAccount"
    <2> DEFINE r == [req[q] EXCEPT !.pc = "lookup"]
    <2>1. /\ req' = [req EXCEPT ![q] = r] /\ r \in RequestRecord /\ req'[q] = r
         /\ answered' = answered
      <3>1. req' = [req EXCEPT ![q] = r] /\ answered' = answered
        BY <1>5 DEF Spend, Goto
      <3>2. r \in RequestRecord
        BY RequestTypes DEF RequestRecord
      <3>3. QED
        BY <3>1, <3>2, Replaced
    <2>2. Local(q)'
      BY <1>1, <1>3, <1>5, <2>1 DEF Local, AccountsInv, AccountsTypeOK, RequestRecord,
                                    Control, Reads, Uses, LinkOps
    <2>3. CacheTruthful'
      BY <1>1, <2>1 DEF AccountsInv, AccountsTypeOK, CacheTruthful
    <2> HIDE DEF r
    <2>4. QED
      BY <1>1, <1>4, <2>1, <2>2, <2>3, ChangeInv
  <1>6. CASE req[q].op # "deleteAccount"
    <2>1. Succeed(q)
      BY <1>6 DEF Spend
    <2>2. req[q].op = "verifyAccount" => row[req[q].user] \notin {"none", "pending"}
      BY <1>1 DEF AccountsInv, Uses, Verified
    <2>3. ASSUME NEW x \in Links, x = req[q].token PROVE Used(x)'
      BY <2>2, <2>3, <1>1, <1>3 DEF Used, Verified
    <2>4. QED
      BY <1>1, <1>4, <2>1, <2>3, SucceedInv
  <1>7. QED
    BY <1>5, <1>6

\* verifyAccount answers although its link is not blacklisted: it has no more use.
LEMMA SpendFailsInv ==
  ASSUME AccountsInv, NEW q \in Requests, SpendFails(q), mishaps' \in 0..MaxMishaps
  PROVE  AccountsInv'
  <1>1. /\ req[q].pc = "spend" /\ req[q].op = "verifyAccount" /\ Succeed(q)
        /\ row' = row /\ cache' = cache /\ link' = link /\ blacklist' = blacklist
    BY DEF SpendFails
  <1>2. /\ link[req[q].token] = [op |-> req[q].op, user |-> req[q].user]
        /\ link[req[q].token] # Unsigned
    BY <1>1, OwnLink DEF LinkOps
  <1>3. row[req[q].user] \notin {"none", "pending"}
    BY <1>1 DEF AccountsInv, Uses, Verified
  <1>4. ASSUME NEW x \in Links, x = req[q].token PROVE Used(x)'
    BY <1>1, <1>2, <1>3, <1>4 DEF Used, Verified
  <1>5. /\ blacklist' \subseteq Links
        /\ cache' \in [Users -> [status : AccountStatus \union {"none"}, raced : BOOLEAN]]
    BY <1>1 DEF AccountsInv, AccountsTypeOK
  <1>6. QED
    BY <1>1, <1>4, <1>5, SucceedInv

LEMMA InvalidateInv ==
  ASSUME AccountsInv, NEW q \in Requests, Invalidate(q), mishaps' = mishaps
  PROVE  AccountsInv'
  <1> DEFINE u == req[q].user
             Profile == [status : AccountStatus \union {"none"}, raced : BOOLEAN]
  <1>1. /\ req[q].pc = "invalidate" /\ cache' = [cache EXCEPT ![u] = Uncached]
        /\ row' = row /\ link' = link /\ blacklist' = blacklist
    BY DEF Invalidate
  <1>2. /\ req[q].op \in SaveOps \union {"deleteAccount"} /\ u \in Users
        /\ req[q].op \notin LinkOps => req[q].token = NoLink
    BY <1>1 DEF AccountsInv, Control
  <1>3. /\ cache' \in [Users -> Profile] /\ cache'[u] = Uncached
        /\ \A w \in Users : w # u => cache'[w] = cache[w]
    <2>1. cache \in [Users -> Profile]
      BY DEF AccountsInv, AccountsTypeOK
    <2>2. Uncached \in Profile
      BY DEF Uncached
    <2> HIDE DEF u, Profile
    <2>3. QED
      BY <2>1, <2>2, <1>1, <1>2
  <1>4. mishaps' \in 0..MaxMishaps /\ blacklist \subseteq Links /\ answered \subseteq Links
    BY DEF AccountsInv, AccountsTypeOK
  <1>5. CASE req[q].op = "verifyAccount"
    <2> DEFINE r == [req[q] EXCEPT !.pc = "spend"]
    <2>1. /\ req' = [req EXCEPT ![q] = r] /\ r \in RequestRecord /\ req'[q] = r
         /\ answered' = answered
      <3>1. req' = [req EXCEPT ![q] = r] /\ answered' = answered
        BY <1>5 DEF Invalidate, Goto
      <3>2. r \in RequestRecord
        BY RequestTypes DEF RequestRecord
      <3>3. QED
        BY <3>1, <3>2, Replaced
    <2>2. Local(q)'
      BY <1>1, <1>2, <1>5, <2>1 DEF Local, AccountsInv, AccountsTypeOK, RequestRecord,
                                    Control, Reads, Uses, LinkOps, Verified
    <2>3. CacheTruthful'
      <3>1. \A p \in Requests : p # q => req'[p] = req[p]
        BY <2>1 DEF AccountsInv, AccountsTypeOK
      <3>2. QED
        BY <1>1, <1>3, <3>1 DEF AccountsInv, CacheTruthful
    <2> HIDE DEF r
    <2>4. QED
      BY <1>1, <1>3, <1>4, <2>1, <2>2, <2>3, ChangeInv
  <1>6. CASE req[q].op # "verifyAccount"
    <2>1. Succeed(q)
      BY <1>6 DEF Invalidate
    <2>2. ASSUME NEW x \in Links, x = req[q].token PROVE Used(x)'
      <3>1. NoLink \notin Links
        BY AccountsAssumption DEF NoLink
      <3>2. req[q].op = "deleteAccount"
        BY <1>2, <1>6, <2>2, <3>1 DEF LinkOps, SaveOps, Moderation
      <3>3. req[q].token \in blacklist
        BY <1>1, <3>2 DEF AccountsInv, Uses
      <3>4. /\ link[req[q].token] = [op |-> req[q].op, user |-> req[q].user]
            /\ link[req[q].token] # Unsigned
        BY <1>1, <3>2, OwnLink DEF LinkOps
      <3>5. QED
        BY <1>1, <2>2, <3>2, <3>3, <3>4 DEF Used
    <2>3. QED
      BY <1>1, <1>3, <1>4, <2>1, <2>2, SucceedInv
  <1>7. QED
    BY <1>5, <1>6

\* A step that may change the profile of one user and ends the request q.
LEMMA CacheInv ==
  ASSUME AccountsInv, NEW q \in Requests, Leave(q), mishaps' \in 0..MaxMishaps,
         NEW c \in [status : AccountStatus \union {"none"}, raced : BOOLEAN],
         cache' = [cache EXCEPT ![req[q].user] = c], req[q].user \in Users,
         row' = row, link' = link, blacklist' = blacklist, answered' = answered,
         c = Uncached \/ c.raced \/ c.status = row[req[q].user]
  PROVE  AccountsInv'
  <1> DEFINE u == req[q].user
             Profile == [status : AccountStatus \union {"none"}, raced : BOOLEAN]
  <1>1. cache \in [Users -> Profile] /\ c \in Profile /\ u \in Users
    BY DEF AccountsInv, AccountsTypeOK
  <1>2. /\ cache' \in [Users -> Profile] /\ cache'[u] = c
        /\ \A w \in Users : w # u => cache'[w] = cache[w]
    <2> HIDE DEF u, Profile
    <2>1. cache' = [cache EXCEPT ![u] = c]
      BY DEF u
    <2>2. QED
      BY <1>1, <2>1
  <1>3. req' = [req EXCEPT ![q] = NoRequest] /\ req'[q] = NoRequest
        /\ \A p \in Requests : p # q => req'[p] = req[p]
    BY DEF Leave, AccountsInv, AccountsTypeOK
  <1>4. Local(q)'
    BY <1>3 DEF Local, Control, Reads, Uses, NoRequest, Request, LinkOps
  <1>5. CacheTruthful'
    <2>1. SUFFICES ASSUME NEW w \in Users, w # u
          PROVE \/ cache'[w] = Uncached
                \/ cache'[w].raced
                \/ cache'[w].status = row'[w]
                \/ \E p \in Requests : req'[p].pc = "invalidate" /\ req'[p].user = w
      BY <1>2 DEF CacheTruthful, Uncached
    <2>2. cache'[w] = cache[w] /\ ~(req[q].user = w)
      BY <2>1, <1>2
    <2>3. \/ cache[w] = Uncached
          \/ cache[w].raced
          \/ cache[w].status = row[w]
          \/ \E p \in Requests : req[p].pc = "invalidate" /\ req[p].user = w
      BY DEF AccountsInv, CacheTruthful
    <2>4. QED
      BY <2>2, <2>3, <1>3
  <1>6. blacklist \subseteq Links /\ answered \subseteq Links
    BY DEF AccountsInv, AccountsTypeOK
  <1>7. QED
    BY <1>2, <1>3, <1>4, <1>5, <1>6, NoRequestFits, ChangeInv

LEMMA FillProfileInv ==
  ASSUME AccountsInv, NEW q \in Requests, FillProfile(q), mishaps' = mishaps
  PROVE  AccountsInv'
  <1> DEFINE c == [status |-> req[q].seen, raced |-> req[q].stale]
  <1>1. /\ req[q].pc = "fill" /\ Leave(q) /\ cache' = [cache EXCEPT ![req[q].user] = c]
        /\ row' = row /\ link' = link /\ blacklist' = blacklist /\ answered' = answered
    BY DEF FillProfile
  <1>2. /\ req[q].user \in Users /\ req[q].seen \in AccountStatus /\ req[q].stale \in BOOLEAN
        /\ ~req[q].stale => row[req[q].user] = req[q].seen
    BY <1>1 DEF AccountsInv, AccountsTypeOK, RequestRecord, Control, Reads
  <1>3. c \in [status : AccountStatus \union {"none"}, raced : BOOLEAN]
    BY <1>2
  <1>4. c.raced \/ c.status = row[req[q].user]
    BY <1>2
  <1>5. mishaps' \in 0..MaxMishaps
    BY DEF AccountsInv, AccountsTypeOK
  <1> HIDE DEF c
  <1>6. QED
    BY <1>1, <1>2, <1>3, <1>4, <1>5, CacheInv

\* A request that fails; if it was about to invalidate, what is cached is marked.
LEMMA FailInv ==
  ASSUME AccountsInv, NEW q \in Requests, Fail(q), mishaps' \in 0..MaxMishaps
  PROVE  AccountsInv'
  <1>1. /\ req[q].pc # "idle" /\ Leave(q)
        /\ row' = row /\ link' = link /\ blacklist' = blacklist /\ answered' = answered
    BY DEF Fail
  <1>2. CASE req[q].pc # "invalidate"
    <2>1. UNCHANGED dataVars
      BY <1>2 DEF Fail, dataVars
    <2>2. QED
      BY <1>1, <1>2, <2>1, LeaveInv
  <1>3. CASE req[q].pc = "invalidate"
    <2> DEFINE u == req[q].user
               b == cache[u].raced \/ cache[u] # Uncached
               c == [cache[u] EXCEPT !.raced = b]
               Profile == [status : AccountStatus \union {"none"}, raced : BOOLEAN]
    <2>1. u \in Users /\ cache \in [Users -> Profile]
      BY <1>1 DEF AccountsInv, AccountsTypeOK, Control
    <2>2. cache' = [cache EXCEPT ![u].raced = cache[u].raced \/ cache[u] # Uncached]
      BY <1>3 DEF Fail
    <2>3. cache[u] \in Profile
      BY <2>1
    <2>4. b \in BOOLEAN
      BY <2>3
    <2>5. cache' = [cache EXCEPT ![u] = c]
      BY <2>2
    <2>6. b \/ cache[u] = Uncached
      OBVIOUS
    <2>7. c \in Profile /\ (b => c.raced) /\ (cache[u] = Uncached => c = Uncached)
      <3>1. cache[u] = Uncached => b = FALSE
        BY DEF Uncached
      <3> HIDE DEF b
      <3>2. c = [cache[u] EXCEPT !.raced = b]
        OBVIOUS
      <3>3. c.raced = b /\ c.status = cache[u].status
        BY <2>3
      <3>4. c \in Profile
        BY <2>3, <2>4
      <3>5. cache[u] = Uncached => c = Uncached
        <4>1. ASSUME NEW x \in Profile, x.raced = FALSE, x.status = "none"
              PROVE  x = [status |-> "none", raced |-> FALSE]
          BY <4>1
        <4>2. cache[u] = Uncached => c.raced = FALSE /\ c.status = "none"
          BY <3>1, <3>3 DEF Uncached
        <4> HIDE DEF c
        <4>3. QED
          BY <3>4, <4>1, <4>2 DEF Uncached
      <3>6. QED
        BY <3>3, <3>4, <3>5
    <2>8. c = Uncached \/ c.raced
      BY <2>6, <2>7
    <2> HIDE DEF c, b
    <2>9. QED
      BY <1>1, <2>1, <2>5, <2>7, <2>8, CacheInv
  <1>4. QED
    BY <1>2, <1>3

LEMMA ExpireInv ==
  ASSUME AccountsInv, NEW u \in Users, Expire(u), mishaps' = mishaps
  PROVE  AccountsInv'
  <1> DEFINE Profile == [status : AccountStatus \union {"none"}, raced : BOOLEAN]
  <1>1. /\ cache' = [cache EXCEPT ![u] = Uncached]
        /\ row' = row /\ link' = link /\ blacklist' = blacklist /\ req' = req
        /\ answered' = answered
    BY DEF Expire
  <1>2. cache \in [Users -> Profile] /\ Uncached \in Profile
    BY DEF AccountsInv, AccountsTypeOK, Uncached
  <1>3. /\ cache' \in [Users -> Profile] /\ cache'[u] = Uncached
        /\ \A w \in Users : w # u => cache'[w] = cache[w]
    <2> HIDE DEF Profile
    <2>1. QED
      BY <1>1, <1>2
  <1>4. AccountsTypeOK'
    BY <1>1, <1>3 DEF AccountsInv, AccountsTypeOK
  <1>5. ASSUME NEW q \in Requests PROVE Local(q)'
    BY <1>1 DEF AccountsInv, Local, Control, Reads, Uses, Verified
  <1>6. ASSUME NEW t \in answered' PROVE Used(t)'
    BY <1>1 DEF AccountsInv, Used, Verified
  <1>7. CacheTruthful'
    BY <1>1, <1>3 DEF AccountsInv, CacheTruthful
  <1>8. QED
    BY <1>4, <1>5, <1>6, <1>7 DEF AccountsInv, Local

-----------------------------------------------------------------------------
(* Every step.                                                             *)

LEMMA StepInv ==
  ASSUME AccountsInv, NEW q \in Requests, Step(q), mishaps' = mishaps
  PROVE  AccountsInv'
  <1>1. mishaps' \in 0..MaxMishaps
    BY DEF AccountsInv, AccountsTypeOK
  <1>2. CASE AskLink(q)
    <2>1. PICK op \in LinkOps, u \in Users : Begin(q, Request(op, "issue", u))
      BY <1>2 DEF AskLink
    <2>2. UNCHANGED dataVars
      BY <1>2 DEF AskLink, dataVars
    <2>3. QED
      BY <1>1, <2>1, <2>2, AdmittedInv
  <1>3. CASE Moderate(q)
    <2>1. PICK op \in Moderation, u \in Users : Begin(q, Request(op, "find", u))
      BY <1>3 DEF Moderate
    <2>2. UNCHANGED dataVars
      BY <1>3 DEF Moderate, dataVars
    <2>3. op \notin LinkOps
      BY DEF Moderation, LinkOps
    <2>4. QED
      BY <1>1, <2>1, <2>2, <2>3, AdmittedInv
  <1>4. CASE MissProfile(q)
    <2>1. PICK u \in Users : Begin(q, Request("findOneById", "load", u))
      BY <1>4 DEF MissProfile
    <2>2. UNCHANGED dataVars
      BY <1>4 DEF MissProfile, dataVars
    <2>3. "findOneById" \notin LinkOps
      BY DEF LinkOps
    <2>4. QED
      BY <1>1, <2>1, <2>2, <2>3, AdmittedInv
  <1>5. CASE IssueLink(q)
    BY <1>5, IssueLinkInv
  <1>6. CASE FollowLink(q)
    BY <1>6, FollowLinkInv
  <1>7. CASE FindForSignOut(q)
    BY <1>7, FindForSignOutInv
  <1>8. CASE Spend(q)
    BY <1>8, SpendInv
  <1>9. CASE LookupForRemoval(q)
    BY <1>9, LookupForRemovalInv
  <1>10. CASE Remove(q)
    BY <1>10, RemoveInv
  <1>11. CASE FindForSave(q)
    BY <1>11, FindForSaveInv
  <1>12. CASE Select(q)
    BY <1>12, SelectInv
  <1>13. CASE Write(q)
    BY <1>13, WriteInv
  <1>14. CASE Invalidate(q)
    BY <1>14, InvalidateInv
  <1>15. CASE LoadProfile(q)
    BY <1>15, LoadProfileInv
  <1>16. CASE FillProfile(q)
    BY <1>16, FillProfileInv
  <1>17. QED
    BY <1>2, <1>3, <1>4, <1>5, <1>6, <1>7, <1>8, <1>9, <1>10, <1>11, <1>12, <1>13,
       <1>14, <1>15, <1>16 DEF Step

LEMMA NextInv == AccountsInv /\ [AccountsNext]_accountVars => AccountsInv'
  <1> SUFFICES ASSUME AccountsInv, [AccountsNext]_accountVars PROVE AccountsInv'
    OBVIOUS
  <1>1. CASE \E u \in Users : (SignUp(u) \/ Expire(u)) /\ UNCHANGED mishaps
    BY <1>1, SignUpInv, ExpireInv
  <1>2. CASE \E q \in Requests : Step(q) /\ UNCHANGED mishaps
    BY <1>2, StepInv
  <1>3. CASE \E q \in Requests :
               /\ mishaps < MaxMishaps /\ mishaps' = mishaps + 1
               /\ Fail(q) \/ SpendFails(q)
    <2>1. MaxMishaps \in Nat
      BY AccountsAssumption
    <2>2. mishaps \in 0..MaxMishaps
      BY DEF AccountsInv, AccountsTypeOK
    <2>3. mishaps' \in 0..MaxMishaps
      BY <1>3, <2>1, <2>2
    <2>4. QED
      BY <1>3, <2>3, FailInv, SpendFailsInv
  <1>4. CASE UNCHANGED accountVars
    BY <1>4 DEF accountVars, AccountsInv, AccountsTypeOK, Control, Reads, Used, Uses,
                Verified, CacheTruthful
  <1>5. QED
    BY <1>1, <1>2, <1>3, <1>4 DEF AccountsNext

-----------------------------------------------------------------------------

(* The inductive invariant: types, the place of every request in its       *)
(* operation, what it has read, and how far its link is used up.           *)
THEOREM AccountsInvariance == AccountsSpec => []AccountsInv
  <1>1. QED
    BY InitInv, NextInv, PTL DEF AccountsSpec

(* Accounts, links, cached profiles and requests keep their types, and no  *)
(* moderator or administrator is ever suspended or unverified.             *)
THEOREM AccountsTypes == AccountsSpec => []AccountsTypeOK
  <1>1. AccountsInv => AccountsTypeOK
    BY DEF AccountsInv
  <1>2. QED
    BY <1>1, AccountsInvariance, PTL

(* verifyAccount, deleteAccount and signOutAllPublic do nothing for a link *)
(* that has been answered, though the blacklist is read and written in two *)
(* separate calls.                                                         *)
THEOREM UsedLinksInert == AccountsSpec => []UsedLinkInert
  <1>1. AccountsInv => UsedLinkInert
    BY DEF AccountsInv, Uses, UsedLinkInert
  <1>2. QED
    BY <1>1, AccountsInvariance, PTL

(* Only the two known races make a cached profile differ from the row for  *)
(* longer than the deletion of its key takes.                              *)
THEOREM CacheIsTruthful == AccountsSpec => []CacheTruthful
  <1>1. AccountsInv => CacheTruthful
    BY DEF AccountsInv
  <1>2. QED
    BY <1>1, AccountsInvariance, PTL

\* The save and the removal are the only steps of a request that change a row, and
\* what they make of a row that is as it was read their operation allows.
LEMMA WriteLegal ==
  ASSUME AccountsInv, NEW q \in Requests, Remove(q) \/ Write(q),
         NEW u \in Users, row'[u] # row[u]
  PROVE  /\ req[q].user = u /\ req[q].pc \in Writing /\ req'[q].pc = "invalidate"
         /\ req[q].stale \/ Legal(req[q].op, u, row[u], row'[u])
  <1> DEFINE w == req[q].user
  <1>1. CASE Remove(q)
    <2>1. req[q].pc = "remove" /\ SetRow(q, w, "gone", "invalidate")
      BY <1>1 DEF Remove
    <2>2. req[q].op = "deleteAccount" /\ w \in Users
      BY <2>1 DEF AccountsInv, Control
    <2>3. u = w /\ row'[u] = "gone" /\ req'[q].pc = "invalidate"
      BY <2>1, <2>2 DEF SetRow, AccountsInv, AccountsTypeOK, RequestRecord
    <2>4. QED
      BY <2>1, <2>2, <2>3 DEF Writing, Legal
  <1>2. CASE Write(q)
    <2>1. req[q].pc = "write"
      BY <1>2 DEF Write
    <2>2. ~(req[q].found \in Absent /\ Exists(w))
      BY <1>2 DEF Write
    <2>3. SetRow(q, w, Written(q), "invalidate")
      BY <1>2, <2>2 DEF Write, Written
    <2>4. w \in Users /\ Legal(req[q].op, w, req[q].seen, NewStatus(req[q].op))
      BY <2>1 DEF AccountsInv, Control, Reads
    <2>5. u = w /\ row'[u] = Written(q) /\ req'[q].pc = "invalidate"
      BY <2>3, <2>4 DEF SetRow, AccountsInv, AccountsTypeOK, RequestRecord
    <2>6. Written(q) = NewStatus(req[q].op)
      BY <2>5 DEF Written
    <2>7. ~req[q].stale => req[q].seen = row[w]
      BY <2>1 DEF AccountsInv, Reads
    <2>8. QED
      BY <2>1, <2>4, <2>5, <2>6, <2>7 DEF Writing
  <1>3. QED
    BY <1>1, <1>2

(* An account's status changes by a registration, or by a request whose    *)
(* operation allows the change unless the row has changed since that       *)
(* request read it.                                                        *)
THEOREM StatusChangesLegal == AccountsSpec => ChangesLegal
  <1> DEFINE Legally(u) ==
        \/ row[u] = "none" /\ row'[u] = "pending"
        \/ \E q \in Requests :
             /\ req[q].user = u /\ req[q].pc \in Writing /\ req'[q].pc = "invalidate"
             /\ req[q].stale \/ Legal(req[q].op, u, row[u], row'[u])
  <1>1. ASSUME AccountsInv, AccountsNext, NEW u \in Users, row'[u] # row[u]
        PROVE  Legally(u)
    <2>1. CASE \E w \in Users : SignUp(w)
      BY <1>1, <2>1 DEF SignUp, AccountsInv, AccountsTypeOK
    <2>2. CASE \E q \in Requests : Remove(q) \/ Write(q)
      BY <1>1, <2>2, WriteLegal
    <2>3. CASE row' = row
      BY <1>1, <2>3
    <2>4. QED
      BY <1>1, <2>1, <2>2, <2>3
      DEF AccountsNext, Step, Expire, AskLink, IssueLink, FollowLink, FindForSignOut, Spend,
          LookupForRemoval, Moderate, FindForSave, Select, Invalidate, MissProfile,
          LoadProfile, FillProfile, Fail, SpendFails
  <1>2. AccountsInv /\ [AccountsNext]_accountVars =>
          [\A u \in Users : row'[u] # row[u] => Legally(u)]_accountVars
    BY <1>1
  <1>3. QED
    BY <1>2, AccountsInvariance, PTL DEF AccountsSpec, ChangesLegal

=============================================================================
