------------------------------- MODULE Inputs -------------------------------
(***************************************************************************)
(* What the validators of the inputs accept, what they make of it, and     *)
(* what the columns that it is stored in hold.                             *)
(***************************************************************************)
EXTENDS Integers

\* A text is its length without the blanks around it, and what it has: blanks
\* around it, capitals, the character U+0000, or anything that is not of the form
\* of a username (letters, digits, underscores) or of a cursor (what encodeCursor
\* makes). A number, and how many tags there are, is a text's length.
Text(n) ==
  [len |-> n, pad |-> FALSE, capital |-> FALSE, nul |-> FALSE, odd |-> FALSE, null |-> FALSE]

Between(min, max) == [min |-> min, max |-> max]

\* IsEmail has the address's maximum of its own.
AUTH_RULES ==
  [username |-> Between(3, 30), email |-> Between(6, 254), password |-> Between(8, 60)]

ITEM_RULES ==
  [title |-> Between(5, 40), description |-> Between(5, 500), category |-> Between(3, 40),
   tags |-> Between(0, 10), tag |-> Between(2, 20)]

REVIEWS_RULES == [content |-> Between(10, 2000), rating |-> Between(0, 10)]

PAGINATION_RULES == [limit |-> Between(1, 100)]

SignUpInput == DOMAIN AUTH_RULES
CreateItemInput == DOMAIN ITEM_RULES
CreateReviewInput == DOMAIN REVIEWS_RULES
PaginationArgs == {"cursor", "limit"}
ItemFiltersArgs == PaginationArgs \union {"category", "tag"}

\* What an operation takes, but for ids, which are found or not.
ArgsOf(o) ==
  CASE o = "signUp" -> SignUpInput
    [] o = "createItem" -> CreateItemInput
    [] o = "createReview" -> CreateReviewInput
    [] o = "filterItems" -> ItemFiltersArgs
    [] o \in {"filterReviews", "findAllReviewVotes", "findAllUsers"} -> PaginationArgs
    [] OTHER -> {}

\* A cursor may be any text.
Rules ==
  [f \in SignUpInput \union CreateItemInput \union CreateReviewInput \union {"limit"} |->
     CASE f \in SignUpInput -> AUTH_RULES[f]
       [] f \in CreateItemInput -> ITEM_RULES[f]
       [] f \in CreateReviewInput -> REVIEWS_RULES[f]
       [] f = "limit" -> PAGINATION_RULES[f]]

-----------------------------------------------------------------------------
(* AppValidationPipe: it transforms, and validates what comes out.         *)

trim(t) == [t EXCEPT !.pad = FALSE]
trimAndLowercase(t) == [t EXCEPT !.pad = FALSE, !.capital = FALSE]

Transform(f, t) ==
  CASE f \in {"username", "title", "description", "content"} -> trim(t)
    [] f \in {"category", "tag"} -> trimAndLowercase(t)
    [] OTHER -> t

Length(t) == t.len + (IF t.pad THEN 2 ELSE 0)

\* Tags may be null. Neither a blank nor U+0000 is in an e-mail address.
ValidField(f, t) ==
  \/ f = "cursor" \/ (f = "tags" /\ t.null)
  \/ /\ Length(t) \in Rules[f].min..Rules[f].max
     /\ f = "email" => ~t.pad /\ ~t.nul

Valid(input) == \A f \in DOMAIN input : ValidField(f, Transform(f, input[f]))

-----------------------------------------------------------------------------
(* The CHECK and NOT NULL constraints. Of a password its hash is stored.   *)

AccountColumns == [username |-> Between(3, 30), email |-> Between(0, 254)]

ItemColumns ==
  [title |-> Between(5, 40), description |-> Between(5, 500), category |-> Between(3, 40),
   tags |-> Between(0, 10), tag |-> Between(2, 20)]

ReviewColumns == [content |-> Between(10, 2000), rating |-> Between(0, 10)]

Columns ==
  [f \in DOMAIN AccountColumns \union DOMAIN ItemColumns \union DOMAIN ReviewColumns |->
     CASE f \in DOMAIN AccountColumns -> AccountColumns[f]
       [] f \in DOMAIN ItemColumns -> ItemColumns[f]
       [] f \in DOMAIN ReviewColumns -> ReviewColumns[f]]

\* PostgreSQL has no U+0000 in a text, also in one to compare with, and decodeCursor
\* throws, or the comparison does, for a cursor that is none.
StorableField(f, t) ==
  /\ f \in DOMAIN Columns =>
       /\ ~t.null /\ ~t.nul /\ Length(t) \in Columns[f].min..Columns[f].max
       /\ f \in {"username", "email"} => ~t.capital
       /\ f = "username" => ~t.odd /\ ~t.pad
  /\ f = "cursor" => ~t.odd

Storable(input) == \A f \in DOMAIN input : StorableField(f, Transform(f, input[f]))

-----------------------------------------------------------------------------

Numbers == {"rating", "limit", "tags"}

\* The texts about a field's bounds.
Lengths(f) ==
  IF f \in DOMAIN Rules
  THEN {Rules[f].min - 1, Rules[f].min, Rules[f].max, Rules[f].max + 1} \intersect Nat ELSE {1}

Texts(f) ==
  {t \in [len : Lengths(f), pad : BOOLEAN, capital : BOOLEAN, nul : BOOLEAN, odd : BOOLEAN,
          null : BOOLEAN] : (t.null => f = "tags") /\ (f \in Numbers => ~t.nul)}

Plain(f) == Text(IF f \in DOMAIN Rules THEN Rules[f].min ELSE 1)

\* Inputs of which one field is any of these, and the others are plain.
Inputs(fields) ==
  UNION {{[g \in fields |-> IF g = f THEN t ELSE Plain(g)] : t \in Texts(f)} : f \in fields}

InputTypes ==
  {SignUpInput, CreateItemInput, CreateReviewInput, ItemFiltersArgs, PaginationArgs}

\* The types with an input that the pipe stops.
Refusable == {fields \in InputTypes : \E input \in Inputs(fields) : ~Valid(input)}

\* The types with an input that the pipe lets through and the table does not.
Unstorable ==
  {fields \in InputTypes : \E input \in Inputs(fields) : Valid(input) /\ ~Storable(input)}

=============================================================================
