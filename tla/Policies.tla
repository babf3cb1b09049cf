------------------------------ MODULE Policies ------------------------------
(***************************************************************************)
(* What the decorators of the resolvers and controllers say of each        *)
(* operation, and how what an operation throws becomes an answer.          *)
(***************************************************************************)
CONSTANT RATE_LIMIT_PROFILES    \* the limit of each tier

Roles == {"reviewer", "creator", "moderator", "admin"}
Statuses == {"active", "pending_verification", "suspended"}

RateLimitTier == {"ULTRA_CRITICAL", "CRITICAL", "BALANCED", "RELAXED"}

\* What an operation without a RateLimit of its own has.
Tiers == RateLimitTier \union {"DEFAULT"}

-----------------------------------------------------------------------------

Public(tier) == [public |-> TRUE, tier |-> tier, roles |-> {}, statuses |-> {}]
Require(tier, roles, statuses) ==
  [public |-> FALSE, tier |-> tier, roles |-> roles, statuses |-> statuses]

AuthResolver ==
  [signUp |-> Public("CRITICAL"), signIn |-> Public("CRITICAL"),
   requestSignOutAll |-> Public("ULTRA_CRITICAL"),
   requestAccountVerification |->
     Require("ULTRA_CRITICAL", Roles, {"pending_verification", "active"}),
   requestAccountDeletion |-> Require("ULTRA_CRITICAL", Roles, Statuses),
   signOut |-> Require("CRITICAL", Roles, Statuses),
   signOutAll |-> Require("ULTRA_CRITICAL", Roles, Statuses)]

AuthController ==
  [o \in {"verifyAccount", "deleteAccount", "signOutAllPublic"} |-> Public("ULTRA_CRITICAL")]

ItemsResolver ==
  [createItem |-> Require("BALANCED", {"creator"}, {"active"}),
   findItemById |-> Public("RELAXED"), filterItems |-> Public("BALANCED")]

ReviewResolver ==
  [createReview |-> Require("RELAXED", {"reviewer"}, {"active"}),
   filterReviews |-> Public("BALANCED")]

VotesResolver ==
  [voteReview |-> Require("RELAXED", {"reviewer"}, {"active"}),
   deleteVote |-> Require("RELAXED", {"reviewer"}, {"active"}),
   findAllReviewVotes |-> Public("BALANCED")]

UsersResolver == [findUserById |-> Public("RELAXED"), findAllUsers |-> Public("BALANCED")]

ModerationResolver ==
  [o \in {"suspendAccount", "reactivateAccount"} |->
     Require("CRITICAL", {"moderator"}, {"active"})]

SeedResolver == [runSeed |-> Public("DEFAULT")]
HealthController == [health |-> Public("DEFAULT")]

\* The entries of f, and those of g for what f does not have.
Over(f, g) ==
  [o \in DOMAIN f \union DOMAIN g |-> IF o \in DOMAIN f THEN f[o] ELSE g[o]]

Resolvers ==
  Over(AuthResolver, Over(ItemsResolver, Over(ReviewResolver, Over(VotesResolver,
    Over(UsersResolver, Over(ModerationResolver, SeedResolver))))))
Policy == Over(Resolvers, Over(AuthController, HealthController))

RestOperations == DOMAIN AuthController \union DOMAIN HealthController

Limit(o) == RATE_LIMIT_PROFILES[Policy[o].tier]

-----------------------------------------------------------------------------
(* The guards that run after AuthGuard has put the user on the request.    *)

AccountStatusGuard(o, status) == Policy[o].public \/ status \in Policy[o].statuses
RolesGuard(o, roles) == Policy[o].public \/ Policy[o].roles \intersect roles # {}

\* A new account has the column's default, the administrator has them all.
DefaultRoles == {"reviewer", "creator"}

-----------------------------------------------------------------------------
(* Exceptions. A GraphQLError carries the code that GqlHttpError gave it   *)
(* and an HttpException its status; what drivers throw has a message only. *)

GqlHttpError(code) == [class |-> "GraphQLError", is |-> code]
HttpException(status) == [class |-> "HttpException", is |-> status]
DriverError(message) == [class |-> "Error", is |-> message]

AggregateError == [class |-> "AggregateError", is |-> "several"]

ServiceUnavailableErrors == {DriverError("streamNotWriteable")}

NormalizeGqlError(x) ==
  CASE x \in ServiceUnavailableErrors -> GqlHttpError("SERVICE_UNAVAILABLE")
    [] x = AggregateError -> GqlHttpError("INTERNAL_SERVER_ERROR")
    [] OTHER -> x

HandleHttpContext(x) ==
  IF x.class \in {"GraphQLError", "HttpException"} THEN x.is ELSE "INTERNAL_SERVER_ERROR"

\* The status of an HttpException is lost here.
HandleGqlError(x) == IF x.class = "GraphQLError" THEN x.is ELSE "INTERNAL_SERVER_ERROR"

Answer(o, x) ==
  IF o \in RestOperations THEN HandleHttpContext(NormalizeGqlError(x))
  ELSE HandleGqlError(NormalizeGqlError(x))

TooManyRequests(o) ==
  IF o \in RestOperations THEN HttpException("TOO_MANY_REQUESTS")
  ELSE GqlHttpError("TOO_MANY_REQUESTS")

Codes == {"BAD_REQUEST", "SERVICE_UNAVAILABLE", "NOT_FOUND", "CONFLICT", "UNAUTHORIZED",
          "FORBIDDEN", "TOO_MANY_REQUESTS", "INTERNAL_SERVER_ERROR"}

=============================================================================
