------------------------------- MODULE Access -------------------------------
(***************************************************************************)
(* The tokens: how they are issued and renewed, whom they are taken for,   *)
(* and what account_security_middleware lets them change.  A token is      *)
(* checked by its signature and its expiry alone; only a login and a       *)
(* renewal look the member up.                                             *)
(***************************************************************************)
EXTENDS Integers, FiniteSets

CONSTANTS
  Users,          \* the members
  DemoUser,       \* DEMO_MEMBER_ID
  GuestUser,      \* GUEST_MEMBER_ID
  Routes,         \* the writing routes: "books" for those both lists have, "librarians"
                  \* for those only the demo list has, "account" for those neither has
  GuestWrites,    \* ENABLE_GUEST_WRITE
  AccessLife,     \* ACCESS_TOKEN_EXPIRE_MINUTES, in ticks
  RefreshLife,    \* REFRESH_TOKEN_EXPIRE_DAYS
  Late,           \* how long a request takes at most from its query to its tokens
  AccessRequests, \* logins and renewals that can be in progress at the same time
  MaxTokens,      \* bound: tokens that have not expired
  MaxHour         \* bound: ticks

ASSUME AccessAssumption ==
  /\ DemoUser \notin Users /\ GuestUser \notin Users \cup {DemoUser}
  /\ Routes = {"books", "librarians", "account"}
  /\ GuestWrites \in BOOLEAN
  /\ {AccessLife, RefreshLife, Late} \subseteq Nat \ {0}
  /\ MaxHour \in Nat

VARIABLES
  tokens,     \* those that have not expired
  withdrawn,  \* when each member has withdrawn, or Here
  issuing,    \* each login or renewal: whom it has found, and when
  hour        \* the time

accessVars == <<tokens, withdrawn, issuing, hour>>

Everybody == Users \cup {DemoUser, GuestUser}

Here == MaxHour + 1

Live(u) == withdrawn[u] = Here

Free == [user |-> GuestUser, at |-> Here]

AccessInit ==
  /\ tokens = {}
  /\ withdrawn = [u \in Everybody |-> Here]
  /\ issuing = [r \in AccessRequests |-> Free]
  /\ hour = 0

Token(u, use, life) == [user |-> u, use |-> use, exp |-> hour + life]

-----------------------------------------------------------------------------
\* login and the social logins: they find live members, a shared account among them.
LoginFinds(r, u) ==
  /\ issuing[r] = Free /\ Live(u)
  /\ issuing' = [issuing EXCEPT ![r] = [user |-> u, at |-> hour]]
  /\ UNCHANGED <<tokens, withdrawn, hour>>

\* Mutant of Renews: the renewal trusts the token.
RenewsAnybody(u) == \E t \in tokens : t.use = "refresh" /\ t.user = u

\* decode_refresh_token, and get_member_by_id, which knows no withdrawn member.
Renews(u) == Live(u) /\ \E t \in tokens : t.use = "refresh" /\ t.user = u

RefreshFinds(r, u) ==
  /\ issuing[r] = Free /\ Renews(u)
  /\ issuing' = [issuing EXCEPT ![r] = [user |-> u, at |-> hour]]
  /\ UNCHANGED <<tokens, withdrawn, hour>>

\* A new pair; the old refresh token stays valid until it expires.
Issue(r) ==
  /\ issuing[r] # Free
  /\ Cardinality(tokens) + 2 <= MaxTokens
  /\ tokens' = tokens \cup {Token(issuing[r].user, "access", AccessLife),
                            Token(issuing[r].user, "refresh", RefreshLife)}
  /\ issuing' = [issuing EXCEPT ![r] = Free]
  /\ UNCHANGED <<withdrawn, hour>>

IssueFails(r) ==
  /\ issuing[r] # Free
  /\ issuing' = [issuing EXCEPT ![r] = Free]
  /\ UNCHANGED <<tokens, withdrawn, hour>>

\* issue_guest_token: no refresh token.
IssueGuest ==
  /\ Cardinality(tokens) < MaxTokens
  /\ tokens' = tokens \cup {Token(GuestUser, "access", AccessLife)}
  /\ UNCHANGED <<withdrawn, issuing, hour>>

\* The cookie with the refresh token goes, or whatever the client does to forget a token.
Forget(t) ==
  /\ tokens' = tokens \ {t}
  /\ UNCHANGED <<withdrawn, issuing, hour>>

\* guest_allowed_write_routes and demo_allowed_write_routes
Allowed(u) ==
  CASE u = GuestUser -> IF GuestWrites THEN {"books"} ELSE {}
    [] u = DemoUser -> {"books", "librarians"}
    [] OTHER -> Routes

\* A write with a token.  What the routes change is up to other modules, but for the
\* withdrawal: it stands for the routes of the account, and finds only a live member.
Write(t, route) ==
  /\ route \in Allowed(t.user)
  /\ route = "account" => Live(t.user)
  /\ withdrawn' = IF route = "account" THEN [withdrawn EXCEPT ![t.user] = hour] ELSE withdrawn
  /\ UNCHANGED <<tokens, issuing, hour>>

HourTick ==
  /\ hour < MaxHour
  /\ \A r \in AccessRequests : issuing[r] # Free => hour < issuing[r].at + Late
  /\ hour' = hour + 1
  /\ tokens' = {t \in tokens : t.exp > hour + 1}
  /\ UNCHANGED <<withdrawn, issuing>>

AccessNext ==
  \/ HourTick \/ IssueGuest
  \/ \E t \in tokens : Forget(t) \/ \E route \in Routes : Write(t, route)
  \/ \E r \in AccessRequests :
       \/ \E u \in Everybody : LoginFinds(r, u) \/ RefreshFinds(r, u)
       \/ Issue(r) \/ IssueFails(r)

AccessSpec == AccessInit /\ [][AccessNext]_accessVars

-----------------------------------------------------------------------------
AccessTypeOK ==
  /\ tokens \subseteq [user : Everybody, use : {"access", "refresh"}, exp : Nat]
  /\ withdrawn \in [Everybody -> 0 .. Here]
  /\ issuing \in [AccessRequests -> [user : Everybody, at : 0 .. Here]]
  /\ hour \in 0 .. MaxHour

LongestLife == IF AccessLife > RefreshLife THEN AccessLife ELSE RefreshLife

\* Nobody withdraws a shared account, with a token from whichever way in.  A member who has
\* withdrawn cannot renew: once the tokens issued until then, and by the requests that were
\* under way, have expired, no token of the member is left, however often they were renewed.
WithdrawnLoseAccess ==
  \A u \in Everybody : ~ Live(u) =>
    /\ u \in Users
    /\ hour >= withdrawn[u] + Late + LongestLife => \A t \in tokens : t.user # u

=============================================================================
