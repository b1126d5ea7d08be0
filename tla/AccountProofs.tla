---------------------------- MODULE AccountProofs ----------------------------
(***************************************************************************)
(* Proofs about a member's account and what is in it: first logins,        *)
(* tokens, the rate limiter, librarians, the withdrawal, images, and the   *)
(* reset of the shared accounts; for any number of accounts, rows,         *)
(* requests, keys, seeds and ticks.                                        *)
(***************************************************************************)
EXTENDS Members, Access, RateLimiter, Librarians, SoftDelete, Images, DemoReset,
        FiniteSetTheorems, SequenceTheorems, TLAPS

-----------------------------------------------------------------------------
(* First logins.                                                           *)

\* One conjunct of MembersAreWhole for each account.
WholeUnlessInterrupted(a) ==
  "member" \in account[a] /\ "foreign" \notin account[a] /\ a \notin orphaned
    /\ ~ AtWork(a, {"half", "given", "seeded"})
  => "librarian" \in account[a] /\ (a = Guest => "seeds" \in account[a])

LEMMA MembersInitially == MemberInit => MemberTypeOK /\ MembersAreWhole
  BY MemberAssumption DEF MemberInit, MemberTypeOK, MembersAreWhole, Outside, Parts

LEMMA MemberTypesStep == MemberTypeOK /\ [MemberNext]_memberVars => MemberTypeOK'
<1> SUFFICES ASSUME MemberTypeOK, [MemberNext]_memberVars PROVE MemberTypeOK'
  OBVIOUS
<1> USE MemberAssumption DEF MemberTypeOK, Outside, Parts
<1>1. CASE UNCHANGED memberVars
  BY <1>1 DEF memberVars
<1>2. ASSUME NEW a \in Accounts, UseHalfMade(a) PROVE MemberTypeOK'
  BY <1>2 DEF UseHalfMade
<1>3. ASSUME NEW r \in MemberRequests, NEW a \in Accounts, FindNobody(r, a) PROVE MemberTypeOK'
  BY <1>3 DEF FindNobody
<1>4. ASSUME NEW r \in MemberRequests, InsertMember(r) PROVE MemberTypeOK'
  BY <1>4 DEF InsertMember, Step, Leave
<1>5. ASSUME NEW r \in MemberRequests, CommitWithShelf(r) PROVE MemberTypeOK'
  BY <1>5 DEF CommitWithShelf, Step, Gives
<1>6. ASSUME NEW r \in MemberRequests, GiveLibrarian(r) PROVE MemberTypeOK'
  BY <1>6 DEF GiveLibrarian, Step
<1>7. ASSUME NEW r \in MemberRequests, FlushSeeds(r) PROVE MemberTypeOK'
  BY <1>7 DEF FlushSeeds, Step
<1>8. ASSUME NEW r \in MemberRequests, CommitMember(r) PROVE MemberTypeOK'
  BY <1>8 DEF CommitMember, Gives, Leave
<1>9. ASSUME NEW r \in MemberRequests, Poll(r) PROVE MemberTypeOK'
  BY <1>9 DEF Poll, Leave
<1>10. ASSUME NEW r \in MemberRequests, JoinDies(r) PROVE MemberTypeOK'
  BY <1>10 DEF JoinDies, Leave
<1> QED
  BY <1>1, <1>2, <1>3, <1>4, <1>5, <1>6, <1>7, <1>8, <1>9, <1>10 DEF MemberNext

\* What a step of one account leaves as it was for another.
LEMMA WholeKept ==
  ASSUME NEW a \in Accounts, MembersAreWhole,
         account'[a] = account[a], orphaned \subseteq orphaned',
         AtWork(a, {"half", "given", "seeded"}) =>
           AtWork(a, {"half", "given", "seeded"})' \/ a \in orphaned' \/ "foreign" \in account[a]
  PROVE  WholeUnlessInterrupted(a)' /\ ("member" \in account'[a] <=> "shelf" \in account'[a])
  BY DEF MembersAreWhole, WholeUnlessInterrupted

LEMMA StaysAtWork ==
  ASSUME MemberTypeOK, NEW a \in Accounts, NEW r \in MemberRequests,
         \A o \in MemberRequests \ {r} : joining'[o] = joining[o],
         joining[r].of = a /\ joining[r].pc \in {"half", "given", "seeded"} =>
           joining'[r].of = a /\ joining'[r].pc \in {"half", "given", "seeded"},
         AtWork(a, {"half", "given", "seeded"})
  PROVE  AtWork(a, {"half", "given", "seeded"})'
<1>1. PICK o \in MemberRequests : joining[o].of = a /\ joining[o].pc \in {"half", "given", "seeded"}
  BY DEF AtWork
<1>2. joining'[o].of = a /\ joining'[o].pc \in {"half", "given", "seeded"}
  BY <1>1
<1> QED
  BY <1>2 DEF AtWork

LEMMA MembersStep ==
  ASSUME MemberTypeOK, MemberTypeOK', MembersAreWhole, [MemberNext]_memberVars
  PROVE  MembersAreWhole'
<1> SUFFICES ASSUME NEW a \in Accounts
             PROVE  WholeUnlessInterrupted(a)' /\ ("member" \in account'[a] <=> "shelf" \in account'[a])
  BY DEF MembersAreWhole, WholeUnlessInterrupted
<1> USE MemberAssumption
<1>1. CASE UNCHANGED memberVars
  <2>1. UNCHANGED <<account, joining, orphaned>>
    BY <1>1 DEF memberVars
  <2> QED
    BY <2>1 DEF MembersAreWhole, WholeUnlessInterrupted, AtWork
<1>2. ASSUME NEW b \in Accounts, UseHalfMade(b) PROVE WholeUnlessInterrupted(a)' /\ ("member" \in account'[a] <=> "shelf" \in account'[a])
  BY <1>2 DEF UseHalfMade, MemberTypeOK, MembersAreWhole, WholeUnlessInterrupted, AtWork
<1>3. ASSUME NEW r \in MemberRequests, NEW b \in Accounts, FindNobody(r, b)
      PROVE  WholeUnlessInterrupted(a)' /\ ("member" \in account'[a] <=> "shelf" \in account'[a])
  <2>1. AtWork(a, {"half", "given", "seeded"}) => AtWork(a, {"half", "given", "seeded"})'
    BY <1>3, StaysAtWork DEF FindNobody, MemberTypeOK
  <2> QED
    BY <1>3, <2>1, WholeKept DEF FindNobody
<1>4. ASSUME NEW r \in MemberRequests, InsertMember(r) \/ Poll(r)
      PROVE  WholeUnlessInterrupted(a)' /\ ("member" \in account'[a] <=> "shelf" \in account'[a])
  <2>1. joining[r].pc \in {"missing", "poll"}
    BY <1>4 DEF InsertMember, Poll
  <2>2. \A o \in MemberRequests \ {r} : joining'[o] = joining[o]
    BY <1>4 DEF InsertMember, Poll, Step, Leave, MemberTypeOK
  <2>3. AtWork(a, {"half", "given", "seeded"}) => AtWork(a, {"half", "given", "seeded"})'
    BY <2>1, <2>2, StaysAtWork
  <2> QED
    BY <1>4, <2>3, WholeKept DEF InsertMember, Poll
<1>5. ASSUME NEW r \in MemberRequests, CommitWithShelf(r)
      PROVE  WholeUnlessInterrupted(a)' /\ ("member" \in account'[a] <=> "shelf" \in account'[a])
  <2>1. joining[r].pc = "inserted" /\ joining'[r].pc = "half" /\ joining'[r].of = joining[r].of
    BY <1>5 DEF CommitWithShelf, Step, MemberTypeOK
  <2>2. \A o \in MemberRequests \ {r} : joining'[o] = joining[o]
    BY <1>5 DEF CommitWithShelf, Step, MemberTypeOK
  <2>3. CASE a = joining[r].of
    <3>1. AtWork(a, {"half", "given", "seeded"})'
      BY <2>1, <2>3 DEF AtWork
    <3>2. account'[a] = account[a] \cup {"member", "shelf"}
      BY <1>5, <2>3 DEF CommitWithShelf, Gives, MemberTypeOK
    <3> QED
      BY <3>1, <3>2 DEF WholeUnlessInterrupted
  <2>4. CASE a # joining[r].of
    <3>1. account'[a] = account[a] /\ orphaned' = orphaned
      BY <1>5, <2>4 DEF CommitWithShelf, Gives, MemberTypeOK
    <3>2. AtWork(a, {"half", "given", "seeded"}) => AtWork(a, {"half", "given", "seeded"})'
      BY <2>1, <2>2, StaysAtWork
    <3> QED
      BY <3>1, <3>2, WholeKept
  <2> QED
    BY <2>3, <2>4
<1>6. ASSUME NEW r \in MemberRequests, GiveLibrarian(r) \/ FlushSeeds(r)
      PROVE  WholeUnlessInterrupted(a)' /\ ("member" \in account'[a] <=> "shelf" \in account'[a])
  <2>1. joining[r] \in [pc : {"half", "given"}, of : Accounts] /\ joining'[r].of = joining[r].of
    BY <1>6 DEF GiveLibrarian, FlushSeeds, Step, MemberTypeOK
  <2>2. joining'[r].pc \in {"given", "seeded"} \/ "foreign" \in account[joining[r].of]
    BY <1>6 DEF GiveLibrarian, FlushSeeds, Step, MemberTypeOK
  <2>3. \A o \in MemberRequests \ {r} : joining'[o] = joining[o]
    BY <1>6 DEF GiveLibrarian, FlushSeeds, Step, MemberTypeOK
  <2>4. account' = account /\ orphaned' = orphaned
    BY <1>6 DEF GiveLibrarian, FlushSeeds
  <2>5. CASE a = joining[r].of /\ "foreign" \in account[a]
    BY <2>4, <2>5, WholeKept
  <2>6. CASE a # joining[r].of \/ "foreign" \notin account[a]
    <3>1. AtWork(a, {"half", "given", "seeded"}) => AtWork(a, {"half", "given", "seeded"})'
      BY <2>1, <2>2, <2>3, <2>6, StaysAtWork
    <3> QED
      BY <2>4, <3>1, WholeKept
  <2> QED
    BY <2>5, <2>6
<1>7. ASSUME NEW r \in MemberRequests, CommitMember(r)
      PROVE  WholeUnlessInterrupted(a)' /\ ("member" \in account'[a] <=> "shelf" \in account'[a])
  <2> DEFINE of == joining[r].of
  <2>1. of \in Accounts /\ orphaned' = orphaned
    BY <1>7 DEF CommitMember, MemberTypeOK
  <2>2. \A o \in MemberRequests \ {r} : joining'[o] = joining[o]
    BY <1>7 DEF CommitMember, Leave, MemberTypeOK
  <2>3. CASE a = of /\ joining[r].pc # "spoilt"
    <3>1. account'[a] = account[a] \cup (IF a = Guest THEN {"librarian", "seeds"} ELSE {"librarian"})
      BY <1>7, <2>3 DEF CommitMember, Gives, MemberTypeOK
    <3> QED
      BY <3>1, <2>1 DEF WholeUnlessInterrupted, MembersAreWhole
  <2>4. CASE a # of \/ joining[r].pc = "spoilt"
    <3>1. account'[a] = account[a]
      BY <1>7, <2>4 DEF CommitMember, Gives, MemberTypeOK
    <3>2. AtWork(a, {"half", "given", "seeded"}) => AtWork(a, {"half", "given", "seeded"})'
      BY <2>2, <2>4, StaysAtWork
    <3> QED
      BY <2>1, <3>1, <3>2, WholeKept
  <2> QED
    BY <2>3, <2>4
<1>8. ASSUME NEW r \in MemberRequests, JoinDies(r)
      PROVE  WholeUnlessInterrupted(a)' /\ ("member" \in account'[a] <=> "shelf" \in account'[a])
  <2>1. account' = account /\ orphaned \subseteq orphaned'
    BY <1>8 DEF JoinDies
  <2>2. \A o \in MemberRequests \ {r} : joining'[o] = joining[o]
    BY <1>8 DEF JoinDies, Leave, MemberTypeOK
  <2>3. joining[r].pc \in {"half", "given", "seeded"} => joining[r].of \in orphaned'
    BY <1>8 DEF JoinDies
  <2>4. CASE joining[r].of = a /\ joining[r].pc \in {"half", "given", "seeded"}
    BY <2>1, <2>3, <2>4, WholeKept
  <2>5. CASE ~ (joining[r].of = a /\ joining[r].pc \in {"half", "given", "seeded"})
    <3>1. AtWork(a, {"half", "given", "seeded"}) => AtWork(a, {"half", "given", "seeded"})'
      BY <2>2, <2>5, StaysAtWork
    <3> QED
      BY <2>1, <3>1, WholeKept
  <2> QED
    BY <2>4, <2>5
<1> QED
  BY <1>1, <1>2, <1>3, <1>4, <1>5, <1>6, <1>7, <1>8 DEF MemberNext

\* Whatever logins race, and wherever they die: an account that is not whole is one whose
\* creator is at work, or has died, or was overtaken (ensure_guest_member and the others).
THEOREM MembersStayWhole == MemberSpec => []MembersAreWhole
<1>1. MemberTypeOK /\ MembersAreWhole /\ [MemberNext]_memberVars => (MemberTypeOK /\ MembersAreWhole)'
  BY MemberTypesStep, MembersStep
<1> QED
  BY MembersInitially, <1>1, PTL DEF MemberSpec

-----------------------------------------------------------------------------
(* Tokens.                                                                 *)

AccessTypes ==
  /\ tokens \subseteq [user : Everybody, use : {"access", "refresh"}, exp : Nat]
  /\ withdrawn \in [Everybody -> 0 .. Here]
  /\ issuing \in [AccessRequests -> [user : Everybody, at : 0 .. Here]]
  /\ hour \in 0 .. MaxHour

\* What a token or a request can still do to a member who has withdrawn.
AccessInv ==
  /\ AccessTypes
  /\ \A u \in Everybody : ~ Live(u) => u \in Users /\ withdrawn[u] <= hour
  /\ \A t \in tokens :
       /\ hour < t.exp /\ t.exp <= hour + LongestLife
       /\ ~ Live(t.user) => t.exp <= withdrawn[t.user] + Late + LongestLife
  /\ \A r \in AccessRequests : issuing[r] # Free =>
       /\ issuing[r].at <= hour /\ hour <= issuing[r].at + Late
       /\ ~ Live(issuing[r].user) => issuing[r].at <= withdrawn[issuing[r].user]

LEMMA LifeTimes ==
  /\ LongestLife \in Nat /\ AccessLife \in 1 .. LongestLife /\ RefreshLife \in 1 .. LongestLife
  /\ Late \in Nat /\ Here \in Nat /\ MaxHour < Here /\ MaxHour \in Nat
  BY AccessAssumption DEF LongestLife, Here

LEMMA AccessInitially == AccessInit => AccessInv
  BY LifeTimes DEF AccessInit, AccessInv, AccessTypes, Free, Live, Everybody

LEMMA AccessInvSafe == AccessInv => WithdrawnLoseAccess
<1> SUFFICES ASSUME AccessInv, NEW u \in Everybody, ~ Live(u)
             PROVE  /\ u \in Users
                    /\ hour >= withdrawn[u] + Late + LongestLife => \A t \in tokens : t.user # u
  BY DEF WithdrawnLoseAccess
<1>1. u \in Users
  BY DEF AccessInv
<1>2. ASSUME hour >= withdrawn[u] + Late + LongestLife, NEW t \in tokens, t.user = u PROVE FALSE
  <2>1. hour < t.exp /\ t.exp <= withdrawn[u] + Late + LongestLife
    BY <1>2 DEF AccessInv
  <2>2. t.exp \in Nat /\ hour \in Nat /\ withdrawn[u] \in Nat
    BY LifeTimes DEF AccessInv, AccessTypes
  <2> QED
    BY <1>2, <2>1, <2>2, LifeTimes
<1> QED
  BY <1>1, <1>2

LEMMA AccessStep == AccessInv /\ [AccessNext]_accessVars => AccessInv'
<1> SUFFICES ASSUME AccessInv, [AccessNext]_accessVars PROVE AccessInv'
  OBVIOUS
<1> USE LifeTimes
<1>1. CASE UNCHANGED accessVars
  BY <1>1 DEF accessVars, AccessInv, AccessTypes, Live
<1>2. CASE HourTick
  <2>1. hour' = hour + 1 /\ hour' \in 0 .. MaxHour /\ UNCHANGED <<withdrawn, issuing>>
    BY <1>2 DEF HourTick, AccessInv, AccessTypes
  <2>2. tokens' = {t \in tokens : t.exp > hour + 1}
    BY <1>2 DEF HourTick
  <2>3. \A r \in AccessRequests : issuing[r] # Free => hour < issuing[r].at + Late
    BY <1>2 DEF HourTick
  <2> QED
    BY <2>1, <2>2, <2>3 DEF AccessInv, AccessTypes, Live
<1>3. ASSUME NEW r \in AccessRequests, NEW u \in Everybody, LoginFinds(r, u) \/ RefreshFinds(r, u)
      PROVE  AccessInv'
  <2>1. Live(u) /\ issuing' = [issuing EXCEPT ![r] = [user |-> u, at |-> hour]]
    BY <1>3 DEF LoginFinds, RefreshFinds, Renews
  <2>2. UNCHANGED <<tokens, withdrawn, hour>>
    BY <1>3 DEF LoginFinds, RefreshFinds
  <2> QED
    BY <2>1, <2>2 DEF AccessInv, AccessTypes, Live
<1>4. ASSUME NEW r \in AccessRequests, IssueFails(r) PROVE AccessInv'
  <2>1. Free \in [user : Everybody, at : 0 .. Here]
    BY DEF Free, Everybody
  <2>2. UNCHANGED <<tokens, withdrawn, hour>> /\ issuing' = [issuing EXCEPT ![r] = Free]
    BY <1>4 DEF IssueFails
  <2> QED
    BY <2>1, <2>2 DEF AccessInv, AccessTypes, Live
<1>5. ASSUME NEW r \in AccessRequests, Issue(r) PROVE AccessInv'
  <2> DEFINE u == issuing[r].user
             new == {Token(u, "access", AccessLife), Token(u, "refresh", RefreshLife)}
  <2>1. UNCHANGED <<withdrawn, hour>> /\ issuing' = [issuing EXCEPT ![r] = Free] /\ issuing[r] # Free
    BY <1>5 DEF Issue
  <2>2. tokens' = tokens \cup new
    BY <1>5 DEF Issue
  <2>3. u \in Everybody /\ hour \in Nat
    BY DEF AccessInv, AccessTypes
  <2>4. ASSUME NEW t \in new
        PROVE  /\ t \in [user : Everybody, use : {"access", "refresh"}, exp : Nat]
               /\ hour < t.exp /\ t.exp <= hour + LongestLife /\ t.user = u
    BY <2>3, <2>4 DEF Token
  <2>5. ~ Live(u) => hour <= withdrawn[u] + Late
    BY <2>1, <2>3 DEF AccessInv, AccessTypes
  <2>6. ASSUME NEW t \in new, ~ Live(u) PROVE t.exp <= withdrawn[u] + Late + LongestLife
    <3>1. withdrawn[u] \in Nat /\ t.exp \in Nat
      BY <2>3, <2>4, <2>6 DEF AccessInv, AccessTypes
    <3> QED
      BY <2>3, <2>4, <2>5, <2>6, <3>1
  <2>7. Free \in [user : Everybody, at : 0 .. Here]
    BY DEF Free, Everybody
  <2> HIDE DEF new, u
  <2>8. AccessTypes'
    BY <2>1, <2>2, <2>4, <2>7 DEF AccessInv, AccessTypes
  <2>9. \A t \in tokens' :
          /\ hour < t.exp /\ t.exp <= hour + LongestLife
          /\ ~ Live(t.user) => t.exp <= withdrawn[t.user] + Late + LongestLife
    BY <2>2, <2>4, <2>6 DEF AccessInv
  <2>10. \A o \in AccessRequests : issuing'[o] # Free => issuing'[o] = issuing[o]
    BY <2>1 DEF AccessInv, AccessTypes
  <2>11. \A v : Live(v)' = Live(v)
    BY <2>1 DEF Live
  <2> QED
    BY <2>1, <2>8, <2>9, <2>10, <2>11 DEF AccessInv
<1>6. CASE IssueGuest
  <2>1. UNCHANGED <<withdrawn, issuing, hour>> /\ tokens' = tokens \cup {Token(GuestUser, "access", AccessLife)}
    BY <1>6 DEF IssueGuest
  <2>2. Live(GuestUser)
    BY AccessAssumption DEF AccessInv, Everybody
  <2>3. Token(GuestUser, "access", AccessLife) \in [user : Everybody, use : {"access", "refresh"}, exp : Nat]
    BY DEF Token, Everybody, AccessInv, AccessTypes
  <2> QED
    BY <2>1, <2>2, <2>3 DEF AccessInv, AccessTypes, Live, Token
<1>7. ASSUME NEW t \in tokens, Forget(t) PROVE AccessInv'
  BY <1>7 DEF Forget, AccessInv, AccessTypes, Live
<1>8. ASSUME NEW t \in tokens, NEW route \in Routes, Write(t, route) PROVE AccessInv'
  <2>1. UNCHANGED <<tokens, issuing, hour>> /\ t.user \in Everybody
    BY <1>8 DEF Write, AccessInv, AccessTypes
  <2>2. CASE route # "account"
    <3>1. withdrawn' = withdrawn
      BY <1>8, <2>2 DEF Write
    <3> QED
      BY <2>1, <3>1 DEF AccessInv, AccessTypes, Live
  <2>3. CASE route = "account"
    <3>1. t.user \in Users
      BY <1>8, <2>1, <2>3, AccessAssumption DEF Write, Allowed, Everybody
    <3>2. withdrawn' = [withdrawn EXCEPT ![t.user] = hour]
      BY <1>8, <2>3 DEF Write
    <3>3. withdrawn' \in [Everybody -> 0 .. Here] /\ hour \in 0 .. MaxHour
      BY <2>1, <3>2 DEF AccessInv, AccessTypes
    <3>4. \A u \in Everybody : withdrawn'[u] = IF u = t.user THEN hour ELSE withdrawn[u]
      BY <3>2, <2>1 DEF AccessInv, AccessTypes
    <3>5. \A x \in tokens : x.user \in Everybody /\ x.exp \in Nat
      BY DEF AccessInv, AccessTypes
    <3>6. \A x \in tokens : ~ Live(x.user)' => x.exp <= withdrawn'[x.user] + Late + LongestLife
      BY <3>3, <3>4, <3>5 DEF AccessInv, AccessTypes, Live
    <3>7. \A o \in AccessRequests : issuing[o] # Free /\ ~ Live(issuing[o].user)'
            => issuing[o].at <= withdrawn'[issuing[o].user]
      BY <3>3, <3>4 DEF AccessInv, AccessTypes, Live
    <3>8. \A u \in Everybody : ~ Live(u)' => u \in Users /\ withdrawn'[u] <= hour
      BY <3>1, <3>3, <3>4 DEF AccessInv, AccessTypes, Live
    <3>9. AccessTypes'
      BY <2>1, <3>3 DEF AccessInv, AccessTypes
    <3> QED
      BY <2>1, <3>6, <3>7, <3>8, <3>9 DEF AccessInv
  <2> QED
    BY <2>2, <2>3
<1> QED
  BY <1>1, <1>2, <1>3, <1>4, <1>5, <1>6, <1>7, <1>8 DEF AccessNext

\* However often tokens are renewed and however a withdrawal overlaps with renewals: no token
\* of a member lives longer after the withdrawal than a request and a token take together,
\* and the shared accounts are never withdrawn (refresh_token, withdraw).
THEOREM WithdrawnAreOut == AccessSpec => []WithdrawnLoseAccess
  BY AccessInitially, AccessStep, AccessInvSafe, PTL DEF AccessSpec

-----------------------------------------------------------------------------
(* The rate limiter.                                                       *)

\* The times at which a key was let through are in order, and those that are no longer in
\* the list are out of the window for good.
KeyInv(k) ==
  /\ granted[k] \in Seq(Nat) /\ stamps[k] \subseteq DOMAIN granted[k]
  /\ \A i \in DOMAIN granted[k] : granted[k][i] <= clock
  /\ \A i, j \in DOMAIN granted[k] : i <= j => granted[k][i] <= granted[k][j]
  /\ \A i \in DOMAIN granted[k] \ stamps[k] : granted[k][i] <= clock - Window
  /\ \A i \in DOMAIN granted[k] : i > Limits[k] => granted[k][i] - granted[k][i - Limits[k]] >= Window

LimiterInv ==
  /\ clock \in Nat
  /\ granted \in [Buckets -> Seq(Nat)] /\ stamps \in [Buckets -> SUBSET Nat]
  /\ \A k \in Buckets : KeyInv(k)

LEMMA LimiterInitially == LimiterInit => LimiterInv
  BY LimiterAssumption DEF LimiterInit, LimiterInv, KeyInv

\* A key that is not full has its last Limits requests, if it has so many, spread far enough.
LEMMA NotFullMeansSpread ==
  ASSUME LimiterInv, NEW k \in Buckets, ~ Full(k), Len(granted[k]) >= Limits[k]
  PROVE  clock - granted[k][Len(granted[k]) + 1 - Limits[k]] >= Window
<1> DEFINE n == Len(granted[k])
           first == n + 1 - Limits[k]
<1>1. n \in Nat /\ Limits[k] \in Nat \ {0} /\ Window \in Nat /\ clock \in Nat
      /\ granted[k] \in Seq(Nat) /\ DOMAIN granted[k] = 1 .. n
  BY LimiterAssumption DEF LimiterInv, KeyInv
<1>0. /\ stamps[k] \subseteq 1 .. n
      /\ \A i, j \in 1 .. n : i <= j => granted[k][i] <= granted[k][j]
      /\ \A i \in (1 .. n) \ stamps[k] : granted[k][i] <= clock - Window
  BY <1>1 DEF LimiterInv, KeyInv
<1>2. first \in 1 .. n /\ granted[k][first] \in Nat
  BY <1>1, SMTT(40)
<1> HIDE DEF first
<1> SUFFICES ASSUME granted[k][first] > clock - Window PROVE FALSE
  BY <1>1, <1>2, SMTT(40) DEF first
<1>3. ASSUME NEW j \in first .. n PROVE j \in Valid(k)
  <2>1. j \in 1 .. n /\ first <= j
    BY <1>1, <1>2
  <2>2. granted[k][first] <= granted[k][j]
    BY <1>0, <1>2, <2>1
  <2>3. granted[k][j] \in Nat
    BY <1>1, <2>1
  <2>4. granted[k][j] > clock - Window
    BY <1>1, <1>2, <2>2, <2>3, SMTT(40)
  <2>5. j \in stamps[k]
    BY <1>0, <1>1, <2>1, <2>3, <2>4
  <2> QED
    BY <2>4, <2>5 DEF Valid
<1>4. IsFiniteSet(1 .. n)
  BY <1>1, FS_Interval, 1 \in Int, n \in Int
<1>5. IsFiniteSet(Valid(k)) /\ first .. n \subseteq Valid(k)
  <2>1. Valid(k) \subseteq 1 .. n
    BY <1>0 DEF Valid
  <2> QED
    BY <1>3, <1>4, <2>1, FS_Subset
<1>6. Cardinality(first .. n) <= Cardinality(Valid(k)) /\ Cardinality(Valid(k)) \in Nat
  BY <1>5, FS_Subset, FS_CardinalityType
<1>7. Cardinality(first .. n) = Limits[k]
  <2>1. first \in Int /\ n \in Int /\ first <= n /\ n - first + 1 = Limits[k]
    BY <1>1, <1>2, SMTT(40) DEF first
  <2>2. Cardinality(first .. n) = IF first > n THEN 0 ELSE n - first + 1
    BY <2>1, FS_Interval
  <2> HIDE DEF n
  <2> QED
    BY <2>1, <2>2
<1> QED
  BY <1>1, <1>6, <1>7 DEF Full

LEMMA KeyCounted ==
  ASSUME LimiterInv, NEW k \in Buckets, ~ Full(k), clock' = clock,
         granted'[k] = Append(granted[k], clock),
         stamps'[k] = Valid(k) \cup {Len(granted[k]) + 1}
  PROVE  KeyInv(k)'
<1> DEFINE n == Len(granted[k])
<1>1. n \in Nat /\ clock \in Nat /\ Window \in Nat /\ Limits[k] \in Nat \ {0}
      /\ granted[k] \in Seq(Nat) /\ DOMAIN granted[k] = 1 .. n
  BY LimiterAssumption DEF LimiterInv, KeyInv
<1>2. /\ granted'[k] \in Seq(Nat) /\ DOMAIN granted'[k] = 1 .. n + 1
      /\ granted'[k][n + 1] = clock
      /\ \A i \in 1 .. n : granted'[k][i] = granted[k][i]
  BY <1>1
<1>3. stamps'[k] \subseteq 1 .. n + 1
  BY <1>1 DEF LimiterInv, KeyInv, Valid
<1>4. \A i \in 1 .. n + 1 : granted'[k][i] <= clock
  BY <1>1, <1>2 DEF LimiterInv, KeyInv
<1>5. \A i, j \in 1 .. n + 1 : i <= j => granted'[k][i] <= granted'[k][j]
  <2> SUFFICES ASSUME NEW i \in 1 .. n + 1, NEW j \in 1 .. n + 1, i <= j
               PROVE  granted'[k][i] <= granted'[k][j]
    OBVIOUS
  <2>1. CASE j = n + 1
    BY <1>2, <1>4, <2>1
  <2>2. CASE j # n + 1
    <3>1. i \in 1 .. n /\ j \in 1 .. n
      BY <1>1, <2>2
    <3> QED
      BY <1>1, <1>2, <3>1 DEF LimiterInv, KeyInv
  <2> QED
    BY <2>1, <2>2
<1>6. \A i \in (1 .. n + 1) \ stamps'[k] : granted'[k][i] <= clock - Window
  <2> SUFFICES ASSUME NEW i \in 1 .. n + 1, i \notin stamps'[k]
               PROVE  granted'[k][i] <= clock - Window
    OBVIOUS
  <2>1. i \in 1 .. n /\ i \notin Valid(k) /\ granted[k][i] \in Nat
    BY <1>1
  <2> QED
    BY <1>1, <1>2, <2>1 DEF LimiterInv, KeyInv, Valid
<1>7. \A i \in 1 .. n + 1 : i > Limits[k] => granted'[k][i] - granted'[k][i - Limits[k]] >= Window
  <2> SUFFICES ASSUME NEW i \in 1 .. n + 1, i > Limits[k]
               PROVE  granted'[k][i] - granted'[k][i - Limits[k]] >= Window
    OBVIOUS
  <2>1. i - Limits[k] \in 1 .. n
    BY <1>1
  <2>2. granted'[k][i - Limits[k]] = granted[k][i - Limits[k]]
    BY <1>2, <2>1
  <2>3. CASE i = n + 1
    <3>1. n >= Limits[k] /\ i - Limits[k] = n + 1 - Limits[k]
      BY <1>1, <2>3
    <3>2. clock - granted[k][n + 1 - Limits[k]] >= Window
      BY <3>1, NotFullMeansSpread
    <3> QED
      BY <1>2, <2>2, <2>3, <3>1, <3>2
  <2>4. CASE i # n + 1
    <3>1. i \in 1 .. n
      BY <1>1, <2>4
    <3>2. granted[k][i] - granted[k][i - Limits[k]] >= Window
      BY <1>1, <3>1 DEF LimiterInv, KeyInv
    <3> QED
      BY <1>2, <2>2, <3>1, <3>2
  <2> QED
    BY <2>3, <2>4
<1> HIDE DEF n
<1> QED
  BY <1>2, <1>3, <1>4, <1>5, <1>6, <1>7 DEF KeyInv

LEMMA LimiterStep == LimiterInv /\ [LimiterNext]_limiterVars => LimiterInv'
<1> SUFFICES ASSUME LimiterInv, [LimiterNext]_limiterVars PROVE LimiterInv'
  OBVIOUS
<1>1. CASE UNCHANGED limiterVars
  BY <1>1 DEF limiterVars, LimiterInv, KeyInv
<1>2. CASE Elapse
  <2>1. UNCHANGED <<granted, stamps>> /\ clock' = clock + 1 /\ clock \in Nat /\ Window \in Nat
    BY <1>2, LimiterAssumption DEF Elapse, LimiterInv
  <2>2. ASSUME NEW k \in Buckets PROVE KeyInv(k)'
    <3>1. \A i \in DOMAIN granted[k] : granted[k][i] \in Nat
      BY DEF LimiterInv, KeyInv
    <3> QED
      BY <2>1, <3>1 DEF LimiterInv, KeyInv
  <2> QED
    BY <2>1, <2>2 DEF LimiterInv
<1>3. ASSUME NEW keys \in Handlers, Ask(keys) PROVE LimiterInv'
  <2> DEFINE full == {n \in DOMAIN keys : Full(keys[n])}
             counted == {keys[n] : n \in {m \in DOMAIN keys : \A f \in full : m < f}}
  <2>1. keys \in Seq(Buckets)
    BY LimiterAssumption
  <2>2. ASSUME NEW k \in counted PROVE k \in Buckets /\ ~ Full(k)
    <3>1. PICK n \in DOMAIN keys : k = keys[n] /\ \A f \in full : n < f
      BY <2>2
    <3> QED
      BY <2>1, <3>1
  <2>3. /\ granted' = [k \in Buckets |->
                         IF k \in counted THEN Append(granted[k], clock) ELSE granted[k]]
        /\ stamps' = [k \in Buckets |->
                        IF k \in counted THEN Valid(k) \cup {Len(granted[k]) + 1} ELSE stamps[k]]
        /\ clock' = clock
    BY <1>3 DEF Ask
  <2> HIDE DEF counted
  <2>4. ASSUME NEW k \in Buckets PROVE KeyInv(k)'
    <3>1. CASE k \in counted
      BY <2>2, <2>3, <3>1, KeyCounted
    <3>2. CASE k \notin counted
      BY <2>3, <3>2 DEF LimiterInv, KeyInv
    <3> QED
      BY <3>1, <3>2
  <2>5. granted' \in [Buckets -> Seq(Nat)] /\ stamps' \in [Buckets -> SUBSET Nat]
    <3>1. \A k \in Buckets : granted'[k] \in Seq(Nat) /\ stamps'[k] \subseteq DOMAIN granted'[k]
      BY <2>4 DEF KeyInv
    <3>2. \A k \in Buckets : stamps'[k] \subseteq Nat
      BY <3>1
    <3> QED
      BY <2>3, <3>1, <3>2
  <2> QED
    BY <2>3, <2>4, <2>5 DEF LimiterInv
<1> QED
  BY <1>1, <1>2, <1>3 DEF LimiterNext

\* However requests, handlers with several keys and the lazy clean-up of the list mix: no
\* window holds more requests of a key than its limit (InMemoryRateLimiter.check).
THEOREM LimitIsKept == LimiterSpec => []NeverMoreThanLimit
<1>1. LimiterInv => NeverMoreThanLimit
  BY DEF LimiterInv, KeyInv, NeverMoreThanLimit
<1> QED
  BY LimiterInitially, LimiterStep, <1>1, PTL DEF LimiterSpec

\* \div is division: the rounding of retry_after to whole seconds, upwards.
LEMMA CeilRoundsUp ==
  ASSUME NEW ticks \in Nat \ {0}
  PROVE  /\ Ceil(ticks) \in Nat \ {0}
         /\ ticks <= Ceil(ticks) * Second /\ Ceil(ticks) * Second - Second < ticks
<1>1. Second \in Nat \ {0}
  BY LimiterAssumption
<1> DEFINE sum == ticks + Second - 1
           q == sum \div Second
<1>2. sum \in Nat /\ sum >= Second
  BY <1>1
<1>3. q \in Int /\ q * Second <= sum /\ sum < q * Second + Second
  BY <1>1, <1>2, SMTT(60)
<1>4. q * Second \in Int
  BY <1>1, <1>3, SMTT(40)
<1>5. q >= 1
  <2> SUFFICES ASSUME q <= 0 PROVE FALSE
    BY <1>3
  <2>1. q * Second <= 0
    BY <1>1, <1>3, SMTT(60)
  <2> QED
    BY <1>1, <1>2, <1>3, <1>4, <2>1
<1>6. Ceil(ticks) = q
  BY DEF Ceil
<1> HIDE DEF q
<1> QED
  BY <1>1, <1>3, <1>4, <1>5, <1>6

LEMMA Extremes ==
  ASSUME NEW a \in Int, NEW b \in Int
  PROVE  /\ Max({a, b}) = IF a >= b THEN a ELSE b
         /\ a <= b => Min(a .. b) = a
<1>1. \A x \in {a, b} : (\A y \in {a, b} : x >= y) <=> x = IF a >= b THEN a ELSE b
  OBVIOUS
<1>2. \A x \in a .. b : (\A y \in a .. b : x <= y) <=> x = a
  OBVIOUS
<1> QED
  BY <1>1, <1>2 DEF Max, Min

LEMMA LeastExists ==
  ASSUME NEW S \in SUBSET Nat, S # {}
  PROVE  \E least \in S : \A y \in S : least <= y
<1> DEFINE R == OpToRel(<, Nat)
<1>1. \A m, n \in Nat : <<m, n>> \in R <=> m < n
  BY DEF OpToRel
<1>2. IsWellFoundedOn(R, Nat)
  BY NatLessThanWellFounded
<1> HIDE DEF R
<1>3. PICK x \in S : \A y \in S : ~ (<<y, x>> \in R)
  BY <1>2, WFMin
<1>4. ASSUME NEW y \in S PROVE x <= y
  <2>1. x \in Nat /\ y \in Nat /\ ~ (y < x)
    BY <1>1, <1>3
  <2> QED
    BY <2>1
<1>5. QED
  BY <1>4

LEMMA LeastOf ==
  ASSUME NEW S \in SUBSET Nat, S # {}
  PROVE  Min(S) \in S
<1>1. \E least \in S : \A y \in S : least <= y
  BY LeastExists
<1> QED
  BY <1>1, Zenon DEF Min

\* The request from which the wait is counted is the oldest of the last Limits of its key;
\* all of these are in the list, and while nothing is let through they stay the last.
RefusalInv(k) ==
  LET n == Len(granted[k])
      first == n + 1 - Limits[k]
      over == refusal[k].at + refusal[k].retry * Second
  IN  /\ refusal[k].after \in Int /\ refusal[k].after <= n
      /\ refusal[k].after = n =>
           /\ first >= 1 /\ first .. n \subseteq stamps[k]
           /\ over \in Int
           /\ granted[k][first] + Window <= over /\ over - Second < granted[k][first] + Window

RefusalsInv == \A k \in Buckets : RefusalInv(k)

\* What counts when a key is full are its last Limits requests.
LEMMA FullMeansLast ==
  ASSUME LimiterInv, NEW k \in Buckets, Full(k)
  PROVE  LET n == Len(granted[k])
             first == n + 1 - Limits[k]
         IN  /\ first >= 1 /\ Valid(k) = first .. n
             /\ granted[k][first] \in Nat /\ granted[k][first] > clock - Window
<1> DEFINE n == Len(granted[k])
           first == n + 1 - Limits[k]
           start == IF first >= 1 THEN first ELSE 1
<1>1. n \in Nat /\ Limits[k] \in Nat \ {0} /\ Window \in Nat \ {0} /\ clock \in Nat
      /\ granted[k] \in Seq(Nat) /\ DOMAIN granted[k] = 1 .. n
  BY LimiterAssumption DEF LimiterInv, KeyInv
<1>2. /\ stamps[k] \subseteq 1 .. n
      /\ \A i \in 1 .. n : granted[k][i] \in Nat /\ granted[k][i] <= clock
      /\ \A i \in 1 .. n : i > Limits[k] => granted[k][i] - granted[k][i - Limits[k]] >= Window
  <2>1. KeyInv(k)
    BY DEF LimiterInv
  <2>2. /\ stamps[k] \subseteq DOMAIN granted[k]
        /\ \A i \in DOMAIN granted[k] : granted[k][i] <= clock
        /\ \A i \in DOMAIN granted[k] :
             i > Limits[k] => granted[k][i] - granted[k][i - Limits[k]] >= Window
    BY <2>1 DEF KeyInv
  <2>3. \A i \in DOMAIN granted[k] : granted[k][i] \in Nat
    BY <1>1
  <2> HIDE DEF n, first, start
  <2> QED
    BY <1>1, <2>2, <2>3, Zenon
<1>3. first \in Int /\ start \in 1 .. n + 1 /\ start >= first /\ first = n + 1 - Limits[k]
  BY <1>1
<1>4. ASSUME NEW i \in Valid(k) PROVE i \in start .. n
  <2>1. i \in 1 .. n /\ granted[k][i] > clock - Window
    BY <1>2 DEF Valid
  <2>2. ASSUME i < first PROVE FALSE
    <3>1. i + Limits[k] \in 1 .. n /\ i + Limits[k] > Limits[k] /\ (i + Limits[k]) - Limits[k] = i
      <4>1. i \in Int /\ 1 <= i /\ i < n + 1 - Limits[k]
        BY <1>1, <1>3, <2>1, <2>2
      <4> HIDE DEF n, first, start
      <4> QED
        BY <1>1, <4>1
    <3>2. granted[k][i + Limits[k]] - granted[k][i] >= Window
      BY <1>2, <3>1
    <3>3. granted[k][i + Limits[k]] \in Nat /\ granted[k][i + Limits[k]] <= clock
          /\ granted[k][i] \in Nat
      BY <1>2, <2>1, <3>1
    <3> HIDE DEF n, first, start
    <3> QED
      BY <1>1, <3>2, <3>3, <2>1, SMTT(40)
  <2> QED
    BY <1>1, <1>3, <2>1, <2>2
<1> HIDE DEF n, first, start
<1>5. IsFiniteSet(start .. n) /\ Cardinality(start .. n) = IF start > n THEN 0 ELSE n - start + 1
  BY <1>1, <1>3, FS_Interval, start \in Int, n \in Int
<1>6. /\ Valid(k) \subseteq start .. n /\ Cardinality(Valid(k)) <= Cardinality(start .. n)
      /\ Cardinality(start .. n) = Cardinality(Valid(k)) => start .. n = Valid(k)
  BY <1>4, <1>5, FS_Subset
<1>7. Cardinality(Valid(k)) >= Limits[k] /\ Cardinality(Valid(k)) \in Nat
  BY <1>5, <1>6, FS_Subset, FS_CardinalityType DEF Full
<1>8. first >= 1
  <2> SUFFICES ASSUME first < 1 PROVE FALSE
    BY <1>3
  <2>1. start = 1 /\ n < Limits[k]
    BY <1>1, <1>3 DEF start
  <2> QED
    BY <1>1, <1>5, <1>6, <1>7, <2>1
<1>9. start = first
  BY <1>8 DEF start
<1>10. Cardinality(start .. n) = Limits[k] /\ first <= n
  <2>1. first <= n /\ n - first + 1 = Limits[k] /\ ~ (start > n)
    BY <1>1, <1>3, <1>9
  <2>2. Cardinality(start .. n) = n - first + 1
    BY <1>5, <1>9, <2>1, Zenon
  <2>3. QED
    BY <2>1, <2>2
<1>11. Valid(k) = first .. n
  BY <1>1, <1>6, <1>7, <1>9, <1>10
<1>12. first \in Valid(k)
  BY <1>1, <1>3, <1>10, <1>11
<1> QED
  BY <1>2, <1>8, <1>11, <1>12 DEF Valid, n, first

LEMMA RefusedExactly ==
  ASSUME LimiterInv, NEW k \in Buckets, Full(k), UNCHANGED <<granted[k], stamps[k], clock>>,
         refusal'[k] = [at |-> clock, retry |-> RetryAfter(k), after |-> Len(granted[k])]
  PROVE  RefusalInv(k)'
<1> DEFINE n == Len(granted[k])
           first == n + 1 - Limits[k]
           wait == granted[k][first] + Window - clock
<1>1. n \in Nat /\ Limits[k] \in Nat \ {0} /\ Window \in Nat \ {0} /\ clock \in Nat
      /\ Second \in Nat \ {0}
  BY LimiterAssumption DEF LimiterInv, KeyInv
<1>2. /\ first >= 1 /\ Valid(k) = first .. n /\ first \in Int /\ first <= n
      /\ granted[k][first] \in Nat /\ granted[k][first] > clock - Window
  BY <1>1, FullMeansLast
<1>3. first .. n \subseteq stamps[k]
  BY <1>2 DEF Valid
<1> HIDE DEF n, first
<1>4. Min(Valid(k)) = first
  <2>1. first \in Int /\ n \in Int /\ first <= n
    BY <1>1, <1>2
  <2>2. Min(first .. n) = first
    BY <2>1, Extremes
  <2> QED
    BY <1>2, <2>2
<1>5. wait \in Nat \ {0}
  BY <1>1, <1>2
<1>6. /\ Ceil(wait) \in Nat \ {0}
      /\ wait <= Ceil(wait) * Second /\ Ceil(wait) * Second - Second < wait
  BY <1>5, CeilRoundsUp
<1>7. RetryAfter(k) = Max({1, Ceil(wait)})
  BY <1>4 DEF RetryAfter
<1>8. Max({1, Ceil(wait)}) = IF 1 >= Ceil(wait) THEN 1 ELSE Ceil(wait)
  BY <1>6, Extremes
<1>9. RetryAfter(k) = Ceil(wait)
  BY <1>6, <1>7, <1>8
<1>10. Ceil(wait) * Second \in Int
  BY <1>1, <1>6
<1>11. /\ refusal'[k].at = clock /\ refusal'[k].retry = Ceil(wait) /\ refusal'[k].after = n
       /\ granted'[k] = granted[k] /\ stamps'[k] = stamps[k]
  BY <1>9 DEF n
<1>12. wait = granted[k][first] + Window - clock
  OBVIOUS
<1> DEFINE product == Ceil(wait) * Second
<1> HIDE DEF wait
<1>13. /\ clock + product \in Int /\ granted[k][first] + Window <= clock + product
       /\ (clock + product) - Second < granted[k][first] + Window
  <2> HIDE DEF product
  <2>1. product \in Int /\ wait <= product /\ product - Second < wait
    BY <1>6, <1>10 DEF product
  <2>2. /\ clock \in Int /\ Window \in Int /\ Second \in Int /\ granted[k][first] \in Int
        /\ wait = granted[k][first] + Window - clock
    BY <1>1, <1>2, <1>12
  <2> QED
    BY <2>1, <2>2, SMTT(40)
<1> QED
  BY <1>1, <1>2, <1>3, <1>11, <1>13 DEF RefusalInv, n, first

LEMMA RefusalsInitially == LimiterInit => RefusalsInv
  BY DEF LimiterInit, RefusalsInv, RefusalInv, NotRefused

LEMMA RefusalsStep == LimiterInv /\ RefusalsInv /\ [LimiterNext]_limiterVars => RefusalsInv'
<1> SUFFICES ASSUME LimiterInv, RefusalsInv, [LimiterNext]_limiterVars,
                    NEW k \in Buckets
             PROVE  RefusalInv(k)'
  BY DEF RefusalsInv
<1>0. RefusalInv(k)
  BY DEF RefusalsInv
<1>1. ASSUME granted'[k] = granted[k], stamps'[k] = stamps[k], refusal'[k] = refusal[k]
      PROVE  RefusalInv(k)'
  BY <1>0, <1>1 DEF RefusalInv
<1>2. CASE Elapse \/ UNCHANGED limiterVars
  BY <1>1, <1>2 DEF Elapse, limiterVars
<1>3. ASSUME NEW keys \in Handlers, Ask(keys) PROVE RefusalInv(k)'
  <2> DEFINE full == {n \in DOMAIN keys : Full(keys[n])}
             counted == {keys[n] : n \in {m \in DOMAIN keys : \A f \in full : m < f}}
             refused == full # {} /\ k = keys[Min(full)]
  <2>1. /\ granted'[k] = IF k \in counted THEN Append(granted[k], clock) ELSE granted[k]
        /\ stamps'[k] = IF k \in counted THEN Valid(k) \cup {Len(granted[k]) + 1} ELSE stamps[k]
        /\ refusal'[k] = IF refused
                         THEN [at |-> clock, retry |-> RetryAfter(k), after |-> Len(granted[k])]
                         ELSE refusal[k]
        /\ clock' = clock
    BY <1>3 DEF Ask
  <2>2. k \in counted => ~ Full(k)
    BY LimiterAssumption
  <2>3. refused => Full(k)
    <3> SUFFICES ASSUME refused PROVE Full(k)
      OBVIOUS
    <3>1. full # {} /\ full \subseteq Nat
      BY LimiterAssumption
    <3>2. Min(full) \in full
      BY <3>1, LeastOf
    <3> QED
      BY <3>2
  <2> HIDE DEF counted, refused
  <2>4. CASE k \in counted
    <3>1. ~ refused
      BY <2>2, <2>3, <2>4
    <3>2. granted[k] \in Seq(Nat)
      BY DEF LimiterInv
    <3>3. Len(granted'[k]) = Len(granted[k]) + 1
      BY <2>1, <2>4, <3>2
    <3>4. refusal'[k] = refusal[k] /\ Len(granted[k]) \in Nat
      BY <2>1, <3>1, <3>2
    <3> QED
      BY <1>0, <3>3, <3>4 DEF RefusalInv
  <2>5. CASE k \notin counted /\ refused
    BY <2>1, <2>3, <2>5, RefusedExactly
  <2>6. CASE k \notin counted /\ ~ refused
    BY <1>1, <2>1, <2>6
  <2> QED
    BY <2>4, <2>5, <2>6
<1> QED
  BY <1>2, <1>3 DEF LimiterNext

LEMMA RefusalExact == LimiterInv /\ RefusalsInv => RetryAfterIsExact
<1> SUFFICES ASSUME LimiterInv, RefusalsInv, NEW k \in Buckets,
                    refusal[k].after = Len(granted[k])
             PROVE  LET over == refusal[k].at + refusal[k].retry * Second
                    IN  /\ clock >= over => ~ Full(k)
                        /\ clock < over - Second => Full(k)
  BY DEF RetryAfterIsExact
<1> DEFINE n == Len(granted[k])
           first == n + 1 - Limits[k]
           over == refusal[k].at + refusal[k].retry * Second
<1>1. n \in Nat /\ Limits[k] \in Nat \ {0} /\ Window \in Nat \ {0} /\ clock \in Nat
      /\ Second \in Nat \ {0}
      /\ granted[k] \in Seq(Nat) /\ DOMAIN granted[k] = 1 .. n
  BY LimiterAssumption DEF LimiterInv, KeyInv
<1>2. /\ first >= 1 /\ first .. n \subseteq stamps[k] /\ over \in Int
      /\ granted[k][first] + Window <= over /\ over - Second < granted[k][first] + Window
  BY DEF RefusalsInv, RefusalInv
<1>0. first = n + 1 - Limits[k]
  OBVIOUS
<1>3. /\ stamps[k] \subseteq 1 .. n
      /\ \A i \in 1 .. n : granted[k][i] \in Nat
      /\ \A i, j \in 1 .. n : i <= j => granted[k][i] <= granted[k][j]
  <2>1. KeyInv(k)
    BY DEF LimiterInv
  <2> HIDE DEF n, first, over
  <2>2. /\ stamps[k] \subseteq DOMAIN granted[k]
        /\ \A i, j \in DOMAIN granted[k] : i <= j => granted[k][i] <= granted[k][j]
    BY <2>1 DEF KeyInv
  <2>3. \A i \in DOMAIN granted[k] : granted[k][i] \in Nat
    BY <1>1
  <2> QED
    BY <1>1, <2>2, <2>3, Zenon
<1> HIDE DEF n, first, over
<1>4. first \in 1 .. n /\ n - first + 1 = Limits[k] /\ granted[k][first] \in Nat
  <2>1. first >= 1
    BY <1>2
  <2>2. first \in 1 .. n /\ n - first + 1 = Limits[k]
    BY <1>0, <1>1, <2>1
  <2> QED
    BY <1>3, <2>2
<1>5. IsFiniteSet(1 .. n) /\ Valid(k) \subseteq 1 .. n /\ IsFiniteSet(Valid(k))
      /\ Cardinality(Valid(k)) \in Nat
  <2>1. IsFiniteSet(1 .. n) /\ Valid(k) \subseteq 1 .. n
    BY <1>1, <1>3, FS_Interval, 1 \in Int, n \in Int DEF Valid
  <2> QED
    BY <2>1, FS_Subset, FS_CardinalityType
<1>6. ASSUME clock >= over PROVE ~ Full(k)
  <2>1. Valid(k) \subseteq first + 1 .. n
    <3> SUFFICES ASSUME NEW i \in Valid(k), i <= first PROVE FALSE
      BY <1>1, <1>4, <1>5
    <3>1. granted[k][i] <= granted[k][first] /\ granted[k][i] \in Nat
      BY <1>3, <1>4, <1>5
    <3>2. granted[k][i] > clock - Window
      BY DEF Valid
    <3>3. granted[k][first] + Window <= clock
      BY <1>1, <1>2, <1>4, <1>6, SMTT(40)
    <3>4. /\ granted[k][i] \in Int /\ granted[k][first] \in Int
          /\ clock \in Int /\ Window \in Int
      BY <1>1, <1>4, <3>1
    <3>5. granted[k][i] <= granted[k][first]
      BY <3>1
    <3> QED
      BY <3>2, <3>3, <3>4, <3>5
  <2>2. first + 1 \in Int /\ n \in Int /\ (first + 1 > n => Limits[k] = 1)
        /\ (n - (first + 1)) + 1 = Limits[k] - 1
    BY <1>1, <1>4
  <2>3. IsFiniteSet(first + 1 .. n)
        /\ Cardinality(first + 1 .. n) = IF first + 1 > n THEN 0 ELSE (n - (first + 1)) + 1
    BY <2>2, FS_Interval
  <2>4. Cardinality(Valid(k)) <= Cardinality(first + 1 .. n)
    BY <2>1, <2>3, FS_Subset
  <2>5. Cardinality(first + 1 .. n) = Limits[k] - 1
    BY <1>1, <2>2, <2>3
  <2> QED
    BY <1>1, <1>5, <2>4, <2>5 DEF Full
<1>7. ASSUME clock < over - Second PROVE Full(k)
  <2>1. ASSUME NEW i \in first .. n PROVE i \in Valid(k)
    <3>1. i \in 1 .. n /\ first <= i /\ i \in stamps[k]
      BY <1>1, <1>2, <1>4
    <3>2. granted[k][first] <= granted[k][i] /\ granted[k][i] \in Nat
      BY <1>3, <1>4, <3>1
    <3>3. clock - Window < granted[k][first]
      BY <1>1, <1>2, <1>4, <1>7
    <3> QED
      BY <1>1, <1>4, <3>1, <3>2, <3>3 DEF Valid
  <2>2. Cardinality(first .. n) = IF first > n THEN 0 ELSE n - first + 1
    BY <1>1, <1>4, FS_Interval, first \in Int, n \in Int
  <2>3. Cardinality(first .. n) <= Cardinality(Valid(k))
    BY <1>5, <2>1, FS_Subset
  <2>4. Cardinality(first .. n) = Limits[k]
    BY <1>1, <1>4, <2>2
  <2> QED
    BY <1>1, <1>5, <2>3, <2>4 DEF Full
<1> QED
  BY <1>6, <1>7 DEF over

\* The seconds a refusal answers are right, for any limit, window and number of ticks in a
\* second: the oldest of the last Limits requests leaves the window within the last of them.
THEOREM RefusalsAreExact == LimiterSpec => []RetryAfterIsExact
<1>1. LimiterSpec => []LimiterInv
  BY LimiterInitially, LimiterStep, PTL DEF LimiterSpec
<1> QED
  BY RefusalsInitially, RefusalsStep, RefusalExact, <1>1, PTL DEF LimiterSpec

\* A refused client never waits for longer than a window.
LEMMA RetryWithinWindow ==
  ASSUME LimiterInv, NEW k \in Buckets, Full(k)
  PROVE  RetryAfter(k) \in 1 .. Window
<1> DEFINE n == Len(granted[k])
           first == n + 1 - Limits[k]
           wait == granted[k][first] + Window - clock
<1>1. n \in Nat /\ Limits[k] \in Nat \ {0} /\ Window \in Nat \ {0} /\ clock \in Nat
      /\ Second \in Nat \ {0}
  BY LimiterAssumption DEF LimiterInv, KeyInv
<1>2. /\ first >= 1 /\ Valid(k) = first .. n /\ first \in Int /\ first <= n
      /\ granted[k][first] \in Nat /\ granted[k][first] > clock - Window
  BY <1>1, FullMeansLast
<1>3. granted[k][first] <= clock
  <2>1. first \in DOMAIN granted[k]
    BY <1>1, <1>2 DEF LimiterInv, KeyInv, Valid
  <2>2. QED
    BY <2>1 DEF LimiterInv, KeyInv
<1> HIDE DEF n, first
<1>4. Min(Valid(k)) = first
  <2>1. first \in Int /\ n \in Int /\ first <= n
    BY <1>1, <1>2
  <2>2. Min(first .. n) = first
    BY <2>1, Extremes
  <2> QED
    BY <1>2, <2>2
<1>5. wait \in Nat \ {0} /\ wait <= Window
  BY <1>1, <1>2, <1>3
<1>6. RetryAfter(k) = Max({1, Ceil(wait)})
  BY <1>4 DEF RetryAfter
<1> HIDE DEF wait
<1>7. Ceil(wait) \in Nat \ {0} /\ Ceil(wait) * Second - Second < wait
  BY <1>5, CeilRoundsUp
<1>8. Ceil(wait) <= wait
  <2> DEFINE c == Ceil(wait)
  <2>1. c \in Nat \ {0} /\ c * Second - Second < wait /\ wait \in Nat
    BY <1>5, <1>7
  <2> HIDE DEF c
  <2>2. SUFFICES ASSUME c > wait PROVE FALSE
    BY <1>5, <2>1 DEF c
  <2>3. (c - 1) * Second >= c - 1
    BY <1>1, <2>1, SMTT(40)
  <2>4. c * Second - Second = (c - 1) * Second
    BY <1>1, <2>1, SMTT(40)
  <2>5. QED
    BY <1>1, <2>1, <2>2, <2>3, <2>4
<1>9. Max({1, Ceil(wait)}) = IF 1 >= Ceil(wait) THEN 1 ELSE Ceil(wait)
  BY <1>7, Extremes
<1> QED
  BY <1>1, <1>5, <1>6, <1>7, <1>8, <1>9

LimiterTypes ==
  /\ LimiterTypeOK
  /\ \A k \in Buckets : Len(granted[k]) <= MaxGranted

LEMMA LimiterTypesInitially == LimiterInit => LimiterTypes
  BY LimiterAssumption DEF LimiterInit, LimiterTypes, LimiterTypeOK, NotRefused

LEMMA LimiterTypesStep == LimiterInv /\ LimiterTypes /\ [LimiterNext]_limiterVars => LimiterTypes'
<1> SUFFICES ASSUME LimiterInv, LimiterTypes, [LimiterNext]_limiterVars PROVE LimiterTypes'
  OBVIOUS
<1> DEFINE Refusal == [at : 0 .. MaxClock, retry : 0 .. Window, after : -1 .. MaxGranted]
<1>0. /\ MaxClock \in Nat /\ MaxGranted \in Nat /\ Window \in Nat \ {0} /\ clock \in 0 .. MaxClock
      /\ granted \in [Buckets -> Seq(0 .. MaxClock)] /\ refusal \in [Buckets -> Refusal]
      /\ \A k \in Buckets : stamps[k] \subseteq DOMAIN granted[k]
      /\ \A k \in Buckets : Len(granted[k]) <= MaxGranted
  BY LimiterAssumption DEF LimiterTypes, LimiterTypeOK
<1>1. CASE UNCHANGED limiterVars
  BY <1>1 DEF limiterVars, LimiterTypes, LimiterTypeOK
<1>2. CASE Elapse
  BY <1>0, <1>2 DEF Elapse, LimiterTypes, LimiterTypeOK
<1>3. ASSUME NEW keys \in Handlers, \A n \in DOMAIN keys : Len(granted[keys[n]]) < MaxGranted,
             Ask(keys)
      PROVE  LimiterTypes'
  <2> DEFINE full == {n \in DOMAIN keys : Full(keys[n])}
             counted == {keys[n] : n \in {m \in DOMAIN keys : \A f \in full : m < f}}
             refused == IF full = {} THEN {} ELSE {keys[Min(full)]}
  <2>1. /\ granted' = [k \in Buckets |->
                         IF k \in counted THEN Append(granted[k], clock) ELSE granted[k]]
        /\ stamps' = [k \in Buckets |->
                        IF k \in counted THEN Valid(k) \cup {Len(granted[k]) + 1} ELSE stamps[k]]
        /\ refusal' = [k \in Buckets |->
                         IF k \in refused
                         THEN [at |-> clock, retry |-> RetryAfter(k), after |-> Len(granted[k])]
                         ELSE refusal[k]]
        /\ clock' = clock
    BY <1>3 DEF Ask
  <2>2. \A k \in counted : Len(granted[k]) < MaxGranted
    BY <1>3
  <2>3. ASSUME NEW k \in refused PROVE k \in Buckets /\ Full(k)
    <3>1. full # {} /\ full \subseteq Nat /\ k = keys[Min(full)] /\ keys \in Seq(Buckets)
      BY <2>3, LimiterAssumption
    <3>2. Min(full) \in full
      BY <3>1, LeastOf
    <3> QED
      BY <3>1, <3>2
  <2> HIDE DEF counted, refused
  <2>4. ASSUME NEW k \in Buckets
        PROVE  /\ granted'[k] \in Seq(0 .. MaxClock) /\ Len(granted'[k]) <= MaxGranted
               /\ stamps'[k] \subseteq DOMAIN granted'[k]
    <3>1. granted[k] \in Seq(0 .. MaxClock) /\ Len(granted[k]) \in Nat
          /\ DOMAIN granted[k] = 1 .. Len(granted[k])
      BY <1>0
    <3>2. CASE k \in counted
      <4>1. granted'[k] = Append(granted[k], clock)
            /\ stamps'[k] = Valid(k) \cup {Len(granted[k]) + 1}
        BY <2>1, <3>2
      <4>2. granted'[k] \in Seq(0 .. MaxClock) /\ Len(granted'[k]) = Len(granted[k]) + 1
            /\ DOMAIN granted'[k] = 1 .. Len(granted[k]) + 1
        BY <1>0, <3>1, <4>1
      <4>3. Valid(k) \subseteq 1 .. Len(granted[k])
        BY <1>0, <3>1 DEF Valid
      <4> QED
        BY <1>0, <2>2, <3>1, <3>2, <4>1, <4>2, <4>3
    <3>3. CASE k \notin counted
      BY <1>0, <2>1, <3>3
    <3> QED
      BY <3>2, <3>3
  <2>5. ASSUME NEW k \in Buckets PROVE refusal'[k] \in Refusal
    <3>1. CASE k \in refused
      <4>1. RetryAfter(k) \in 1 .. Window
        BY <2>3, <3>1, RetryWithinWindow
      <4>2. Len(granted[k]) \in Nat /\ Len(granted[k]) <= MaxGranted
        BY <1>0
      <4> QED
        BY <1>0, <2>1, <3>1, <4>1, <4>2
    <3>2. CASE k \notin refused
      BY <1>0, <2>1, <3>2
    <3> QED
      BY <3>1, <3>2
  <2>6. granted' \in [Buckets -> Seq(0 .. MaxClock)] /\ refusal' \in [Buckets -> Refusal]
        /\ clock' \in 0 .. MaxClock
    <3> HIDE DEF Refusal
    <3>1. QED
      BY <1>0, <2>1, <2>4, <2>5
  <2> QED
    BY <2>4, <2>6 DEF LimiterTypes, LimiterTypeOK
<1> QED
  BY <1>1, <1>2, <1>3 DEF LimiterNext

-----------------------------------------------------------------------------
(* The representative librarian.                                           *)

\* A request's row stays there, whatever happens to it.
RepInv ==
  /\ librarians \in Seq(Librarian)
  /\ libreq \in [LibRequests ->
       [pc : {"idle", "acquire", "rename", "delete", "set", "reset", "setting"},
        target : Nat, type : Types, seen : SUBSET Nat, held : SUBSET Nat]]
  /\ \A r \in LibRequests :
       libreq[r].pc \in {"rename", "delete", "set", "reset", "setting"}
         => libreq[r].target \in DOMAIN librarians
  /\ \E i \in DOMAIN librarians : librarians[i].rep
  /\ \A i, j \in Representatives : i = j

RequestRow ==
  [pc : {"idle", "acquire", "rename", "delete", "set", "reset", "setting"},
   target : Nat, type : Types, seen : SUBSET Nat, held : SUBSET Nat]

LEMMA LibIdleIsTyped == LibIdle \in RequestRow /\ LibIdle.pc = "idle"
  BY LibrarianAssumption DEF LibIdle, RequestRow

LEMMA RepInitially == LibInit => RepInv
<1> SUFFICES ASSUME LibInit PROVE RepInv
  OBVIOUS
<1>1. librarians \in Seq(Librarian) /\ DOMAIN librarians = {1} /\ librarians[1].rep = TRUE
  BY LibrarianAssumption DEF LibInit, Librarian
<1>2. libreq \in [LibRequests -> RequestRow] /\ \A r \in LibRequests : libreq[r].pc = "idle"
  BY LibIdleIsTyped DEF LibInit
<1> QED
  BY <1>1, <1>2 DEF RepInv, RequestRow, Representatives, LiveOnes

LEMMA RepInvSafe == RepInv => RepresentativeNeverDropped
<1> SUFFICES ASSUME RepInv PROVE Cardinality(Representatives) <= 1
  BY DEF RepInv, RepresentativeNeverDropped
<1>1. CASE Representatives = {}
  BY <1>1, FS_EmptySet
<1>2. CASE Representatives # {}
  <2>1. PICK i \in Representatives : TRUE
    BY <1>2
  <2>2. Representatives = {i}
    BY <2>1 DEF RepInv
  <2> QED
    BY <2>2, FS_Singleton
<1> QED
  BY <1>1, <1>2

\* A step of one request that leaves the rows alone.
LEMMA OneLibRequest ==
  ASSUME RepInv, NEW r \in LibRequests, NEW q \in RequestRow,
         libreq' = [libreq EXCEPT ![r] = q], librarians' = librarians,
         q.pc \in {"rename", "delete", "set", "reset", "setting"} => q.target \in DOMAIN librarians
  PROVE  RepInv'
<1>1. libreq' \in [LibRequests -> RequestRow]
  BY DEF RepInv, RequestRow
<1>2. \A o \in LibRequests : libreq'[o] = IF o = r THEN q ELSE libreq[o]
  BY DEF RepInv
<1>3. Representatives' = Representatives
  BY DEF Representatives, LiveOnes
<1> QED
  BY <1>1, <1>2, <1>3 DEF RepInv, RequestRow

\* A request ends, and the rows it leaves have one representative, if they have one.
LEMMA LibRequestEnds ==
  ASSUME RepInv, NEW r \in LibRequests, Ends(r), librarians' \in Seq(Librarian),
         DOMAIN librarians \subseteq DOMAIN librarians',
         \E i \in DOMAIN librarians' : librarians'[i].rep,
         \A i, j \in DOMAIN librarians' :
           librarians'[i].rep /\ librarians'[i].live /\ librarians'[j].rep /\ librarians'[j].live => i = j
  PROVE  RepInv'
<1>1. libreq' = [libreq EXCEPT ![r] = LibIdle]
  BY DEF Ends
<1>2. libreq' \in [LibRequests -> RequestRow]
  BY <1>1, LibIdleIsTyped DEF RepInv, RequestRow
<1>3. \A o \in LibRequests : libreq'[o] = libreq[o] \/ libreq'[o].pc = "idle"
  BY <1>1, LibIdleIsTyped DEF RepInv
<1>4. \A i, j \in Representatives' : i = j
  BY DEF Representatives, LiveOnes
<1> QED
  BY <1>2, <1>3, <1>4 DEF RepInv, RequestRow

LEMMA SetCommitStep ==
  ASSUME RepInv, NEW r \in LibRequests, SetCommit(r)
  PROVE  RepInv'
<1> DEFINE target == libreq[r].target
           rivals == Representatives \ (libreq[r].held \cup {target})
           free == ~ librarians[target].live \/ rivals = {}
<1>1. target \in DOMAIN librarians /\ librarians \in Seq(Librarian)
  BY DEF SetCommit, RepInv, At
<1>2. Ends(r)
  BY DEF SetCommit
<1>3. librarians' = [i \in DOMAIN librarians |->
                       IF ~ free THEN librarians[i]
                       ELSE IF i = target THEN [librarians[i] EXCEPT !.rep = TRUE]
                       ELSE IF i \in libreq[r].held THEN [librarians[i] EXCEPT !.rep = FALSE]
                       ELSE librarians[i]]
  BY DEF SetCommit
<1>4. \A i \in DOMAIN librarians : librarians[i] \in Librarian
  BY <1>1
<1>5. CASE ~ free
  <2>1. librarians' = librarians
    BY <1>1, <1>3, <1>5
  <2> QED
    BY <1>2, <1>5, <2>1, LibIdleIsTyped, OneLibRequest DEF Ends
<1>6. CASE free
  <2>1. \A i \in DOMAIN librarians : librarians'[i] =
          IF i = target THEN [librarians[i] EXCEPT !.rep = TRUE]
          ELSE IF i \in libreq[r].held THEN [librarians[i] EXCEPT !.rep = FALSE]
          ELSE librarians[i]
    BY <1>3, <1>6
  <2>2. \A i \in DOMAIN librarians : librarians'[i] \in Librarian
    BY <1>4, <2>1, ZenonT(60) DEF Librarian
  <2>3. DOMAIN librarians' = DOMAIN librarians /\ librarians' \in Seq(Librarian)
    <3>1. librarians' = [i \in DOMAIN librarians |-> librarians'[i]]
      BY <1>3
    <3>2. DOMAIN librarians = 1 .. Len(librarians) /\ Len(librarians) \in Nat
      BY <1>1
    <3> HIDE DEF free
    <3>3. librarians' \in [1 .. Len(librarians) -> Librarian]
      BY <2>2, <3>1, <3>2
    <3> QED
      BY <3>2, <3>3
  <2>4. librarians'[target].rep
    BY <1>1, <1>4, <2>1 DEF Librarian
  <2>5. ASSUME NEW i \in DOMAIN librarians, i # target, librarians'[i].rep, librarians'[i].live
        PROVE  i \in Representatives /\ i \notin libreq[r].held
    <3>1. i \notin libreq[r].held
      BY <1>4, <2>1, <2>5 DEF Librarian
    <3>2. librarians'[i] = librarians[i]
      BY <2>1, <2>5, <3>1
    <3> QED
      BY <2>5, <3>1, <3>2 DEF Representatives, LiveOnes
  <2>6. librarians'[target].live = librarians[target].live
    BY <1>1, <1>4, <2>1 DEF Librarian
  <2>7. \A i, j \in DOMAIN librarians' :
          librarians'[i].rep /\ librarians'[i].live /\ librarians'[j].rep /\ librarians'[j].live => i = j
    <3>1. CASE rivals = {}
      BY <2>3, <2>5, <3>1
    <3>2. CASE ~ librarians[target].live
      BY <2>3, <2>5, <2>6, <3>2 DEF RepInv
    <3> QED
      BY <1>6, <3>1, <3>2
  <2> QED
    BY <1>1, <1>2, <2>3, <2>4, <2>7, LibRequestEnds
<1> QED
  BY <1>5, <1>6

LEMMA RepStep == RepInv /\ [LibNext]_libVars => RepInv'
<1> SUFFICES ASSUME RepInv, [LibNext]_libVars PROVE RepInv'
  OBVIOUS
<1>0. librarians \in Seq(Librarian) /\ \A i \in DOMAIN librarians : i \in Nat /\ librarians[i] \in Librarian
  BY DEF RepInv
<1>1. CASE UNCHANGED libVars
  BY <1>1 DEF libVars, RepInv, Representatives, LiveOnes
<1>2. ASSUME NEW r \in LibRequests, NEW t \in Types, AcquireCheck(r, t) PROVE RepInv'
  <2>1. [LibIdle EXCEPT !.pc = "acquire", !.type = t] \in RequestRow
    BY LibIdleIsTyped DEF RequestRow
  <2>2. [LibIdle EXCEPT !.pc = "acquire", !.type = t].pc = "acquire"
    BY DEF LibIdle
  <2> QED
    BY <1>2, <2>1, <2>2, OneLibRequest DEF AcquireCheck
<1>3. ASSUME NEW r \in LibRequests, NEW i \in DOMAIN librarians, NEW pc \in {"rename", "delete", "set"},
             LoadLibrarian(r, i, pc)
      PROVE  RepInv'
  <2>1. [LibIdle EXCEPT !.pc = pc, !.target = i] \in RequestRow
    BY <1>0, LibIdleIsTyped DEF RequestRow
  <2>2. [LibIdle EXCEPT !.pc = pc, !.target = i].target = i
    BY DEF LibIdle
  <2> QED
    BY <1>3, <2>1, <2>2, OneLibRequest DEF LoadLibrarian
<1>4. ASSUME NEW r \in LibRequests, AcquireCommit(r) PROVE RepInv'
  <2> DEFINE row == [type |-> libreq[r].type, rep |-> FALSE, live |-> TRUE, named |-> FALSE]
  <2>1. Ends(r) /\ (librarians' = librarians \/ librarians' = Append(librarians, row))
    BY <1>4 DEF AcquireCommit
  <2>2. CASE librarians' = librarians
    BY <2>1, <2>2, LibIdleIsTyped, OneLibRequest DEF Ends
  <2>3. CASE librarians' = Append(librarians, row)
    <3>1. row \in Librarian /\ row.rep = FALSE
      BY DEF RepInv, Librarian
    <3> HIDE DEF row
    <3>2. /\ librarians' \in Seq(Librarian) /\ DOMAIN librarians' = DOMAIN librarians \cup {Len(librarians) + 1}
          /\ librarians'[Len(librarians) + 1] = row
          /\ \A i \in DOMAIN librarians : librarians'[i] = librarians[i]
      BY <1>0, <2>3, <3>1
    <3>3. \E i \in DOMAIN librarians' : librarians'[i].rep
      BY <3>2 DEF RepInv
    <3>4. \A i, j \in DOMAIN librarians' :
            librarians'[i].rep /\ librarians'[i].live /\ librarians'[j].rep /\ librarians'[j].live => i = j
      BY <3>1, <3>2 DEF RepInv, Representatives, LiveOnes
    <3> QED
      BY <2>1, <3>2, <3>3, <3>4, LibRequestEnds
  <2> QED
    BY <2>1, <2>2, <2>3
<1>5. ASSUME NEW r \in LibRequests, RenameCommit(r) \/ DeleteCommit(r) PROVE RepInv'
  <2> DEFINE i == libreq[r].target
  <2>1. i \in DOMAIN librarians /\ Ends(r)
    BY <1>5 DEF RenameCommit, DeleteCommit, WriteById, At, RepInv
  <2>0. \/ librarians' = [librarians EXCEPT ![i] = [librarians[i] EXCEPT !.named = TRUE]]
        \/ librarians' = [librarians EXCEPT ![i] = [librarians[i] EXCEPT !.live = FALSE]]
    BY <1>5 DEF RenameCommit, DeleteCommit, WriteById
  <2>2. PICK row \in Librarian :
          /\ librarians' = [librarians EXCEPT ![i] = row]
          /\ row.rep = librarians[i].rep /\ (row.live => librarians[i].live)
    <3>1. librarians[i] \in Librarian
      BY <1>0, <2>1
    <3>2. /\ [librarians[i] EXCEPT !.named = TRUE] \in Librarian
          /\ [librarians[i] EXCEPT !.live = FALSE] \in Librarian
      BY <3>1 DEF Librarian
    <3>3. /\ [librarians[i] EXCEPT !.named = TRUE].rep = librarians[i].rep
          /\ [librarians[i] EXCEPT !.named = TRUE].live = librarians[i].live
          /\ [librarians[i] EXCEPT !.live = FALSE].rep = librarians[i].rep
          /\ [librarians[i] EXCEPT !.live = FALSE].live = FALSE
      BY <3>1 DEF Librarian
    <3> QED
      BY <2>0, <3>2, <3>3
  <2>3. librarians' \in Seq(Librarian) /\ DOMAIN librarians' = DOMAIN librarians
    BY <1>0, <2>1, <2>2
  <2>4. \A j \in DOMAIN librarians :
          librarians'[j].rep = librarians[j].rep /\ (librarians'[j].live => librarians[j].live)
    BY <1>0, <2>1, <2>2
  <2>5. \E j \in DOMAIN librarians' : librarians'[j].rep
    BY <2>3, <2>4 DEF RepInv
  <2>6. \A j, k \in DOMAIN librarians' :
          librarians'[j].rep /\ librarians'[j].live /\ librarians'[k].rep /\ librarians'[k].live => j = k
    BY <2>3, <2>4 DEF RepInv, Representatives, LiveOnes
  <2> QED
    BY <2>1, <2>3, <2>5, <2>6, LibRequestEnds
<1>6. ASSUME NEW r \in LibRequests, SetScan(r) \/ SetReset(r) PROVE RepInv'
  <2>1. Representatives \subseteq Nat /\ libreq[r] \in RequestRow
    BY <1>0 DEF Representatives, LiveOnes, RepInv, RequestRow
  <2>2. librarians' = librarians /\ libreq[r].pc \in {"set", "reset"}
    BY <1>6 DEF SetScan, SetReset, At
  <2>3. \/ libreq' = [libreq EXCEPT ![r] = [libreq[r] EXCEPT !.pc = "reset", !.seen = Representatives]]
        \/ libreq' = [libreq EXCEPT ![r] = [libreq[r] EXCEPT !.pc = "setting",
                                              !.held = libreq[r].seen \cap Representatives]]
    BY <1>6 DEF SetScan, SetReset, RepInv
  <2>4. libreq[r].target \in DOMAIN librarians
    BY <2>2 DEF RepInv
  <2>5. [libreq[r] EXCEPT !.pc = "reset", !.seen = Representatives] \in RequestRow
    BY <2>1 DEF RequestRow
  <2>6. [libreq[r] EXCEPT !.pc = "setting", !.held = libreq[r].seen \cap Representatives] \in RequestRow
    BY <2>1 DEF RequestRow
  <2>7. /\ [libreq[r] EXCEPT !.pc = "reset", !.seen = Representatives].target = libreq[r].target
        /\ [libreq[r] EXCEPT !.pc = "setting", !.held = libreq[r].seen \cap Representatives].target = libreq[r].target
    BY <2>1 DEF RequestRow
  <2> QED
    BY <2>2, <2>3, <2>4, <2>5, <2>6, <2>7, OneLibRequest
<1>7. ASSUME NEW r \in LibRequests, LibDies(r) PROVE RepInv'
  BY <1>7, LibIdleIsTyped, OneLibRequest DEF LibDies, Ends
<1> QED
  BY <1>1, <1>2, <1>3, <1>4, <1>5, <1>6, <1>7, SetCommitStep DEF LibNext

\* Whatever set_representative, delete, rename and acquire do to each other: there is never a
\* second representative, and the flag is lost only with the librarian that bears it.
THEOREM OneRepresentative == LibSpec => []RepresentativeNeverDropped
  BY RepInitially, RepStep, RepInvSafe, PTL DEF LibSpec

LibRow ==
  [pc : {"idle", "acquire", "rename", "delete", "set", "reset", "setting"},
   target : 0 .. MaxLibrarians, type : Types,
   seen : SUBSET (1 .. MaxLibrarians), held : SUBSET (1 .. MaxLibrarians)]

LibTypes ==
  /\ librarians \in Seq(Librarian) /\ Len(librarians) <= MaxLibrarians
  /\ libreq \in [LibRequests -> LibRow]

LEMMA LibIdleIsRow == LibIdle \in LibRow
  BY LibrarianAssumption DEF LibIdle, LibRow

LEMMA LibTypesInitially == LibInit => LibTypes
<1> SUFFICES ASSUME LibInit PROVE LibTypes
  OBVIOUS
<1>1. librarians \in Seq(Librarian) /\ Len(librarians) = 1 /\ 1 <= MaxLibrarians
  BY LibrarianAssumption DEF LibInit, Librarian
<1>2. libreq \in [LibRequests -> LibRow]
  BY LibIdleIsRow DEF LibInit
<1>3. QED
  BY <1>1, <1>2 DEF LibTypes

LEMMA LibTypesStep == RepInv' /\ LibTypes /\ [LibNext]_libVars => LibTypes'
<1> SUFFICES ASSUME RepInv', LibTypes, [LibNext]_libVars PROVE LibTypes'
  OBVIOUS
<1>1. /\ librarians \in Seq(Librarian) /\ Len(librarians) \in Nat /\ Len(librarians) <= MaxLibrarians
      /\ DOMAIN librarians = 1 .. Len(librarians) /\ MaxLibrarians \in Nat
      /\ libreq \in [LibRequests -> LibRow] /\ librarians' \in Seq(Librarian)
  BY LibrarianAssumption DEF LibTypes, RepInv
<1>2. DOMAIN librarians \subseteq 1 .. MaxLibrarians /\ DOMAIN librarians \subseteq 0 .. MaxLibrarians
  BY <1>1
<1>3. Representatives \subseteq 1 .. MaxLibrarians
  BY <1>2 DEF Representatives, LiveOnes
<1>4. ASSUME NEW r \in LibRequests, NEW q \in LibRow, libreq' = [libreq EXCEPT ![r] = q],
             Len(librarians') <= MaxLibrarians
      PROVE  LibTypes'
  <2>1. libreq' \in [LibRequests -> LibRow]
    BY <1>1, <1>4
  <2>2. QED
    BY <1>1, <1>4, <2>1 DEF LibTypes, LibRow
<1>5. ASSUME NEW r \in LibRequests, Ends(r), Len(librarians') <= MaxLibrarians PROVE LibTypes'
  BY <1>4, <1>5, LibIdleIsRow DEF Ends
<1>6. ASSUME DOMAIN librarians' = DOMAIN librarians PROVE Len(librarians') <= MaxLibrarians
  <2>1. DOMAIN librarians' = 1 .. Len(librarians') /\ Len(librarians') \in Nat
    BY <1>1, LenProperties
  <2>2. QED
    BY <1>1, <1>6, <2>1
<1>7. ASSUME NEW r \in LibRequests, NEW t \in Types, AcquireCheck(r, t) PROVE LibTypes'
  <2>1. [LibIdle EXCEPT !.pc = "acquire", !.type = t] \in LibRow
    BY LibIdleIsRow DEF LibRow
  <2>2. QED
    BY <1>1, <1>4, <1>7, <2>1 DEF AcquireCheck
<1>8. ASSUME NEW r \in LibRequests, NEW i \in DOMAIN librarians, NEW pc \in {"rename", "delete", "set"},
             LoadLibrarian(r, i, pc)
      PROVE  LibTypes'
  <2>1. [LibIdle EXCEPT !.pc = pc, !.target = i] \in LibRow
    BY <1>2, LibIdleIsRow DEF LibRow
  <2>2. QED
    BY <1>1, <1>4, <1>8, <2>1 DEF LoadLibrarian
<1>9. ASSUME NEW r \in LibRequests, AcquireCommit(r) PROVE LibTypes'
  <2> DEFINE row == [type |-> libreq[r].type, rep |-> FALSE, live |-> TRUE, named |-> FALSE]
  <2>1. Ends(r) /\ \/ librarians' = librarians
                   \/ Len(librarians) < MaxLibrarians /\ librarians' = Append(librarians, row)
    BY <1>9 DEF AcquireCommit
  <2>2. row \in Librarian
    BY <1>1 DEF Librarian, LibRow
  <2> HIDE DEF row
  <2>3. Len(Append(librarians, row)) = Len(librarians) + 1
    BY <1>1, <2>2, AppendProperties
  <2>4. Len(librarians') <= MaxLibrarians
    BY <1>1, <2>1, <2>3
  <2>5. QED
    BY <1>5, <2>1, <2>4
<1>10. ASSUME NEW r \in LibRequests, RenameCommit(r) \/ DeleteCommit(r) PROVE LibTypes'
  <2>1. Ends(r) /\ DOMAIN librarians' = DOMAIN librarians
    BY <1>1, <1>10 DEF RenameCommit, DeleteCommit, WriteById
  <2>2. QED
    BY <1>5, <1>6, <2>1
<1>11. ASSUME NEW r \in LibRequests, SetScan(r) PROVE LibTypes'
  <2> DEFINE q == [libreq[r] EXCEPT !.pc = "reset", !.seen = Representatives]
  <2>1. q \in LibRow
    BY <1>1, <1>3 DEF LibRow
  <2>2. libreq' = [libreq EXCEPT ![r] = q] /\ librarians' = librarians
    BY <1>1, <1>11 DEF SetScan, LibRow
  <2>3. QED
    BY <1>1, <1>4, <2>1, <2>2
<1>12. ASSUME NEW r \in LibRequests, SetReset(r) PROVE LibTypes'
  <2> DEFINE q == [libreq[r] EXCEPT !.pc = "setting", !.held = libreq[r].seen \cap Representatives]
  <2>1. q \in LibRow
    BY <1>1, <1>3 DEF LibRow
  <2>2. libreq' = [libreq EXCEPT ![r] = q] /\ librarians' = librarians
    BY <1>1, <1>12 DEF SetReset, LibRow
  <2>3. QED
    BY <1>1, <1>4, <2>1, <2>2
<1>13. ASSUME NEW r \in LibRequests, SetCommit(r) PROVE LibTypes'
  <2>1. Ends(r) /\ DOMAIN librarians' = DOMAIN librarians
    BY <1>13 DEF SetCommit
  <2>2. QED
    BY <1>5, <1>6, <2>1
<1>14. ASSUME NEW r \in LibRequests, LibDies(r) PROVE LibTypes'
  BY <1>1, <1>5, <1>14 DEF LibDies
<1>15. CASE UNCHANGED libVars
  BY <1>1, <1>15 DEF libVars, LibTypes
<1>16. QED
  BY <1>7, <1>8, <1>9, <1>10, <1>11, <1>12, <1>13, <1>14, <1>15 DEF LibNext

-----------------------------------------------------------------------------
(* The withdrawal of a member.                                             *)

Tables == {"member", "shelf", "librarian", "book", "scrap", "record", "record_scrap"}

CascadeRequest ==
  [op : {"none", "create", "cascade", "withdraw"}, of : Items, todo : Seq(Tables),
   seen : SUBSET Items, held : SUBSET Items, began : SUBSET Items]

\* A row that the withdrawal found and that still lives is one it has taken, one that its
\* current statement waits for, or one of a table to come; or the member, which comes last.
Covered(c) ==
  /\ c.of = MemberRow
  /\ \A i \in c.began :
       /\ item[i] # "none"
       /\ item[i] = "live" => i = MemberRow \/ i \in c.held \/ \E n \in DOMAIN c.todo : c.todo[n] = TableOf[i]
       /\ item[i] = "live" /\ c.seen # {} /\ c.todo # << >> /\ TableOf[i] = Head(c.todo) => i \in c.seen \cup c.held

CascadeRequestInv(r) ==
  LET c == cascade[r]
  IN  /\ \A i \in c.held : item[i] # "none"
      /\ c.op \in {"cascade", "withdraw"} => item[c.of] # "none"
      /\ c.seen # {} => c.todo # << >>
      /\ c.op = "withdraw" => Covered(c)
      /\ c.op = "create" => TableOf[c.of] = "scrap" /\ item[c.of] = "none" /\ item[ParentOf[c.of]] # "none"

CascadeInv ==
  /\ item \in [Items -> {"none", "live", "deleted"}]
  /\ item[MemberRow] # "none"
  /\ \A i \in Items : TableOf[i] = "record_scrap" /\ item[ParentOf[i]] = "none" => item[i] = "none"
  /\ cascade \in [CascadeRequests -> CascadeRequest]
  /\ \A r \in CascadeRequests : CascadeRequestInv(r)
  /\ \A r, o \in CascadeRequests :
       r # o /\ cascade[r].op = "create" /\ cascade[o].op = "create" => cascade[r].of # cascade[o].of

LEMMA Structure ==
  ASSUME NEW i \in Items
  PROVE  /\ TableOf[i] \in Tables /\ (TableOf[i] = "member" <=> i = MemberRow)
         /\ ParentOf[i] \in Items
         /\ TableOf[i] = "scrap" => TableOf[ParentOf[i]] = "book"
         /\ TableOf[i] = "record_scrap" => TableOf[ParentOf[i]] = "record"
         /\ i \in Children <=> TableOf[i] \in {"scrap", "record_scrap"}
<1>1. TableOf[i] \in Tables /\ ParentOf[i] \in Items /\ (TableOf[i] = "member" <=> i = MemberRow)
  BY CascadeAssumption DEF Tables
<1>2. CASE TableOf[i] = "scrap"
  <2>1. TableOf[ParentOf[i]] = "book"
    BY <1>2, CascadeAssumption
  <2>2. ParentOf[i] # MemberRow
    BY <2>1, CascadeAssumption
  <2> QED
    BY <1>1, <1>2, <2>1, <2>2 DEF Children
<1>3. CASE TableOf[i] = "record_scrap"
  <2>1. TableOf[ParentOf[i]] = "record"
    BY <1>3, CascadeAssumption
  <2>2. ParentOf[i] # MemberRow
    BY <2>1, CascadeAssumption
  <2> QED
    BY <1>1, <1>3, <2>1, <2>2 DEF Children
<1>4. CASE TableOf[i] \notin {"scrap", "record_scrap"}
  <2>1. ParentOf[i] = MemberRow
    BY <1>4, CascadeAssumption
  <2> QED
    BY <1>1, <1>4, <2>1 DEF Children
<1> QED
  BY <1>2, <1>3, <1>4

LEMMA TailKeeps ==
  ASSUME NEW q \in Seq(Tables), q # << >>, NEW n \in DOMAIN q, q[n] # Head(q)
  PROVE  \E m \in DOMAIN Tail(q) : Tail(q)[m] = q[n]
<1>1. n \in 2 .. Len(q) /\ Len(q) \in Nat
  OBVIOUS
<1>2. n - 1 \in DOMAIN Tail(q) /\ Tail(q)[n - 1] = q[n]
  BY <1>1
<1> QED
  BY <1>2

LEMMA NoCascadeIsTyped == NoCascade \in CascadeRequest /\ NoCascade.op = "none" /\ NoCascade.held = {} /\ NoCascade.seen = {}
  BY CascadeAssumption DEF NoCascade, CascadeRequest

LEMMA CascadeInitially == CascadeInit => CascadeInv
<1> SUFFICES ASSUME CascadeInit PROVE CascadeInv
  OBVIOUS
<1>1. item \in [Items -> {"none", "live", "deleted"}] /\ item[MemberRow] # "none"
  BY CascadeAssumption DEF CascadeInit
<1>2. ASSUME NEW i \in Items, TableOf[i] = "record_scrap", item[ParentOf[i]] = "none" PROVE item[i] = "none"
  <2>1. i \in Children
    BY <1>2, Structure
  <2> QED
    BY <1>2, <2>1 DEF CascadeInit
<1>3. cascade \in [CascadeRequests -> CascadeRequest] /\ \A r \in CascadeRequests : cascade[r] = NoCascade
  BY NoCascadeIsTyped DEF CascadeInit
<1> QED
  BY <1>1, <1>2, <1>3, NoCascadeIsTyped DEF CascadeInv, CascadeRequestInv

\* A step of one request that leaves the rows alone.
LEMMA OneCascade ==
  ASSUME CascadeInv, NEW r \in CascadeRequests, NEW c \in CascadeRequest,
         cascade' = [cascade EXCEPT ![r] = c], item' = item, CascadeRequestInv(r)',
         c.op = "create" => \A o \in CascadeRequests \ {r} : cascade[o].op = "create" => cascade[o].of # c.of
  PROVE  CascadeInv'
<1>1. cascade' \in [CascadeRequests -> CascadeRequest] /\ cascade'[r] = c
      /\ \A o \in CascadeRequests \ {r} : cascade'[o] = cascade[o]
  BY DEF CascadeInv
<1>2. \A o \in CascadeRequests \ {r} : CascadeRequestInv(o)'
  BY <1>1 DEF CascadeInv, CascadeRequestInv, Covered
<1> QED
  BY <1>1, <1>2 DEF CascadeInv

LEMMA StartStep ==
  ASSUME CascadeInv, NEW r \in CascadeRequests, NEW op \in {"create", "cascade", "withdraw"},
         NEW i \in Items, NEW todo \in Seq(Tables), Started(r, op, i, todo),
         op \in {"cascade", "withdraw"} => item[i] # "none",
         op = "withdraw" => i = MemberRow /\ \A t \in Tables \ {"member"} : \E n \in DOMAIN todo : todo[n] = t,
         op = "create" => /\ TableOf[i] = "scrap" /\ item[i] = "none" /\ item[ParentOf[i]] # "none"
                          /\ \A o \in CascadeRequests : cascade[o].op = "create" => cascade[o].of # i
  PROVE  CascadeInv'
<1> DEFINE began == IF op = "withdraw" THEN Living ELSE {}
           c == [op |-> op, of |-> i, todo |-> todo, seen |-> {}, held |-> {}, began |-> began]
<1>1. cascade' = [cascade EXCEPT ![r] = c] /\ item' = item
  BY DEF Started
<1>2. c \in CascadeRequest
  BY DEF CascadeRequest, Living
<1>3. cascade'[r] = c
  BY <1>1 DEF CascadeInv
<1>4. ASSUME op = "withdraw", NEW k \in began
      PROVE  item[k] # "none" /\ (k = MemberRow \/ \E n \in DOMAIN todo : todo[n] = TableOf[k])
  <2>1. k \in Items /\ item[k] = "live"
    BY <1>4 DEF Living
  <2>2. k = MemberRow \/ TableOf[k] \in Tables \ {"member"}
    BY <2>1, Structure
  <2> QED
    BY <1>4, <2>1, <2>2
<1>5. CascadeRequestInv(r)'
  BY <1>1, <1>3, <1>4 DEF CascadeRequestInv, Covered
<1>6. c.op = "create" => \A o \in CascadeRequests \ {r} : cascade[o].op = "create" => cascade[o].of # c.of
  OBVIOUS
<1> HIDE DEF c
<1> QED
  BY <1>1, <1>2, <1>5, <1>6, OneCascade

LEMMA WithdrawTodo ==
  LET todo == <<"scrap", "book", "shelf", "record_scrap", "record", "librarian">>
  IN  todo \in Seq(Tables) /\ \A t \in Tables \ {"member"} : \E n \in DOMAIN todo : todo[n] = t
<1> DEFINE todo == <<"scrap", "book", "shelf", "record_scrap", "record", "librarian">>
<1>1. todo \in Seq(Tables)
  BY DEF Tables
<1>2. /\ todo[1] = "scrap" /\ todo[2] = "book" /\ todo[3] = "shelf" /\ todo[4] = "record_scrap"
      /\ todo[5] = "record" /\ todo[6] = "librarian" /\ DOMAIN todo = 1 .. 6
  OBVIOUS
<1> HIDE DEF todo
<1>3. \A t \in Tables \ {"member"} : \E n \in 1 .. 6 : todo[n] = t
  BY <1>2 DEF Tables
<1> QED
  BY <1>1, <1>2, <1>3 DEF todo

LEMMA ScanStep ==
  ASSUME CascadeInv, NEW r \in CascadeRequests, Scan(r)
  PROVE  CascadeInv'
<1> DEFINE c == cascade[r]
           rows == {i \in Of(Head(c.todo)) \cap Living : c.op = "withdraw" \/ ParentOf[i] = c.of}
<1>1. c \in CascadeRequest /\ c.todo # << >> /\ c.seen = {} /\ item' = item
  BY DEF Scan, CascadeInv
<1>2. CascadeRequestInv(r)
  BY DEF CascadeInv
<1>3. CASE rows = {}
  <2> DEFINE d == [c EXCEPT !.todo = Tail(c.todo)]
  <2>1. cascade' = [cascade EXCEPT ![r] = d]
    BY <1>3 DEF Scan, CascadeInv
  <2>2. d \in CascadeRequest /\ d.op = c.op /\ d.of = c.of /\ d.todo = Tail(c.todo) /\ d.seen = {}
        /\ d.held = c.held /\ d.began = c.began
    <3>1. Tail(c.todo) \in Seq(Tables)
      BY <1>1 DEF CascadeRequest
    <3> HIDE DEF c
    <3> QED
      BY <1>1, <3>1 DEF CascadeRequest
  <2>3. ASSUME c.op = "withdraw", NEW i \in c.began, item[i] = "live", i # MemberRow, i \notin c.held
        PROVE  \E n \in DOMAIN Tail(c.todo) : Tail(c.todo)[n] = TableOf[i]
    <3>1. PICK n \in DOMAIN c.todo : c.todo[n] = TableOf[i]
      BY <1>2, <2>3 DEF CascadeRequestInv, Covered
    <3>2. i \in Items
      BY <1>1, <2>3 DEF CascadeRequest
    <3>3. TableOf[i] # Head(c.todo)
      BY <1>3, <2>3, <3>2 DEF Of, Living
    <3>4. c.todo \in Seq(Tables)
      BY <1>1 DEF CascadeRequest
    <3> QED
      BY <1>1, <3>1, <3>3, <3>4, TailKeeps
  <2>4. cascade'[r] = d
    BY <2>1 DEF CascadeInv
  <2>7. c.op = "withdraw" => Covered(c)
    BY <1>2 DEF CascadeRequestInv
  <2> HIDE DEF d
  <2>8. c.op = "withdraw" => Covered(d)
    <3> HIDE DEF c
    <3> QED
      BY <2>2, <2>3, <2>7 DEF Covered
  <2>9. c.op = "withdraw" => Covered(cascade[r])'
    BY <1>1, <2>4, <2>8 DEF Covered
  <2>5. CascadeRequestInv(r)'
    BY <1>1, <1>2, <2>2, <2>4, <2>9 DEF CascadeRequestInv
  <2>6. c.op = "create" => \A o \in CascadeRequests \ {r} : cascade[o].op = "create" => cascade[o].of # c.of
    BY DEF CascadeInv
  <2> HIDE DEF c
  <2> QED
    BY <1>1, <2>1, <2>2, <2>5, <2>6, OneCascade
<1>4. CASE rows # {}
  <2> DEFINE d == [c EXCEPT !.seen = rows]
  <2>1. cascade' = [cascade EXCEPT ![r] = d]
    BY <1>4 DEF Scan, CascadeInv
  <2>2. d \in CascadeRequest /\ d.op = c.op /\ d.of = c.of /\ d.todo = c.todo /\ d.seen = rows
        /\ d.held = c.held /\ d.began = c.began
    BY <1>1 DEF CascadeRequest, Of
  <2>3. ASSUME c.op = "withdraw", NEW i \in c.began, item[i] = "live", TableOf[i] = Head(c.todo)
        PROVE  i \in rows
    <3>1. i \in Items
      BY <1>1, <2>3 DEF CascadeRequest
    <3> QED
      BY <2>3, <3>1 DEF Of, Living
  <2>4. cascade'[r] = d
    BY <2>1 DEF CascadeInv
  <2> HIDE DEF d, c, rows
  <2>5. CascadeRequestInv(r)'
    BY <1>1, <1>2, <2>2, <2>3, <2>4 DEF c, CascadeRequestInv, Covered
  <2>6. c.op = "create" => \A o \in CascadeRequests \ {r} : cascade[o].op = "create" => cascade[o].of # c.of
    BY DEF c, CascadeInv
  <2> QED
    BY <1>1, <2>1, <2>2, <2>5, <2>6, OneCascade
<1> QED
  BY <1>3, <1>4

LEMMA TakeStep ==
  ASSUME CascadeInv, NEW r \in CascadeRequests, Take(r)
  PROVE  CascadeInv'
<1> DEFINE c == cascade[r]
           d == [c EXCEPT !.todo = Tail(c.todo), !.seen = {}, !.held = c.held \cup (c.seen \cap Living)]
<1>1. c \in CascadeRequest /\ c.seen # {} /\ item' = item
  BY DEF Take, CascadeInv
<1>2. CascadeRequestInv(r) /\ c.todo # << >>
  BY <1>1 DEF CascadeInv, CascadeRequestInv
<1>3. cascade' = [cascade EXCEPT ![r] = d]
  BY DEF Take, CascadeInv
<1>4. d \in CascadeRequest /\ d.op = c.op /\ d.of = c.of /\ d.todo = Tail(c.todo) /\ d.seen = {}
      /\ d.held = c.held \cup (c.seen \cap Living) /\ d.began = c.began
  <2>1. Tail(c.todo) \in Seq(Tables)
    BY <1>1, <1>2 DEF CascadeRequest
  <2>2. c.held \cup (c.seen \cap Living) \in SUBSET Items
    BY <1>1 DEF CascadeRequest
  <2> HIDE DEF c
  <2> QED
    BY <1>1, <2>1, <2>2 DEF CascadeRequest
<1>5. ASSUME c.op = "withdraw", NEW i \in c.began, item[i] = "live", i # MemberRow, i \notin d.held
      PROVE  \E n \in DOMAIN Tail(c.todo) : Tail(c.todo)[n] = TableOf[i]
  <2>1. i \in Items
    BY <1>1 DEF CascadeRequest
  <2>2. i \notin c.held /\ i \notin c.seen
    BY <1>4, <1>5, <2>1 DEF Living
  <2>3. PICK n \in DOMAIN c.todo : c.todo[n] = TableOf[i]
    BY <1>2, <1>5, <2>2 DEF CascadeRequestInv, Covered
  <2>4. TableOf[i] # Head(c.todo)
    BY <1>1, <1>2, <1>5, <2>2 DEF CascadeRequestInv, Covered
  <2>5. c.todo \in Seq(Tables)
    BY <1>1 DEF CascadeRequest
  <2> QED
    BY <1>2, <2>3, <2>4, <2>5, TailKeeps
<1>6. cascade'[r] = d
  BY <1>3 DEF CascadeInv
<1>7. \A i \in d.held : item[i] # "none"
  BY <1>2, <1>4 DEF CascadeRequestInv, Living
<1>8. CascadeRequestInv(r)'
  <2>1. /\ c.op \in {"cascade", "withdraw"} => item[c.of] # "none"
        /\ c.op = "create" => TableOf[c.of] = "scrap" /\ item[c.of] = "none" /\ item[ParentOf[c.of]] # "none"
        /\ c.op = "withdraw" => c.of = MemberRow /\ \A i \in c.began : item[i] # "none"
    BY <1>2 DEF CascadeRequestInv, Covered
  <2> HIDE DEF d, c
  <2>2. /\ cascade'[r].held = d.held /\ cascade'[r].seen = {} /\ cascade'[r].todo = Tail(c.todo)
        /\ cascade'[r].op = c.op /\ cascade'[r].of = c.of /\ cascade'[r].began = c.began
    BY <1>4, <1>6
  <2>3. c.op = "withdraw" => Covered(cascade[r])'
    BY <1>1, <1>5, <2>1, <2>2 DEF Covered
  <2> QED
    BY <1>1, <1>7, <2>1, <2>2, <2>3 DEF CascadeRequestInv
<1> HIDE DEF d, c
<1>9. c.op = "create" => \A o \in CascadeRequests \ {r} : cascade[o].op = "create" => cascade[o].of # c.of
  BY DEF c, CascadeInv
<1> QED
  BY <1>1, <1>3, <1>4, <1>8, <1>9, OneCascade

\* Rows are deleted, or appear, and at most one request ends.
LEMMA RowsChange ==
  ASSUME CascadeInv, NEW ended \in SUBSET CascadeRequests,
         cascade' \in [CascadeRequests -> CascadeRequest],
         \A r \in ended : cascade'[r] = NoCascade,
         \A r \in CascadeRequests \ ended : cascade'[r] = cascade[r],
         item' \in [Items -> {"none", "live", "deleted"}],
         \A i \in Items : item[i] # "none" => item'[i] \in {item[i], "deleted"},
         \A r \in CascadeRequests \ ended : cascade[r].op = "create" => item'[cascade[r].of] = "none",
         \A i \in Items : TableOf[i] = "record_scrap" /\ item'[ParentOf[i]] = "none" => item'[i] = "none"
  PROVE  CascadeInv'
<1>1. item'[MemberRow] # "none"
  BY CascadeAssumption DEF CascadeInv
<1>2. ASSUME NEW r \in CascadeRequests PROVE CascadeRequestInv(r)'
  <2>1. CASE r \in ended
    BY <2>1, NoCascadeIsTyped DEF CascadeRequestInv
  <2>2. CASE r \notin ended
    <3>1. cascade'[r] = cascade[r] /\ cascade[r] \in CascadeRequest /\ CascadeRequestInv(r)
      BY <2>2 DEF CascadeInv
    <3>2. cascade[r].held \subseteq Items /\ cascade[r].began \subseteq Items /\ cascade[r].of \in Items
          /\ ParentOf[cascade[r].of] \in Items
      BY <3>1, Structure DEF CascadeRequest
    <3>3. \A i \in Items : item'[i] = "live" /\ item[i] # "none" => item[i] = "live"
      OBVIOUS
    <3>4. cascade[r].op = "withdraw" => Covered(cascade[r])'
      BY <3>1, <3>2, <3>3 DEF CascadeRequestInv, Covered
    <3>5. \A i \in cascade[r].held : item'[i] # "none"
      BY <3>1, <3>2 DEF CascadeRequestInv
    <3> QED
      BY <2>2, <3>1, <3>2, <3>4, <3>5 DEF CascadeRequestInv, Covered
  <2> QED
    BY <2>1, <2>2
<1>3. \A r, o \in CascadeRequests :
        r # o /\ cascade'[r].op = "create" /\ cascade'[o].op = "create" => cascade'[r].of # cascade'[o].of
  BY NoCascadeIsTyped DEF CascadeInv
<1> QED
  BY <1>1, <1>2, <1>3 DEF CascadeInv

LEMMA CascadeStep == CascadeInv /\ [CascadeNext]_cascadeVars => CascadeInv'
<1> SUFFICES ASSUME CascadeInv, [CascadeNext]_cascadeVars PROVE CascadeInv'
  OBVIOUS
<1>0. /\ item \in [Items -> {"none", "live", "deleted"}]
      /\ cascade \in [CascadeRequests -> CascadeRequest]
      /\ \A r \in CascadeRequests : cascade[r].of \in Items /\ cascade[r].held \subseteq Items
  BY DEF CascadeInv, CascadeRequest
<1>1. CASE UNCHANGED cascadeVars
  BY <1>1 DEF cascadeVars, CascadeInv, CascadeRequestInv, Covered
<1>2. ASSUME NEW p \in Items, CreateRecord(p) PROVE CascadeInv'
  <2> DEFINE own == {i \in Children : ParentOf[i] = p}
  <2>1. TableOf[p] = "record" /\ item[p] = "none" /\ cascade' = cascade
        /\ item' = [i \in Items |-> IF i \in own \cup {p} THEN "live" ELSE item[i]]
    BY <1>2 DEF CreateRecord
  <2>2. ASSUME NEW i \in own PROVE i \in Items /\ TableOf[i] = "record_scrap" /\ item[i] = "none"
    <3>1. i \in Items /\ i \in Children /\ ParentOf[i] = p
      BY DEF Children
    <3>2. TableOf[i] = "record_scrap"
      BY <2>1, <3>1, Structure
    <3> QED
      BY <2>1, <3>1, <3>2 DEF CascadeInv
  <2>3. \A i \in Items : item[i] # "none" => item'[i] = item[i]
    BY <2>1, <2>2
  <2>4. ASSUME NEW r \in CascadeRequests, cascade[r].op = "create" PROVE item'[cascade[r].of] = "none"
    <3>1. TableOf[cascade[r].of] = "scrap" /\ item[cascade[r].of] = "none"
      BY <2>4 DEF CascadeInv, CascadeRequestInv
    <3>2. cascade[r].of \notin own \cup {p}
      BY <2>1, <2>2, <3>1
    <3> QED
      BY <1>0, <2>1, <3>1, <3>2
  <2>5. ASSUME NEW i \in Items, TableOf[i] = "record_scrap", item'[ParentOf[i]] = "none" PROVE item'[i] = "none"
    <3>1. ParentOf[i] \in Items /\ i \in Children
      BY <2>5, Structure
    <3>2. ParentOf[i] # p /\ item[ParentOf[i]] = "none"
      BY <2>1, <2>5, <3>1
    <3>3. item[i] = "none" /\ i # p /\ i \notin own
      BY <2>1, <2>5, <3>2 DEF CascadeInv
    <3> QED
      BY <2>1, <3>3
  <2>6. item' \in [Items -> {"none", "live", "deleted"}]
    BY <1>0, <2>1
  <2> QED
    <3> DEFINE ended == {}
    <3>1. ended \in SUBSET CascadeRequests /\ \A r \in ended : cascade'[r] = NoCascade
      OBVIOUS
    <3>2. cascade' \in [CascadeRequests -> CascadeRequest]
          /\ \A r \in CascadeRequests \ ended : cascade'[r] = cascade[r]
      BY <1>0, <2>1
    <3>3. \A i \in Items : item[i] # "none" => item'[i] \in {item[i], "deleted"}
      BY <2>3
    <3>4. \A r \in CascadeRequests \ ended : cascade[r].op = "create" => item'[cascade[r].of] = "none"
      BY <2>4
    <3> HIDE DEF own, ended
    <3> QED
      BY <2>5, <2>6, <3>1, <3>2, <3>3, <3>4, RowsChange
<1>3. ASSUME NEW r \in CascadeRequests, NEW i \in Items, StartScrap(r, i) PROVE CascadeInv'
  <2>1. << >> \in Seq(Tables)
    OBVIOUS
  <2> QED
    BY <1>3, <2>1, StartStep DEF StartScrap
<1>4. ASSUME NEW r \in CascadeRequests, NEW i \in Items, StartDelete(r, i) PROVE CascadeInv'
  <2>1. PICK todo \in {<< >>, <<"scrap">>, <<"record_scrap">>} : Started(r, "cascade", i, todo)
    BY <1>4 DEF StartDelete
  <2>2. todo \in Seq(Tables)
    <3>1. << >> \in Seq(Tables) /\ <<"scrap">> \in Seq(Tables) /\ <<"record_scrap">> \in Seq(Tables)
      BY DEF Tables
    <3> QED
      BY <3>1
  <2>3. item[i] = "live"
    BY <1>4 DEF StartDelete
  <2> QED
    BY <2>1, <2>2, <2>3, StartStep
<1>5. ASSUME NEW r \in CascadeRequests, StartWithdraw(r) PROVE CascadeInv'
  BY <1>5, WithdrawTodo, CascadeAssumption, StartStep DEF StartWithdraw
<1>6. ASSUME NEW r \in CascadeRequests, InsertScrap(r) PROVE CascadeInv'
  <2> DEFINE i == cascade[r].of
  <2>1. /\ cascade[r].op = "create" /\ item' = [item EXCEPT ![i] = "live"]
        /\ cascade' = [cascade EXCEPT ![r] = NoCascade]
    BY <1>6 DEF InsertScrap, Done
  <2>2. TableOf[i] = "scrap" /\ item[i] = "none" /\ i \in Items
    BY <1>0, <2>1 DEF CascadeInv, CascadeRequestInv
  <2>3. \A k \in Items : item'[k] = IF k = i THEN "live" ELSE item[k]
    BY <1>0, <2>1
  <2>4. item' \in [Items -> {"none", "live", "deleted"}]
    BY <1>0, <2>1
  <2>5. /\ cascade' \in [CascadeRequests -> CascadeRequest] /\ cascade'[r] = NoCascade
        /\ \A o \in CascadeRequests \ {r} : cascade'[o] = cascade[o]
    BY <1>0, <2>1, NoCascadeIsTyped
  <2>6. ASSUME NEW o \in CascadeRequests \ {r}, cascade[o].op = "create" PROVE item'[cascade[o].of] = "none"
    <3>1. cascade[o].of # i /\ item[cascade[o].of] = "none" /\ cascade[o].of \in Items
      BY <1>0, <2>1, <2>6 DEF CascadeInv, CascadeRequestInv
    <3> QED
      BY <2>3, <3>1
  <2>7. ASSUME NEW k \in Items, TableOf[k] = "record_scrap", item'[ParentOf[k]] = "none" PROVE item'[k] = "none"
    <3>1. ParentOf[k] \in Items /\ k # i /\ ParentOf[k] # i
      BY <2>2, <2>7, Structure
    <3> QED
      BY <2>3, <2>7, <3>1 DEF CascadeInv
  <2> HIDE DEF i
  <2> QED
    BY <2>2, <2>3, <2>4, <2>5, <2>6, <2>7, RowsChange, {r} \in SUBSET CascadeRequests
<1>7. ASSUME NEW r \in CascadeRequests, CommitCascade(r) PROVE CascadeInv'
  <2> DEFINE c == cascade[r]
  <2>1. /\ c.op \in {"cascade", "withdraw"} /\ cascade' = [cascade EXCEPT ![r] = NoCascade]
        /\ item' = [i \in Items |-> IF i \in c.held \cup {c.of} THEN "deleted" ELSE item[i]]
    BY <1>7 DEF CommitCascade, Done
  <2>2. \A i \in c.held \cup {c.of} : i \in Items /\ item[i] # "none"
    BY <1>0, <2>1 DEF CascadeInv, CascadeRequestInv
  <2>3. \A i \in Items : /\ item[i] # "none" => item'[i] \in {item[i], "deleted"}
                         /\ item[i] = "none" <=> item'[i] = "none"
    BY <2>1, <2>2
  <2>4. item' \in [Items -> {"none", "live", "deleted"}]
    BY <1>0, <2>1
  <2>5. /\ cascade' \in [CascadeRequests -> CascadeRequest] /\ cascade'[r] = NoCascade
        /\ \A o \in CascadeRequests \ {r} : cascade'[o] = cascade[o]
    BY <1>0, <2>1, NoCascadeIsTyped
  <2>6. \A o \in CascadeRequests \ {r} : cascade[o].op = "create" => item'[cascade[o].of] = "none"
    BY <1>0, <2>3 DEF CascadeInv, CascadeRequestInv
  <2>7. \A i \in Items : TableOf[i] = "record_scrap" /\ item'[ParentOf[i]] = "none" => item'[i] = "none"
    BY <2>3, Structure DEF CascadeInv
  <2> HIDE DEF c
  <2> QED
    BY <2>3, <2>4, <2>5, <2>6, <2>7, RowsChange, {r} \in SUBSET CascadeRequests
<1>8. ASSUME NEW r \in CascadeRequests, RolledBack(r) PROVE CascadeInv'
  <2>1. cascade' = [cascade EXCEPT ![r] = NoCascade] /\ item' = item
    BY <1>8 DEF RolledBack, Done
  <2>2. cascade'[r] = NoCascade
    BY <1>0, <2>1
  <2>3. CascadeRequestInv(r)'
    BY <2>2, NoCascadeIsTyped DEF CascadeRequestInv
  <2> QED
    BY <2>1, <2>3, NoCascadeIsTyped, OneCascade
<1> QED
  BY <1>1, <1>2, <1>3, <1>4, <1>5, <1>6, <1>7, <1>8, ScanStep, TakeStep DEF CascadeNext

LEMMA RacedStep ==
  CascadeInv /\ raced \subseteq Items /\ [CascadeNext]_cascadeVars => (raced \subseteq Items)'
<1> SUFFICES ASSUME CascadeInv, raced \subseteq Items, [CascadeNext]_cascadeVars
             PROVE  raced' \subseteq Items
  OBVIOUS
<1>1. ASSUME NEW p \in Items, CreateRecord(p) PROVE raced' \subseteq Items
  BY <1>1 DEF CreateRecord, Children
<1>2. ASSUME NEW r \in CascadeRequests, InsertScrap(r) PROVE raced' \subseteq Items
  <2>1. cascade[r].of \in Items
    BY DEF CascadeInv, CascadeRequest
  <2>2. QED
    BY <1>2, <2>1 DEF InsertScrap
<1>3. QED
  BY <1>1, <1>2 DEF CascadeNext, cascadeVars, StartScrap, StartDelete, StartWithdraw, Started,
     Scan, Take, CommitCascade, RolledBack

\* The step that ends a withdrawal: the commit, with nothing left to do.
LEMMA WithdrawalEnds ==
  ASSUME CascadeInv, CascadeNext, NEW r \in CascadeRequests, cascade[r].op = "withdraw",
         cascade'[r] = NoCascade, item # item', NEW i \in cascade[r].began
  PROVE  item'[i] = "deleted"
<1>0. cascade[r] # NoCascade /\ cascade'[r] # cascade[r]
  BY NoCascadeIsTyped
<1>1. CommitCascade(r)
  <2>1. \A p \in Items : ~ CreateRecord(p)
    BY <1>0 DEF CreateRecord
  <2>2. ASSUME NEW o \in CascadeRequests, InsertScrap(o) PROVE FALSE
    <3>1. o # r
      BY <2>2 DEF InsertScrap
    <3> QED
      BY <1>0, <2>2, <3>1 DEF InsertScrap, Done, CascadeInv
  <2>3. PICK o \in CascadeRequests : CommitCascade(o)
    BY <2>1, <2>2 DEF CascadeNext, StartScrap, StartDelete, StartWithdraw, Started, Scan, Take, RolledBack
  <2>4. o = r
    BY <1>0, <2>3 DEF CommitCascade, Done, CascadeInv
  <2> QED
    BY <2>3, <2>4
<1>2. cascade[r].todo = << >> /\ item' = [k \in Items |-> IF k \in cascade[r].held \cup {cascade[r].of} THEN "deleted" ELSE item[k]]
  BY <1>1 DEF CommitCascade
<1>3. Covered(cascade[r]) /\ i \in Items
  BY DEF CascadeInv, CascadeRequestInv, CascadeRequest
<1>4. item[i] \in {"live", "deleted"}
  BY <1>3 DEF Covered, CascadeInv
<1>5. item[i] = "live" => i = cascade[r].of \/ i \in cascade[r].held
  BY <1>2, <1>3 DEF Covered
<1> QED
  BY <1>2, <1>3, <1>4, <1>5

\* Whatever is created and deleted while a member withdraws: no row that was there when the
\* withdrawal began survives it (withdraw_member).
THEOREM NothingSurvives == CascadeSpec => WithdrawalIsWhole
<1> DEFINE Whole ==
      \A r \in CascadeRequests :
        cascade[r].op = "withdraw" /\ item[MemberRow]' = "deleted" /\ cascade[r]' = NoCascade
          /\ item # item'
        => \A i \in cascade[r].began : item[i]' = "deleted"
<1>1. CascadeInv /\ [CascadeNext]_cascadeVars => [Whole]_cascadeVars
  BY WithdrawalEnds
<1> QED
  BY <1>1, CascadeInitially, CascadeStep, PTL DEF CascadeSpec, WithdrawalIsWhole

\* A deletion that takes the scrap i with its parent, and one that has not let it by: i is
\* locked, or its table's turn comes, and if it has come, the statement has seen i.
Takes(c, i) == c.op = "withdraw" \/ (c.op = "cascade" /\ c.of = ParentOf[i])

WillTake(c, i) ==
  /\ i \in c.held \/ \E n \in DOMAIN c.todo : c.todo[n] = TableOf[i]
  /\ c.seen # {} /\ TableOf[i] = Head(c.todo) => i \in c.seen \cup c.held

\* The deletion of a scrap, book or record locks what belongs to it, and nothing else.
OwnRows(c) ==
  c.op = "cascade" =>
    /\ TableOf[c.of] \in {"scrap", "book", "record"}
    /\ \A k \in c.seen \cup c.held : ParentOf[k] = c.of

ChildSafe(i) ==
  item[i] = "live" /\ i \notin raced =>
    /\ item[ParentOf[i]] # "deleted"
    /\ \A r \in CascadeRequests : Takes(cascade[r], i) => WillTake(cascade[r], i)

OrphanInv ==
  /\ \A r \in CascadeRequests : OwnRows(cascade[r])
  /\ \A i \in Children : ChildSafe(i)

LEMMA ChildOf ==
  ASSUME NEW i \in Children
  PROVE  /\ i \in Items /\ ParentOf[i] \in Items /\ ParentOf[i] # MemberRow
         /\ TableOf[i] \in {"scrap", "record_scrap"} /\ TableOf[ParentOf[i]] \in {"book", "record"}
         /\ TableOf[i] = "scrap" <=> TableOf[ParentOf[i]] = "book"
         /\ ParentOf[ParentOf[i]] = MemberRow
<1>1. i \in Items /\ ParentOf[i] # MemberRow
  BY DEF Children
<1>2. /\ ParentOf[i] \in Items /\ TableOf[i] \in {"scrap", "record_scrap"}
      /\ TableOf[i] = "scrap" => TableOf[ParentOf[i]] = "book"
      /\ TableOf[i] = "record_scrap" => TableOf[ParentOf[i]] = "record"
  BY <1>1, Structure
<1>3. TableOf[ParentOf[i]] \in {"book", "record"} /\ (TableOf[i] = "scrap" <=> TableOf[ParentOf[i]] = "book")
  BY <1>2
<1>4. ParentOf[ParentOf[i]] = MemberRow
  <2>1. ParentOf[i] \notin Children
    BY <1>2, <1>3, Structure
  <2> QED
    BY <1>2, <2>1 DEF Children
<1> QED
  BY <1>1, <1>2, <1>3, <1>4

LEMMA OrphansInitially == CascadeInit => OrphanInv
<1> SUFFICES ASSUME CascadeInit PROVE OrphanInv
  OBVIOUS
<1>1. \A r \in CascadeRequests : cascade[r].op = "none"
  BY NoCascadeIsTyped DEF CascadeInit
<1>2. ASSUME NEW i \in Children, item[i] = "live" PROVE item[ParentOf[i]] # "deleted"
  BY <1>2, ChildOf DEF CascadeInit
<1> QED
  BY <1>1, <1>2 DEF OrphanInv, OwnRows, ChildSafe, Takes

\* One request goes on, and no row changes.
LEMMA OrphansOneCascade ==
  ASSUME CascadeInv, OrphanInv, NEW r \in CascadeRequests, NEW c,
         cascade' = [cascade EXCEPT ![r] = c], UNCHANGED <<item, raced>>, OwnRows(c),
         \A i \in Children : item[i] = "live" /\ i \notin raced /\ Takes(c, i) => WillTake(c, i)
  PROVE  OrphanInv'
<1>1. cascade'[r] = c /\ \A o \in CascadeRequests \ {r} : cascade'[o] = cascade[o]
  BY DEF CascadeInv
<1>2. ASSUME NEW o \in CascadeRequests PROVE OwnRows(cascade'[o])
  <2>1. OwnRows(cascade[o])
    BY DEF OrphanInv
  <2>2. CASE o = r
    BY <1>1, <2>2
  <2>3. CASE o # r
    BY <1>1, <2>1, <2>3
  <2> QED
    BY <2>2, <2>3
<1>3. ASSUME NEW i \in Children PROVE ChildSafe(i)'
  <2> SUFFICES ASSUME item[i] = "live", i \notin raced
               PROVE  /\ item[ParentOf[i]] # "deleted"
                      /\ \A o \in CascadeRequests : Takes(cascade'[o], i) => WillTake(cascade'[o], i)
    BY DEF ChildSafe, Takes, WillTake
  <2>1. /\ item[ParentOf[i]] # "deleted"
        /\ \A o \in CascadeRequests : Takes(cascade[o], i) => WillTake(cascade[o], i)
    BY DEF OrphanInv, ChildSafe
  <2>2. ASSUME NEW o \in CascadeRequests PROVE Takes(cascade'[o], i) => WillTake(cascade'[o], i)
    <3>1. CASE o = r
      BY <1>1, <3>1
    <3>2. CASE o # r
      BY <1>1, <2>1, <3>2
    <3> QED
      BY <3>1, <3>2
  <2> QED
    BY <2>1, <2>2
<1> QED
  BY <1>2, <1>3 DEF OrphanInv, OwnRows

\* A deletion that starts has every table to come in which there is something to take.
LEMMA OrphansStart ==
  ASSUME CascadeInv, OrphanInv, NEW r \in CascadeRequests, NEW op, NEW of \in Items, NEW todo,
         Started(r, op, of, todo), op = "cascade" => TableOf[of] \in {"scrap", "book", "record"},
         \A i \in Children :
           op = "withdraw" \/ (op = "cascade" /\ of = ParentOf[i]) =>
             \E n \in DOMAIN todo : todo[n] = TableOf[i]
  PROVE  OrphanInv'
<1> DEFINE began == IF op = "withdraw" THEN Living ELSE {}
           c == [op |-> op, of |-> of, todo |-> todo, seen |-> {}, held |-> {}, began |-> began]
<1>1. cascade' = [cascade EXCEPT ![r] = c] /\ UNCHANGED <<item, raced>>
  BY DEF Started
<1>2. OwnRows(c)
  BY DEF OwnRows
<1>3. \A i \in Children : Takes(c, i) => WillTake(c, i)
  BY DEF Takes, WillTake
<1> HIDE DEF c
<1> QED
  BY <1>1, <1>2, <1>3, OrphansOneCascade

LEMMA OrphansScan ==
  ASSUME CascadeInv, OrphanInv, NEW r \in CascadeRequests, Scan(r)
  PROVE  OrphanInv'
<1> DEFINE c == cascade[r]
           rows == {i \in Of(Head(c.todo)) \cap Living : c.op = "withdraw" \/ ParentOf[i] = c.of}
<1>1. /\ c \in CascadeRequest /\ c.todo \in Seq(Tables) /\ c.todo # << >> /\ c.seen = {}
      /\ UNCHANGED <<item, raced>>
  BY DEF Scan, CascadeInv, CascadeRequest
<1>2. OwnRows(c)
  BY DEF OrphanInv
<1>3. ASSUME NEW i \in Children, item[i] = "live", i \notin raced, Takes(c, i)
      PROVE  /\ WillTake(c, i)
             /\ TableOf[i] = Head(c.todo) => i \in rows
  <2>1. WillTake(c, i)
    BY <1>3 DEF OrphanInv, ChildSafe
  <2>2. i \in Items
    BY ChildOf
  <2> QED
    BY <1>3, <2>1, <2>2 DEF Takes, Of, Living
<1>4. CASE rows = {}
  <2> DEFINE d == [c EXCEPT !.todo = Tail(c.todo)]
  <2>1. cascade' = [cascade EXCEPT ![r] = d]
    BY <1>4 DEF Scan, CascadeInv
  <2>2. d.op = c.op /\ d.of = c.of /\ d.todo = Tail(c.todo) /\ d.seen = {} /\ d.held = c.held
    <3> HIDE DEF c
    <3> QED
      BY <1>1 DEF CascadeRequest
  <2> HIDE DEF d, c, rows
  <2>3. OwnRows(d)
    BY <1>1, <1>2, <2>2 DEF OwnRows
  <2>4. ASSUME NEW i \in Children, item[i] = "live", i \notin raced, Takes(d, i) PROVE WillTake(d, i)
    <3>1. Takes(c, i)
      BY <2>2, <2>4 DEF Takes
    <3>2. WillTake(c, i) /\ TableOf[i] # Head(c.todo)
      BY <1>3, <1>4, <2>4, <3>1
    <3>3. i \in c.held \/ \E n \in DOMAIN Tail(c.todo) : Tail(c.todo)[n] = TableOf[i]
      BY <1>1, <3>2, TailKeeps DEF WillTake
    <3> QED
      BY <2>2, <3>3 DEF WillTake
  <2> QED
    BY <1>1, <2>1, <2>3, <2>4, OrphansOneCascade
<1>5. CASE rows # {}
  <2> DEFINE d == [c EXCEPT !.seen = rows]
  <2>1. cascade' = [cascade EXCEPT ![r] = d]
    BY <1>5 DEF Scan, CascadeInv
  <2>0. c.op = "cascade" => \A k \in rows : ParentOf[k] = c.of
    OBVIOUS
  <2> HIDE DEF c, rows
  <2>2. d.op = c.op /\ d.of = c.of /\ d.todo = c.todo /\ d.seen = rows /\ d.held = c.held
    BY <1>1 DEF CascadeRequest
  <2> HIDE DEF d
  <2>3. OwnRows(d)
    BY <1>2, <2>0, <2>2 DEF OwnRows
  <2>4. ASSUME NEW i \in Children, item[i] = "live", i \notin raced, Takes(d, i) PROVE WillTake(d, i)
    <3>1. Takes(c, i)
      BY <2>2, <2>4 DEF Takes
    <3>2. WillTake(c, i) /\ (TableOf[i] = Head(c.todo) => i \in rows)
      BY <1>3, <2>4, <3>1
    <3> QED
      BY <2>2, <3>2 DEF WillTake
  <2> QED
    BY <1>1, <2>1, <2>3, <2>4, OrphansOneCascade
<1> QED
  BY <1>4, <1>5

LEMMA OrphansTake ==
  ASSUME CascadeInv, OrphanInv, NEW r \in CascadeRequests, Take(r)
  PROVE  OrphanInv'
<1> DEFINE c == cascade[r]
           d == [c EXCEPT !.todo = Tail(c.todo), !.seen = {}, !.held = c.held \cup (c.seen \cap Living)]
<1>1. c \in CascadeRequest /\ c.seen # {} /\ UNCHANGED <<item, raced>>
  BY DEF Take, CascadeInv
<1>2. c.todo # << >> /\ c.todo \in Seq(Tables) /\ OwnRows(c)
  BY <1>1 DEF CascadeInv, CascadeRequestInv, CascadeRequest, OrphanInv
<1>3. cascade' = [cascade EXCEPT ![r] = d]
  BY DEF Take, CascadeInv
<1>4. ASSUME NEW i \in Children, item[i] = "live", i \notin raced, Takes(c, i)
      PROVE  WillTake(c, i) /\ i \in Living
  <2>1. WillTake(c, i)
    BY <1>4 DEF OrphanInv, ChildSafe
  <2> QED
    BY <1>4, <2>1, ChildOf DEF Living
<1> HIDE DEF c
<1>5. d.op = c.op /\ d.of = c.of /\ d.todo = Tail(c.todo) /\ d.seen = {}
      /\ d.held = c.held \cup (c.seen \cap Living)
  BY <1>1 DEF CascadeRequest
<1> HIDE DEF d
<1>6. OwnRows(d)
  BY <1>2, <1>5 DEF OwnRows
<1>7. ASSUME NEW i \in Children, item[i] = "live", i \notin raced, Takes(d, i) PROVE WillTake(d, i)
  <2>1. Takes(c, i)
    BY <1>5, <1>7 DEF Takes
  <2>2. WillTake(c, i) /\ i \in Living
    BY <1>4, <1>7, <2>1
  <2>3. CASE i \in c.held \/ i \in c.seen
    BY <1>5, <2>2, <2>3 DEF WillTake
  <2>4. CASE i \notin c.held /\ i \notin c.seen
    <3>1. TableOf[i] # Head(c.todo) /\ \E n \in DOMAIN c.todo : c.todo[n] = TableOf[i]
      BY <1>1, <2>2, <2>4 DEF WillTake
    <3>2. \E n \in DOMAIN Tail(c.todo) : Tail(c.todo)[n] = TableOf[i]
      BY <1>2, <3>1, TailKeeps
    <3> QED
      BY <1>5, <3>2 DEF WillTake
  <2> QED
    BY <2>3, <2>4
<1> QED
  BY <1>1, <1>3, <1>6, <1>7, OrphansOneCascade

\* A row that appears, and that no deletion has passed by, is in time for all of them.
LEMMA InTime ==
  ASSUME NEW i \in Children, ~ PassedBy(i), NEW r \in CascadeRequests, Takes(cascade[r], i)
  PROVE  WillTake(cascade[r], i)
<1>1. Contains(cascade[r].todo, TableOf[i])
      /\ ~ (Head(cascade[r].todo) = TableOf[i] /\ cascade[r].seen # {})
  BY DEF PassedBy, Takes
<1> QED
  BY <1>1 DEF WillTake, Contains

\* Rows change while the requests that delete go on as they are.
LEMMA OrphansRows ==
  ASSUME CascadeInv, OrphanInv,
         \A r \in CascadeRequests : cascade'[r] \in {cascade[r], NoCascade},
         \A i \in Children :
           item'[i] = "live" /\ i \notin raced' =>
             /\ item'[ParentOf[i]] # "deleted"
             /\ \A r \in CascadeRequests : Takes(cascade[r], i) => WillTake(cascade[r], i)
  PROVE  OrphanInv'
<1>1. ASSUME NEW r \in CascadeRequests PROVE OwnRows(cascade'[r])
  BY NoCascadeIsTyped DEF OrphanInv, OwnRows
<1>2. ASSUME NEW i \in Children, NEW r \in CascadeRequests,
             Takes(cascade[r], i) => WillTake(cascade[r], i)
      PROVE  Takes(cascade'[r], i) => WillTake(cascade'[r], i)
  BY <1>2, NoCascadeIsTyped DEF Takes
<1>3. \A i \in Children : ChildSafe(i)'
  BY <1>2 DEF ChildSafe, Takes, WillTake
<1> QED
  BY <1>1, <1>3 DEF OrphanInv, OwnRows

LEMMA OrphansCreate ==
  ASSUME CascadeInv, OrphanInv, NEW p \in Items, CreateRecord(p)
  PROVE  OrphanInv'
<1> DEFINE own == {i \in Children : ParentOf[i] = p}
<1>1. /\ TableOf[p] = "record" /\ item[p] = "none" /\ cascade' = cascade
      /\ item' = [i \in Items |-> IF i \in own \cup {p} THEN "live" ELSE item[i]]
      /\ raced' = raced \cup {i \in own : PassedBy(i)}
  BY DEF CreateRecord
<1>2. ASSUME NEW i \in Children, item'[i] = "live", i \notin raced'
      PROVE  /\ item'[ParentOf[i]] # "deleted"
             /\ \A r \in CascadeRequests : Takes(cascade[r], i) => WillTake(cascade[r], i)
  <2>1. i \in Items /\ ParentOf[i] \in Items /\ i # p
    BY <1>1, ChildOf
  <2>2. CASE ParentOf[i] = p
    <3>1. i \in own /\ ~ PassedBy(i)
      BY <1>1, <1>2, <2>2
    <3>2. item'[ParentOf[i]] = "live"
      BY <1>1, <2>1, <2>2
    <3> QED
      BY <3>1, <3>2, InTime
  <2>3. CASE ParentOf[i] # p
    <3>1. item[i] = "live" /\ i \notin raced
      BY <1>1, <1>2, <2>1, <2>3
    <3>2. item'[ParentOf[i]] = item[ParentOf[i]] \/ item'[ParentOf[i]] = "live"
      BY <1>1, <2>1
    <3> QED
      BY <3>1, <3>2 DEF OrphanInv, ChildSafe
  <2> QED
    BY <2>2, <2>3
<1> QED
  BY <1>1, <1>2, OrphansRows

LEMMA OrphansInsert ==
  ASSUME CascadeInv, OrphanInv, NEW r \in CascadeRequests, InsertScrap(r)
  PROVE  OrphanInv'
<1> DEFINE i == cascade[r].of
<1>1. /\ item' = [item EXCEPT ![i] = "live"] /\ cascade[r].op = "create"
      /\ raced' = IF item[ParentOf[i]] # "live" \/ PassedBy(i) THEN raced \cup {i} ELSE raced
      /\ cascade' = [cascade EXCEPT ![r] = NoCascade]
  BY DEF InsertScrap, Done
<1>2. i \in Items /\ TableOf[i] = "scrap" /\ item \in [Items -> {"none", "live", "deleted"}]
      /\ cascade \in [CascadeRequests -> CascadeRequest]
  BY <1>1 DEF CascadeInv, CascadeRequestInv, CascadeRequest
<1> HIDE DEF i
<1>3. ASSUME NEW k \in Children, item'[k] = "live", k \notin raced'
      PROVE  /\ item'[ParentOf[k]] # "deleted"
             /\ \A o \in CascadeRequests : Takes(cascade[o], k) => WillTake(cascade[o], k)
  <2>1. k \in Items /\ ParentOf[k] \in Items /\ ParentOf[k] # i
    BY <1>2, ChildOf
  <2>2. item'[ParentOf[k]] = item[ParentOf[k]]
    BY <1>1, <1>2, <2>1
  <2>3. CASE k = i
    <3>1. item[ParentOf[k]] = "live" /\ ~ PassedBy(k)
      BY <1>1, <1>3, <2>3
    <3> QED
      BY <2>2, <3>1, InTime
  <2>4. CASE k # i
    <3>1. item[k] = "live" /\ k \notin raced
      BY <1>1, <1>2, <1>3, <2>1, <2>4
    <3> QED
      BY <2>2, <3>1 DEF OrphanInv, ChildSafe
  <2> QED
    BY <2>3, <2>4
<1>4. \A o \in CascadeRequests : cascade'[o] \in {cascade[o], NoCascade}
  BY <1>1, <1>2
<1> QED
  BY <1>3, <1>4, OrphansRows

LEMMA OrphansCommit ==
  ASSUME CascadeInv, OrphanInv, NEW r \in CascadeRequests, CommitCascade(r)
  PROVE  OrphanInv'
<1> DEFINE c == cascade[r]
<1>1. /\ c.op \in {"cascade", "withdraw"} /\ c.todo = << >> /\ raced' = raced
      /\ item' = [i \in Items |-> IF i \in c.held \cup {c.of} THEN "deleted" ELSE item[i]]
      /\ cascade' = [cascade EXCEPT ![r] = NoCascade]
  BY DEF CommitCascade, Done
<1>2. /\ cascade \in [CascadeRequests -> CascadeRequest]
      /\ OwnRows(c) /\ (c.op = "withdraw" => c.of = MemberRow)
  BY DEF CascadeInv, CascadeRequestInv, Covered, OrphanInv
<1>3. \A o \in CascadeRequests : cascade'[o] \in {cascade[o], NoCascade}
  BY <1>1, <1>2
<1>4. ASSUME NEW i \in Children, item'[i] = "live", i \notin raced'
      PROVE  /\ item'[ParentOf[i]] # "deleted"
             /\ \A o \in CascadeRequests : Takes(cascade[o], i) => WillTake(cascade[o], i)
  <2>1. i \in Items /\ ParentOf[i] \in Items /\ ParentOf[i] # MemberRow
        /\ ParentOf[ParentOf[i]] = MemberRow /\ TableOf[ParentOf[i]] \in {"book", "record"}
    BY ChildOf
  <2>2. item[i] = "live" /\ i \notin c.held /\ i # c.of /\ i \notin raced
    BY <1>1, <1>4, <2>1
  <2>3. /\ item[ParentOf[i]] # "deleted"
        /\ \A o \in CascadeRequests : Takes(cascade[o], i) => WillTake(cascade[o], i)
    BY <2>2 DEF OrphanInv, ChildSafe
  <2>4. ~ Takes(c, i)
    BY <1>1, <2>2, <2>3 DEF WillTake
  <2> HIDE DEF c
  <2>5. ParentOf[i] # c.of
    BY <1>1, <1>2, <2>1, <2>4 DEF Takes
  <2>6. ParentOf[i] \notin c.held
    <3>1. c.op = "cascade"
      BY <1>1, <2>4 DEF Takes
    <3>2. TableOf[c.of] # "member"
      BY <1>2, <3>1 DEF OwnRows
    <3>3. c.of # MemberRow
      BY <3>2, CascadeAssumption
    <3> QED
      BY <1>2, <2>1, <3>1, <3>3 DEF OwnRows
  <2>7. item'[ParentOf[i]] = item[ParentOf[i]]
    BY <1>1, <2>1, <2>5, <2>6
  <2> QED
    BY <2>3, <2>7
<1> QED
  BY <1>3, <1>4, OrphansRows

LEMMA OrphansStep == CascadeInv /\ OrphanInv /\ [CascadeNext]_cascadeVars => OrphanInv'
<1> SUFFICES ASSUME CascadeInv, OrphanInv, [CascadeNext]_cascadeVars PROVE OrphanInv'
  OBVIOUS
<1>1. CASE UNCHANGED cascadeVars
  <2>1. cascade' = cascade /\ item' = item /\ raced' = raced
    BY <1>1 DEF cascadeVars
  <2>2. \A i \in Children :
          item'[i] = "live" /\ i \notin raced' =>
            /\ item'[ParentOf[i]] # "deleted"
            /\ \A r \in CascadeRequests : Takes(cascade[r], i) => WillTake(cascade[r], i)
    BY <2>1 DEF OrphanInv, ChildSafe
  <2> QED
    BY <2>1, <2>2, OrphansRows
<1>2. ASSUME NEW r \in CascadeRequests, NEW i \in Items, StartScrap(r, i) PROVE OrphanInv'
  <2>1. PICK op \in {"create"}, todo \in {<< >>} : Started(r, op, i, todo)
    BY <1>2 DEF StartScrap
  <2>2. op # "cascade" /\ op # "withdraw"
    OBVIOUS
  <2> QED
    BY <2>1, <2>2, OrphansStart
<1>3. ASSUME NEW r \in CascadeRequests, NEW p \in Items, StartDelete(r, p) PROVE OrphanInv'
  <2>1. PICK todo : /\ Started(r, "cascade", p, todo)
                    /\ TableOf[p] = "book" => todo = <<"scrap">>
                    /\ TableOf[p] = "record" => todo = <<"record_scrap">>
    BY <1>3 DEF StartDelete
  <2>2. TableOf[p] \in {"scrap", "book", "record"}
    BY <1>3 DEF StartDelete
  <2>3. ASSUME NEW i \in Children, p = ParentOf[i] PROVE \E n \in DOMAIN todo : todo[n] = TableOf[i]
    <3>1. todo = <<TableOf[i]>>
      BY <2>1, <2>3, ChildOf
    <3> QED
      BY <3>1
  <2> QED
    BY <2>1, <2>2, <2>3, OrphansStart
<1>4. ASSUME NEW r \in CascadeRequests, StartWithdraw(r) PROVE OrphanInv'
  <2> DEFINE todo == <<"scrap", "book", "shelf", "record_scrap", "record", "librarian">>
  <2>1. Started(r, "withdraw", MemberRow, todo)
    BY <1>4 DEF StartWithdraw
  <2>2. \A t \in Tables \ {"member"} : \E n \in DOMAIN todo : todo[n] = t
    BY WithdrawTodo
  <2>3. \A i \in Children : TableOf[i] \in Tables \ {"member"}
    BY ChildOf DEF Tables
  <2> HIDE DEF todo
  <2> QED
    BY <2>1, <2>2, <2>3, CascadeAssumption, OrphansStart
<1>5. ASSUME NEW r \in CascadeRequests, RolledBack(r) PROVE OrphanInv'
  <2>1. cascade' = [cascade EXCEPT ![r] = NoCascade] /\ UNCHANGED <<item, raced>>
    BY <1>5 DEF RolledBack, Done
  <2>2. OwnRows(NoCascade) /\ \A i \in Children : ~ Takes(NoCascade, i)
    BY NoCascadeIsTyped DEF OwnRows, Takes
  <2> QED
    BY <2>1, <2>2, OrphansOneCascade
<1> QED
  BY <1>1, <1>2, <1>3, <1>4, <1>5, OrphansCreate, OrphansInsert, OrphansScan, OrphansTake,
     OrphansCommit DEF CascadeNext

\* Whatever deletions and insertions overlap: a scrap that outlives its book or record came
\* when the deletion had gone through its table (delete_book, delete_record, withdraw_member).
THEOREM OrphansCameLate == CascadeSpec => []OrphansRaced
<1>1. CascadeSpec => []CascadeInv
  BY CascadeInitially, CascadeStep, PTL DEF CascadeSpec
<1>2. OrphanInv => OrphansRaced
  BY DEF OrphanInv, ChildSafe, OrphansRaced
<1> QED
  BY <1>1, <1>2, OrphansInitially, OrphansStep, PTL DEF CascadeSpec

-----------------------------------------------------------------------------
(* Images.                                                                 *)

ImageRequest ==
  [pc : {"idle", "verified", "committed"}, op : {"none", "create", "update", "delete"},
   of : Holders, old : Images \cup {Elsewhere}, new : Images \cup {Elsewhere}]

\* The request is about to make its row name the image anew.
Namer(r, x) ==
  imgreq[r].pc = "verified" /\ imgreq[r].op \in {"create", "update"}
    /\ imgreq[r].new = x /\ imgreq[r].old # x

\* The request has found its row naming the image.
HasOld(r, x) == imgreq[r].pc # "idle" /\ imgreq[r].old = x

\* An image that was named once, and not by a row or request that is still to name it, has one
\* row, and the requests that found it there are about that row.
NamedOnce(x) ==
  /\ \A r, o \in ImageRequests : Namer(r, x) /\ Namer(o, x) => r = o
  /\ \A r \in ImageRequests : Namer(r, x) =>
       /\ object[x] = "stored"
       /\ \A h \in Holders : holder[h].image # x
       /\ \A o \in ImageRequests : ~ HasOld(o, x)
  /\ \A h, k \in Holders : holder[h].image = x /\ holder[k].image = x => h = k
  /\ \A h \in Holders : holder[h].state = "live" /\ holder[h].image = x => object[x] = "stored"
  /\ \A r \in ImageRequests, h \in Holders : HasOld(r, x) /\ holder[h].image = x => imgreq[r].of = h

NeverNamed(x) ==
  /\ \A r \in ImageRequests : ~ Namer(r, x) /\ ~ HasOld(r, x)
  /\ \A h \in Holders : holder[h].image # x

\* What a request's step says of its row.
ImageRequestInv(r) ==
  LET q == imgreq[r]
  IN  /\ q.pc = "verified" /\ q.op = "create" => holder[q.of].state = "none" /\ q.old = Elsewhere
      /\ q.pc = "verified" /\ q.op = "update" => holder[q.of].state # "none"
      /\ q.pc = "verified" /\ q.op = "delete" => holder[q.of].state # "none" /\ q.of # Profile
      /\ q.pc = "committed" => holder[q.of].state # "none"
      /\ q.pc = "committed" /\ q.op = "delete" => holder[q.of].state = "deleted" /\ q.of # Profile
      /\ q.pc # "idle" => q.op # "none"
      /\ q.pc = "committed" /\ q.op = "update" /\ q.of = Profile /\ q.new # q.old /\ q.old \in Images
           => named[q.old] = 2 \/ holder[Profile].image # q.old

ImageTypes ==
  /\ object \in [Images -> {"none", "stored", "bad"}]
  /\ holder \in [Holders -> [state : {"none", "live", "deleted"}, image : Images \cup {Elsewhere}]]
  /\ imgreq \in [ImageRequests -> ImageRequest]
  /\ named \in [Images -> 0 .. 2]

ImageInv ==
  /\ ImageTypes
  /\ \A h \in Holders : holder[h].state = "none" => holder[h].image = Elsewhere
  /\ \A r, o \in ImageRequests :
       /\ imgreq[r].pc = "verified" /\ imgreq[r].op = "create"
       /\ imgreq[o].pc = "verified" /\ imgreq[o].op = "create"
       /\ imgreq[r].of = imgreq[o].of
       => r = o
  /\ \A r \in ImageRequests : ImageRequestInv(r)
  /\ \A x \in Images : (named[x] = 0 => NeverNamed(x)) /\ (named[x] = 1 => NamedOnce(x))

LEMMA ImageIdleIsTyped == ImageIdle \in ImageRequest /\ ImageIdle.pc = "idle"
  BY ImageAssumption DEF ImageIdle, ImageRequest

LEMMA ImageInitially == ImageInit => ImageInv
<1> SUFFICES ASSUME ImageInit PROVE ImageInv
  OBVIOUS
<1>1. ImageTypes
  BY ImageIdleIsTyped, ImageAssumption DEF ImageInit, ImageTypes
<1>2. /\ \A h \in Holders : holder[h].image = Elsewhere
      /\ \A r \in ImageRequests : imgreq[r].pc = "idle"
      /\ \A x \in Images : named[x] = 0
  BY ImageIdleIsTyped DEF ImageInit
<1> QED
  BY <1>1, <1>2, ImageAssumption DEF ImageInv, ImageRequestInv, NeverNamed, Namer, HasOld

\* The image that the request names is counted, if it is an image and not the one it found.
LEMMA NameCounts ==
  ASSUME ImageTypes, NEW x \in Images \cup {Elsewhere}, Name(x), NEW y \in Images
  PROVE  /\ y # x => named'[y] = named[y]
         /\ y = x => /\ named[y] = 0 => named'[y] = 1
                     /\ named[y] # 0 => named'[y] = 2
<1>1. named'[y] = IF y = x THEN Min({2, named[y] + 1}) ELSE named[y]
  BY DEF Name
<1>2. named[y] \in {0, 1, 2}
  BY DEF ImageTypes
<1>3. Min({2, 1}) = 1 /\ Min({2, 2}) = 2 /\ Min({2, 3}) = 2
  BY DEF Min
<1> QED
  BY <1>1, <1>2, <1>3

\* A request begins.  What it names is named anew, or is what its row names already.
LEMMA BeginStep ==
  ASSUME ImageInv, NEW r \in ImageRequests, NEW op \in {"create", "update", "delete"},
         NEW h \in Holders, NEW x \in Images \cup {Elsewhere}, Begins(r, op, h, x),
         op = "create" => /\ holder[h].state = "none"
                          /\ \A o \in ImageRequests : imgreq[o].of = h => imgreq[o].op # "create",
         op = "update" => holder[h].state # "none",
         op = "delete" => holder[h].state # "none" /\ h # Profile,
         \/ Name(x) /\ (x \in Images => object[x] = "stored")
         \/ named' = named /\ (x = holder[h].image \/ op = "delete")
  PROVE  ImageInv'
<1> DEFINE q == [pc |-> "verified", op |-> op, of |-> h, old |-> holder[h].image, new |-> x]
<1>1. /\ imgreq[r].pc = "idle" /\ imgreq' = [imgreq EXCEPT ![r] = q]
      /\ UNCHANGED <<object, holder>>
  BY DEF Begins
<1>2. q \in ImageRequest /\ holder[h].image \in Images \cup {Elsewhere}
  BY DEF ImageRequest, ImageInv, ImageTypes
<1>3. imgreq'[r] = q /\ \A o \in ImageRequests \ {r} : imgreq'[o] = imgreq[o]
  BY <1>1 DEF ImageInv, ImageTypes
<1>4. named' \in [Images -> 0 .. 2]
  <2>1. CASE named' = named
    BY <2>1 DEF ImageInv, ImageTypes
  <2>2. CASE Name(x)
    <3>1. \A y \in Images : named'[y] \in 0 .. 2
      BY <2>2, NameCounts DEF ImageInv, ImageTypes
    <3>2. named' = [y \in Images |-> named'[y]]
      BY <2>2 DEF Name
    <3> QED
      BY <3>1, <3>2
  <2> QED
    BY <2>1, <2>2
<1>5. ImageTypes'
  BY <1>1, <1>2, <1>4 DEF ImageInv, ImageTypes
<1>6. \A y \in Images : named[y] = 2 => named'[y] = 2
  BY NameCounts DEF ImageInv, ImageTypes
<1>7. ASSUME NEW o \in ImageRequests PROVE ImageRequestInv(o)'
  <2>1. CASE o = r
    BY <1>1, <1>3, <2>1 DEF ImageRequestInv, ImageInv
  <2>2. CASE o # r
    <3>1. imgreq'[o] = imgreq[o] /\ ImageRequestInv(o) /\ imgreq[o] \in ImageRequest
      BY <1>3, <2>2 DEF ImageInv, ImageTypes
    <3> QED
      BY <1>1, <1>6, <3>1 DEF ImageRequestInv, ImageRequest
  <2> QED
    BY <2>1, <2>2
<1>8. \A o, p \in ImageRequests :
        /\ imgreq'[o].pc = "verified" /\ imgreq'[o].op = "create"
        /\ imgreq'[p].pc = "verified" /\ imgreq'[p].op = "create"
        /\ imgreq'[o].of = imgreq'[p].of
        => o = p
  BY <1>3 DEF ImageInv
<1>9. ASSUME NEW y \in Images
      PROVE  (named'[y] = 0 => NeverNamed(y)') /\ (named'[y] = 1 => NamedOnce(y)')
  <2>1. \A o \in ImageRequests \ {r} : Namer(o, y)' = Namer(o, y) /\ HasOld(o, y)' = HasOld(o, y)
    BY <1>3 DEF Namer, HasOld
  <2>2. HasOld(r, y)' <=> holder[h].image = y
    BY <1>3 DEF HasOld
  <2>3. Namer(r, y)' => op # "delete" /\ x = y /\ holder[h].image # y
    BY <1>3 DEF Namer
  <2>4. ~ Namer(r, y) /\ ~ HasOld(r, y)
    BY <1>1 DEF Namer, HasOld
  <2>5. CASE named'[y] = 0
    <3>1. named[y] = 0 /\ ~ Namer(r, y)'
      BY <2>3, <2>5, NameCounts DEF ImageInv, ImageTypes
    <3>2. NeverNamed(y)
      BY <3>1 DEF ImageInv
    <3> QED
      BY <1>1, <2>1, <2>2, <2>5, <3>1, <3>2 DEF NeverNamed
  <2>6. CASE named'[y] = 1 /\ named[y] = 0
    <3>1. y = x /\ Name(x) /\ object[y] = "stored"
      BY <2>6, NameCounts DEF ImageInv
    <3>2. NeverNamed(y)
      BY <2>6 DEF ImageInv
    <3> QED
      BY <1>1, <2>1, <2>2, <2>6, <3>1, <3>2 DEF NeverNamed, NamedOnce
  <2>7. CASE named'[y] = 1 /\ named[y] = 1
    <3>1. NamedOnce(y)
      BY <2>7 DEF ImageInv
    <3>2. ~ Namer(r, y)'
      BY <2>3, <2>7, NameCounts DEF ImageInv
    <3>3. imgreq'[r].of = h
      BY <1>3
    <3> HIDE DEF q
    <3> QED
      BY <1>1, <1>3, <2>1, <2>2, <2>7, <3>1, <3>2, <3>3 DEF NamedOnce
  <2>8. named'[y] = 1 => named[y] \in {0, 1}
    BY NameCounts DEF ImageInv, ImageTypes
  <2> QED
    BY <2>5, <2>6, <2>7, <2>8
<1>10. \A k \in Holders : holder'[k].state = "none" => holder'[k].image = Elsewhere
  BY <1>1 DEF ImageInv
<1> QED
  BY <1>5, <1>7, <1>8, <1>9, <1>10 DEF ImageInv

\* Requests end, and objects come and go that no row and no request will name.
LEMMA ObjectsChange ==
  ASSUME ImageInv, NEW ended \in SUBSET ImageRequests,
         imgreq' \in [ImageRequests -> ImageRequest],
         \A r \in ended : imgreq'[r].pc = "idle",
         \A r \in ImageRequests \ ended : imgreq'[r] = imgreq[r],
         UNCHANGED <<holder, named>>, object' \in [Images -> {"none", "stored", "bad"}],
         \A x \in Images : named[x] = 1 /\ object[x] = "stored" /\ object'[x] # "stored" =>
           /\ \A h \in Holders : ~ (holder[h].state = "live" /\ holder[h].image = x)
           /\ \A r \in ImageRequests : ~ Namer(r, x)
  PROVE  ImageInv'
<1>1. ImageTypes'
  BY DEF ImageInv, ImageTypes
<1>2. \A r \in ImageRequests : ImageRequestInv(r)'
  BY DEF ImageInv, ImageRequestInv
<1>3. \A r \in ImageRequests : \A x \in Images :
        (Namer(r, x)' => Namer(r, x)) /\ (HasOld(r, x)' => HasOld(r, x) /\ imgreq'[r] = imgreq[r])
  BY DEF Namer, HasOld
<1>4. ASSUME NEW x \in Images
      PROVE  (named'[x] = 0 => NeverNamed(x)') /\ (named'[x] = 1 => NamedOnce(x)')
  <2>1. CASE named[x] = 0
    BY <1>3, <2>1 DEF ImageInv, NeverNamed
  <2>2. CASE named[x] = 1
    <3>1. NamedOnce(x)
      BY <2>2 DEF ImageInv
    <3> QED
      BY <1>3, <2>2, <3>1 DEF NamedOnce
  <2> QED
    BY <2>1, <2>2
<1> QED
  BY <1>1, <1>2, <1>4 DEF ImageInv

LEMMA ImageCommitStep ==
  ASSUME ImageInv, NEW r \in ImageRequests, ImageCommit(r)
  PROVE  ImageInv'
<1> DEFINE q == imgreq[r]
           h == q.of
           writes == q.op \in {"create", "update"} /\ q.new # q.old
<1>1. /\ q \in ImageRequest /\ q.pc = "verified" /\ h \in Holders /\ q.op # "none"
      /\ ImageRequestInv(r) /\ UNCHANGED <<object, named>>
  BY DEF ImageCommit, ImageInv, ImageTypes, ImageRequest, ImageRequestInv
<1>2. imgreq' \in [ImageRequests -> ImageRequest] /\ imgreq'[r] = [q EXCEPT !.pc = "committed"]
      /\ \A o \in ImageRequests \ {r} : imgreq'[o] = imgreq[o]
  BY DEF ImageCommit, ImageInv, ImageTypes, ImageRequest
<1>3. imgreq'[r].pc = "committed" /\ imgreq'[r].op = q.op /\ imgreq'[r].of = h
      /\ imgreq'[r].old = q.old /\ imgreq'[r].new = q.new
  BY <1>1, <1>2 DEF ImageRequest
<1>4. /\ holder' \in [Holders -> [state : {"none", "live", "deleted"}, image : Images \cup {Elsewhere}]]
      /\ \A k \in Holders \ {h} : holder'[k] = holder[k]
      /\ holder'[h].image = IF writes THEN q.new ELSE holder[h].image
      /\ q.op = "create" => holder'[h].state = "live"
      /\ q.op = "update" => holder'[h].state = holder[h].state
      /\ q.op = "delete" => holder'[h].state = "deleted"
  <2>1. holder \in [Holders -> [state : {"none", "live", "deleted"}, image : Images \cup {Elsewhere}]]
    BY DEF ImageInv, ImageTypes
  <2>2. q.new \in Images \cup {Elsewhere}
    BY <1>1 DEF ImageRequest
  <2>3. CASE q.op = "create"
    <3>1. holder' = [holder EXCEPT ![h] = [state |-> "live", image |-> q.new]]
      BY <2>3 DEF ImageCommit
    <3>2. q.old = Elsewhere /\ holder[h].image = Elsewhere
      BY <1>1, <2>3 DEF ImageRequestInv, ImageInv
    <3> HIDE DEF q
    <3> QED
      BY <1>1, <2>1, <2>2, <2>3, <3>1, <3>2 DEF h
  <2>4. CASE q.op = "update"
    <3>1. holder' = [holder EXCEPT ![h] = [holder[h] EXCEPT !.image = IF q.new # q.old THEN q.new ELSE holder[h].image]]
      BY <1>1, <2>1, <2>4 DEF ImageCommit
    <3> HIDE DEF q
    <3> QED
      BY <1>1, <2>1, <2>2, <2>4, <3>1 DEF h
  <2>5. CASE q.op = "delete"
    <3>1. holder' = [holder EXCEPT ![h] = [holder[h] EXCEPT !.state = "deleted"]]
      BY <1>1, <2>1, <2>5 DEF ImageCommit
    <3> HIDE DEF q
    <3> QED
      BY <1>1, <2>1, <2>2, <2>5, <3>1 DEF h
  <2> QED
    BY <1>1, <2>3, <2>4, <2>5 DEF ImageRequest
<1>5. ImageTypes'
  BY <1>1, <1>2, <1>4 DEF ImageInv, ImageTypes
<1>6. holder'[h].state # "none"
  BY <1>1, <1>4 DEF ImageRequestInv, ImageRequest
<1>7. \A k \in Holders : /\ holder'[k].state = "none" => holder'[k].image = Elsewhere
                         /\ holder[k].state # "none" => holder'[k].state # "none"
                         /\ holder[k].state = "deleted" => holder'[k].state = "deleted"
  BY <1>1, <1>4, <1>6 DEF ImageInv, ImageRequestInv, ImageRequest
<1> HIDE DEF q, h
<1>8. ASSUME NEW x \in Images
      PROVE  (named'[x] = 0 => NeverNamed(x)') /\ (named'[x] = 1 => NamedOnce(x)')
  <2>1. \A o \in ImageRequests \ {r} : Namer(o, x)' = Namer(o, x) /\ HasOld(o, x)' = HasOld(o, x)
    BY <1>2 DEF Namer, HasOld
  <2>2. ~ Namer(r, x)' /\ (HasOld(r, x)' <=> HasOld(r, x)) /\ imgreq'[r].of = h
    BY <1>1, <1>3 DEF Namer, HasOld, q
  <2>3. writes /\ q.new = x => Namer(r, x)
    BY <1>1 DEF Namer, q
  <2>4. \A o \in ImageRequests : imgreq'[o].of = imgreq[o].of
    BY <1>2, <1>3 DEF h, q
  <2>5. CASE named[x] = 0
    <3>1. NeverNamed(x)
      BY <2>5 DEF ImageInv
    <3> QED
      BY <1>1, <1>4, <2>1, <2>2, <2>3, <2>5, <3>1 DEF NeverNamed
  <2>6. CASE named[x] = 1
    <3>1. NamedOnce(x)
      BY <2>6 DEF ImageInv
    <3>2. CASE writes /\ q.new = x
      <4>1. /\ object[x] = "stored" /\ \A k \in Holders : holder[k].image # x
            /\ \A o \in ImageRequests : ~ HasOld(o, x)
            /\ \A o \in ImageRequests \ {r} : ~ Namer(o, x)
        BY <2>3, <3>1, <3>2 DEF NamedOnce
      <4>2. \A k \in Holders : holder'[k].image = x => k = h
        BY <1>4, <4>1
      <4> QED
        BY <1>1, <2>1, <2>2, <2>6, <4>1, <4>2 DEF NamedOnce
    <3>3. CASE ~ (writes /\ q.new = x)
      <4>1. \A k \in Holders : holder'[k].image = x => holder[k].image = x
        BY <1>4, <3>3
      <4>2. \A k \in Holders : holder'[k].state = "live" /\ holder'[k].image = x => object[x] = "stored"
        <5>1. ASSUME NEW k \in Holders, holder'[k].state = "live", holder'[k].image = x
              PROVE  holder[k].state = "live"
          <6>1. holder[k].image = x /\ x # Elsewhere
            BY <4>1, <5>1, ImageAssumption
          <6>2. holder[k].state # "none"
            BY <6>1 DEF ImageInv
          <6>3. holder[k].state # "deleted"
            BY <1>7, <5>1
          <6> QED
            BY <6>2, <6>3 DEF ImageInv, ImageTypes
        <5> QED
          BY <3>1, <4>1, <5>1 DEF NamedOnce
      <4>3. \A o \in ImageRequests : (Namer(o, x)' => Namer(o, x)) /\ (HasOld(o, x)' => HasOld(o, x))
        BY <2>1, <2>2
      <4> QED
        BY <1>1, <2>4, <2>6, <3>1, <4>1, <4>2, <4>3 DEF NamedOnce
    <3> QED
      BY <3>2, <3>3
  <2> QED
    BY <1>1, <2>5, <2>6
<1>9. ASSUME NEW o \in ImageRequests PROVE ImageRequestInv(o)'
  <2>1. CASE o = r
    <3>1. q.op = "update" /\ h = Profile /\ q.new # q.old => holder'[Profile].image # q.old
      BY <1>1, <1>4
    <3>2. q.op = "delete" => h # Profile
      BY <1>1 DEF ImageRequestInv, h, q
    <3> QED
      BY <1>1, <1>3, <1>4, <1>6, <2>1, <3>1, <3>2 DEF ImageRequestInv
  <2>2. CASE o # r
    <3> DEFINE p == imgreq[o]
    <3>1. imgreq'[o] = p /\ ImageRequestInv(o) /\ p \in ImageRequest
      BY <1>2, <2>2 DEF ImageInv, ImageTypes
    <3>2. p.pc = "verified" /\ p.op = "create" => holder'[p.of].state = "none"
      <4>1. CASE p.of # h
        BY <1>4, <3>1, <4>1 DEF ImageRequestInv, ImageRequest
      <4>2. CASE p.of = h /\ p.pc = "verified" /\ p.op = "create"
        <5>1. holder[h].state = "none"
          BY <3>1, <4>2 DEF ImageRequestInv
        <5>2. q.op = "create"
          BY <1>1, <5>1 DEF ImageRequestInv, ImageRequest, q, h
        <5> QED
          BY <1>1, <2>2, <4>2, <5>2 DEF ImageInv, q, h
      <4> QED
        BY <4>1, <4>2
    <3>3. p.of = Profile /\ p.pc = "committed" /\ p.op = "update" /\ p.new # p.old /\ p.old \in Images
            => named'[p.old] = 2 \/ holder'[Profile].image # p.old
      <4> SUFFICES ASSUME p.of = Profile, p.pc = "committed", p.op = "update", p.new # p.old,
                          p.old \in Images, named[p.old] # 2, holder'[Profile].image = p.old
                   PROVE  FALSE
        BY <1>1
      <4>1. holder[Profile].image # p.old
        BY <3>1 DEF ImageRequestInv
      <4>2. h = Profile /\ writes /\ q.new = p.old
        BY <1>4, <4>1, ImageAssumption
      <4>3. Namer(r, p.old) /\ HasOld(o, p.old)
        BY <1>1, <4>2 DEF Namer, HasOld, q
      <4>4. named[p.old] \in {0, 1}
        BY DEF ImageInv, ImageTypes
      <4> QED
        BY <4>3, <4>4 DEF ImageInv, NeverNamed, NamedOnce
    <3> QED
      BY <1>7, <3>1, <3>2, <3>3 DEF ImageRequestInv, ImageRequest
  <2> QED
    BY <2>1, <2>2
<1>10. \A o, p \in ImageRequests :
        /\ imgreq'[o].pc = "verified" /\ imgreq'[o].op = "create"
        /\ imgreq'[p].pc = "verified" /\ imgreq'[p].op = "create"
        /\ imgreq'[o].of = imgreq'[p].of
        => o = p
  <2>1. \A o \in ImageRequests : imgreq'[o].pc = "verified" => imgreq'[o] = imgreq[o]
    BY <1>2, <1>3
  <2> QED
    BY <2>1 DEF ImageInv
<1> QED
  BY <1>5, <1>7, <1>8, <1>9, <1>10 DEF ImageInv

LEMMA DropOldStep ==
  ASSUME ImageInv, NEW r \in ImageRequests, DropOld(r)
  PROVE  ImageInv'
<1> DEFINE q == imgreq[r]
<1>1. q \in ImageRequest /\ q.pc = "committed" /\ ImageRequestInv(r) /\ q.op # "none"
  BY DEF DropOld, ImageInv, ImageTypes, ImageRequestInv
<1>2. PICK gone \in SUBSET Obsolete(r) :
        object' = [x \in Images |-> IF x \in gone THEN "none" ELSE object[x]]
  BY DEF DropOld
<1>3. imgreq' \in [ImageRequests -> ImageRequest] /\ imgreq'[r].pc = "idle"
      /\ \A o \in ImageRequests \ {r} : imgreq'[o] = imgreq[o]
  BY ImageIdleIsTyped DEF DropOld, ImageInv, ImageTypes
<1>4. UNCHANGED <<holder, named>> /\ object' \in [Images -> {"none", "stored", "bad"}]
  BY <1>2 DEF DropOld, ImageInv, ImageTypes
<1>5. ASSUME NEW x \in Images, named[x] = 1, x \in Obsolete(r)
      PROVE  /\ \A h \in Holders : ~ (holder[h].state = "live" /\ holder[h].image = x)
             /\ \A o \in ImageRequests : ~ Namer(o, x)
  <2>1. q.old = x /\ HasOld(r, x)
    BY <1>1, <1>5 DEF Obsolete, HasOld
  <2>2. NamedOnce(x)
    BY <1>5 DEF ImageInv
  <2>3. \A o \in ImageRequests : ~ Namer(o, x)
    BY <2>1, <2>2 DEF NamedOnce
  <2>4. ASSUME NEW h \in Holders, holder[h].state = "live", holder[h].image = x PROVE FALSE
    <3>1. h = q.of
      BY <2>1, <2>2, <2>4 DEF NamedOnce
    <3>2. CASE q.op = "create"
      BY <1>5, <2>1, <3>2 DEF Obsolete
    <3>3. CASE q.op = "delete"
      BY <1>1, <2>4, <3>1, <3>3 DEF ImageRequestInv
    <3>4. CASE q.op = "update" /\ q.of # Profile
      BY <1>5, <2>1, <2>4, <3>1, <3>4 DEF Obsolete
    <3>5. CASE q.op = "update" /\ q.of = Profile
      <4>1. q.new # q.old
        BY <1>5, <2>1, <3>5 DEF Obsolete
      <4> QED
        BY <1>1, <1>5, <2>1, <2>4, <3>1, <3>5, <4>1 DEF ImageRequestInv
    <3> QED
      BY <1>1, <3>2, <3>3, <3>4, <3>5 DEF ImageRequest
  <2> QED
    BY <2>3, <2>4
<1>6. \A x \in Images : named[x] = 1 /\ object[x] = "stored" /\ object'[x] # "stored" =>
        /\ \A h \in Holders : ~ (holder[h].state = "live" /\ holder[h].image = x)
        /\ \A o \in ImageRequests : ~ Namer(o, x)
  BY <1>2, <1>5
<1> QED
  BY <1>3, <1>4, <1>6, ObjectsChange, {r} \in SUBSET ImageRequests

LEMMA ImageStep == ImageInv /\ [ImageNext]_imageVars => ImageInv'
<1> SUFFICES ASSUME ImageInv, [ImageNext]_imageVars PROVE ImageInv'
  OBVIOUS
<1>0. /\ holder \in [Holders -> [state : {"none", "live", "deleted"}, image : Images \cup {Elsewhere}]]
      /\ imgreq \in [ImageRequests -> ImageRequest]
      /\ object \in [Images -> {"none", "stored", "bad"}]
  BY DEF ImageInv, ImageTypes
<1>1. CASE UNCHANGED imageVars
  BY <1>1, {} \in SUBSET ImageRequests, <1>0, ObjectsChange DEF imageVars
<1>2. ASSUME NEW x \in Images, Upload(x) \/ \E h \in Holders : VerifyRejects(h, x) PROVE ImageInv'
  <2>1. UNCHANGED <<holder, imgreq, named>> /\ object[x] # "stored"
    BY <1>2 DEF Upload, VerifyRejects
  <2>2. PICK sort \in {"none", "stored", "bad"} : object' = [object EXCEPT ![x] = sort]
    BY <1>2 DEF Upload, VerifyRejects
  <2>3. object' \in [Images -> {"none", "stored", "bad"}] /\ \A y \in Images : object[y] = "stored" => object'[y] = "stored"
    BY <1>0, <2>1, <2>2
  <2> QED
    BY <1>0, <2>1, <2>3, {} \in SUBSET ImageRequests, ObjectsChange
<1>3. ASSUME NEW r \in ImageRequests, NEW h \in Holders, NEW x \in Images \cup {Elsewhere},
             BeginCreate(r, h, x)
      PROVE  ImageInv'
  <2>1. x \in Images => object[x] = "stored"
    BY <1>3, ImageAssumption DEF BeginCreate, Verified
  <2> QED
    BY <1>3, <2>1, BeginStep DEF BeginCreate
<1>4. ASSUME NEW r \in ImageRequests, NEW h \in Holders, NEW x \in Images \cup {Elsewhere},
             BeginUpdate(r, h, x)
      PROVE  ImageInv'
  <2>1. holder[h].state # "none" /\ Begins(r, "update", h, x)
    BY <1>4 DEF BeginUpdate
  <2>2. CASE x = holder[h].image
    <3>1. named' = named
      BY <1>4, <2>2 DEF BeginUpdate
    <3> QED
      BY <2>1, <2>2, <3>1, BeginStep
  <2>3. CASE x # holder[h].image
    <3>1. Name(x) /\ (x \in Images => object[x] = "stored")
      BY <1>4, <2>3, ImageAssumption DEF BeginUpdate, Verified
    <3> QED
      BY <2>1, <3>1, BeginStep
  <2> QED
    BY <2>2, <2>3
<1>5. ASSUME NEW r \in ImageRequests, NEW h \in Holders, BeginDelete(r, h) PROVE ImageInv'
  <2>1. holder[h].state # "none" /\ h # Profile /\ Begins(r, "delete", h, Elsewhere) /\ named' = named
    BY <1>5 DEF BeginDelete
  <2> QED
    BY <2>1, BeginStep
<1>6. ASSUME NEW r \in ImageRequests, ImageDies(r) PROVE ImageInv'
  <2>1. /\ UNCHANGED <<object, holder, named>> /\ imgreq' = [imgreq EXCEPT ![r] = ImageIdle]
    BY <1>6 DEF ImageDies
  <2>2. imgreq' \in [ImageRequests -> ImageRequest] /\ imgreq'[r].pc = "idle"
        /\ \A o \in ImageRequests \ {r} : imgreq'[o] = imgreq[o]
    BY <1>0, <2>1, ImageIdleIsTyped
  <2> QED
    BY <1>0, <2>1, <2>2, {r} \in SUBSET ImageRequests, ObjectsChange
<1> QED
  BY <1>1, <1>2, <1>3, <1>4, <1>5, <1>6, ImageCommitStep, DropOldStep DEF ImageNext

\* Whatever rows, uploads and failed deletions overlap: as long as an upload is named once,
\* the living row that names it finds it (update_scrap, update_book, update_profile, delete_*).
THEOREM NamedImagesAreThere == ImageSpec => []DanglingOnlyIfReused
<1>1. ImageInv => DanglingOnlyIfReused
  <2> SUFFICES ASSUME ImageInv, NEW h \in Holders, holder[h].state = "live",
                      holder[h].image # Elsewhere, named[holder[h].image] = 1
               PROVE  object[holder[h].image] = "stored"
    BY DEF DanglingOnlyIfReused
  <2>1. holder[h].image \in Images
    BY DEF ImageInv, ImageTypes
  <2> QED
    BY <2>1 DEF ImageInv, NamedOnce
<1> QED
  BY ImageInitially, ImageStep, <1>1, PTL DEF ImageSpec

-----------------------------------------------------------------------------
(* The demo account's books.                                               *)

\* f[1 .. n] is what n steps make of base, one element after the other.
FoldsOver(n, Acc, base, step, f) ==
  /\ f \in [SUBSET (1 .. n) -> Acc] /\ f[{}] = base
  /\ \A S \in SUBSET (1 .. n) : S # {} =>
       Max(S) \in S /\ f[S] = step[<<f[S \ {Max(S)}], Max(S)>>]

\* The function with which the library folds exists.
LEMMA FoldExists ==
  ASSUME NEW n \in Nat, NEW Acc, NEW base \in Acc, NEW step \in [Acc \X (1 .. n) -> Acc]
  PROVE  \E f : FoldsOver(n, Acc, base, step, f)
<1> DEFINE Folds(f, m) == FoldsOver(m, Acc, base, step, f)
           Bad == {m \in 0 .. n : ~ \E f : Folds(f, m)}
<1> USE DEF FoldsOver
<1>1. SUFFICES ASSUME Bad # {} PROVE FALSE
  <2>1. n \in 0 .. n
    OBVIOUS
  <2> HIDE DEF Folds
  <2>2. Bad = {} => \E f : Folds(f, n)
    BY <2>1
  <2> USE DEF Folds
  <2>3. QED
    BY <2>2
<1>2. Bad \in SUBSET Nat
  OBVIOUS
<1> DEFINE m == Min(Bad)
<1>3. m \in Bad
  BY <1>1, <1>2, LeastOf
<1>4. \A k \in Bad : m <= k
  <2>1. \E least \in Bad : \A k \in Bad : least <= k
    BY <1>1, <1>2, LeastExists
  <2>2. QED
    BY <2>1, Zenon DEF Min
<1> HIDE DEF m
<1>5. m \in 0 .. n /\ ~ \E f : Folds(f, m)
  BY <1>3
<1>6. m # 0
  <2> DEFINE f == [S \in {{}} |-> base]
  <2>1. 1 .. 0 = {} /\ SUBSET {} = {{}}
    OBVIOUS
  <2>2. f \in [{{}} -> Acc] /\ f[{}] = base
    OBVIOUS
  <2> HIDE DEF f
  <2>3. f \in [SUBSET (1 .. 0) -> Acc] /\ \A S \in SUBSET (1 .. 0) : S = {}
    BY <2>1, <2>2
  <2>4. Folds(f, 0)
    BY <2>2, <2>3
  <2>5. QED
    BY <1>5, <2>4
<1>7. PICK g : Folds(g, m - 1)
  <2>1. m - 1 \in 0 .. n /\ ~ (m <= m - 1)
    BY <1>5, <1>6
  <2>2. m - 1 \notin Bad
    BY <1>4, <2>1
  <2>3. QED
    BY <2>1, <2>2
<1>8. m \in 1 .. n
  BY <1>5, <1>6
<1> DEFINE f == [S \in SUBSET (1 .. m) |-> IF m \in S THEN step[<<g[S \ {m}], m>>] ELSE g[S]]
<1>9. /\ \A S \in SUBSET (1 .. m) : S \ {m} \in SUBSET (1 .. m - 1)
      /\ \A S \in SUBSET (1 .. m - 1) : S \in SUBSET (1 .. m) /\ m \notin S
      /\ \A S \in SUBSET (1 .. m) : m \notin S => S \in SUBSET (1 .. m - 1)
  BY <1>8
<1>10. \A S \in SUBSET (1 .. m - 1) : g[S] \in Acc /\ f[S] = g[S]
  BY <1>7, <1>9
<1>11. f \in [SUBSET (1 .. m) -> Acc]
  <2>1. ASSUME NEW S \in SUBSET (1 .. m)
        PROVE  (IF m \in S THEN step[<<g[S \ {m}], m>>] ELSE g[S]) \in Acc
    <3>1. CASE m \in S
      <4>1. g[S \ {m}] \in Acc
        BY <1>9, <1>10
      <4>2. step[<<g[S \ {m}], m>>] \in Acc
        BY <1>8, <4>1
      <4>3. QED
        BY <3>1, <4>2
    <3>2. CASE m \notin S
      BY <1>9, <1>10, <3>2
    <3>3. QED
      BY <3>1, <3>2
  <2>2. QED
    BY <2>1
<1>12. f[{}] = base
  <2>1. {} \in SUBSET (1 .. m - 1)
    OBVIOUS
  <2>2. QED
    BY <1>7, <1>10, <2>1
<1>13. ASSUME NEW S \in SUBSET (1 .. m), S # {}
       PROVE  Max(S) \in S /\ f[S] = step[<<f[S \ {Max(S)}], Max(S)>>]
  <2>1. CASE m \in S
    <3>1. \A x \in S : (\A y \in S : x >= y) <=> x = m
      BY <1>8, <2>1
    <3>2. Max(S) = m
      BY <2>1, <3>1 DEF Max
    <3>3. f[S] = step[<<g[S \ {m}], m>>] /\ f[S \ {m}] = g[S \ {m}]
      BY <1>9, <1>10, <2>1
    <3> HIDE DEF f
    <3>4. QED
      BY <2>1, <3>2, <3>3
  <2>2. CASE m \notin S
    <3>1. S \in SUBSET (1 .. m - 1) /\ S \ {Max(S)} \in SUBSET (1 .. m - 1)
      BY <1>9, <2>2
    <3>2. Max(S) \in S /\ g[S] = step[<<g[S \ {Max(S)}], Max(S)>>]
      BY <1>7, <1>13, <3>1
    <3>3. f[S] = g[S] /\ f[S \ {Max(S)}] = g[S \ {Max(S)}]
      BY <1>10, <3>1
    <3> HIDE DEF f
    <3>4. QED
      BY <3>2, <3>3
  <2>3. QED
    BY <2>1, <2>2
<1> HIDE DEF f
<1>14. Folds(f, m)
  BY <1>11, <1>12, <1>13
<1>15. QED
  BY <1>5, <1>14

\* What holds of the base, and after each element if before, holds in the end.
LEMMA FoldStays ==
  ASSUME NEW n \in Nat, NEW Acc, NEW h, h[{}] \in Acc,
         \A S \in SUBSET (1 .. n) : S # {} /\ h[S \ {Max(S)}] \in Acc => h[S] \in Acc
  PROVE  h[1 .. n] \in Acc
<1> DEFINE Bad == {m \in 0 .. n : h[1 .. m] \notin Acc}
<1>1. SUFFICES ASSUME Bad # {} PROVE FALSE
  <2>1. n \in 0 .. n
    OBVIOUS
  <2>2. QED
    BY <2>1
<1>2. PICK m \in Bad : \A k \in Bad : m <= k
  <2>1. Bad \in SUBSET Nat
    OBVIOUS
  <2>2. QED
    BY <1>1, <2>1, LeastExists
<1>3. m \in 0 .. n /\ h[1 .. m] \notin Acc
  OBVIOUS
<1>4. m # 0
  <2>1. 1 .. 0 = {}
    OBVIOUS
  <2>2. QED
    BY <1>3, <2>1
<1>5. h[1 .. m - 1] \in Acc
  <2>1. m - 1 \in 0 .. n /\ ~ (m <= m - 1)
    BY <1>3, <1>4
  <2>2. m - 1 \notin Bad
    BY <1>2, <2>1
  <2>3. QED
    BY <2>1, <2>2
<1>6. Max(1 .. m) = m
  <2>1. \A x \in 1 .. m : (\A y \in 1 .. m : x >= y) <=> x = m
    BY <1>3, <1>4
  <2>2. m \in 1 .. m
    BY <1>3, <1>4
  <2>3. QED
    BY <2>1, <2>2 DEF Max
<1>7. (1 .. m) \ {m} = 1 .. m - 1 /\ 1 .. m \in SUBSET (1 .. n) /\ 1 .. m # {}
  BY <1>3, <1>4
<1>8. h[1 .. m] \in Acc
  BY <1>5, <1>6, <1>7
<1>9. QED
  BY <1>3, <1>8

\* The function with which FoldLeft(Kept, << >>, rows) is computed.
KeptFrom(rows, f) ==
  f = [S \in SUBSET DOMAIN rows |->
         IF S = {} THEN << >> ELSE LET x == Max(S) IN Kept(f[S \ {x}], rows[x])]

\* What the loop of the reset keeps are rows of seeds.
LEMMA KeptAreSeeds ==
  ASSUME NEW E, NEW rows \in Seq(E)
  PROVE  FoldLeft(Kept, << >>, rows) \in Seq({row \in E : row.isbn \in Seeds})
<1> DEFINE n == Len(rows)
           Acc == Seq({row \in E : row.isbn \in Seeds})
           step == [p \in Acc \X (1 .. n) |-> Kept(p[1], rows[p[2]])]
<1>1. n \in Nat /\ DOMAIN rows = 1 .. n /\ \A i \in 1 .. n : rows[i] \in E
  BY LenProperties, ElementOfSeq
<1>2. << >> \in Acc
  BY EmptySeq
<1>3. \A kept \in Acc : \A i \in 1 .. n : Kept(kept, rows[i]) \in Acc
  <2> SUFFICES ASSUME NEW kept \in Acc, NEW i \in 1 .. n PROVE Kept(kept, rows[i]) \in Acc
    OBVIOUS
  <2>1. CASE rows[i].isbn \in Seeds
    <3> DEFINE D == {row \in E : row.isbn \in Seeds}
    <3>1. rows[i] \in D
      BY <1>1, <2>1
    <3>2. kept \in Seq(D)
      OBVIOUS
    <3> HIDE DEF D
    <3>3. Append(kept, rows[i]) \in Seq(D)
      BY <3>1, <3>2, AppendProperties
    <3>4. QED
      BY <2>1, <3>3 DEF Kept, D
  <2>2. CASE rows[i].isbn \notin Seeds
    BY <2>2 DEF Kept
  <2>3. QED
    BY <2>1, <2>2
<1> HIDE DEF n, Acc
<1>4. step \in [Acc \X (1 .. n) -> Acc]
  BY <1>3
<1> HIDE DEF step
<1>5. PICK f : FoldsOver(n, Acc, << >>, step, f)
  BY <1>1, <1>2, <1>4, FoldExists
<1> USE DEF FoldsOver
<1>6. KeptFrom(rows, f)
  <2>1. f = [S \in SUBSET (1 .. n) |-> f[S]]
    BY <1>5
  <2>2. ASSUME NEW S \in SUBSET (1 .. n)
        PROVE  f[S] = IF S = {} THEN << >> ELSE Kept(f[S \ {Max(S)}], rows[Max(S)])
    <3>1. CASE S = {}
      BY <1>5, <3>1
    <3>2. CASE S # {}
      <4> DEFINE x == Max(S)
      <4>1. x \in 1 .. n /\ S \ {x} \in SUBSET (1 .. n) /\ f[S] = step[<<f[S \ {x}], x>>]
        BY <1>5, <3>2
      <4> HIDE DEF x
      <4>2. f[S \ {x}] \in Acc
        BY <1>5, <4>1
      <4>3. step[<<f[S \ {x}], x>>] = Kept(f[S \ {x}], rows[x])
        BY <4>1, <4>2 DEF step
      <4>4. QED
        BY <3>2, <4>1, <4>3 DEF x
    <3>3. QED
      BY <3>1, <3>2
  <2>3. QED
    BY <1>1, <2>1, <2>2, Zenon DEF KeptFrom
<1> DEFINE h == CHOOSE g : KeptFrom(rows, g)
<1>7. KeptFrom(rows, h)
  BY <1>6
<1>8. FoldLeft(Kept, << >>, rows) = h[DOMAIN rows]
  BY Zenon DEF FoldLeft, MapThenFoldSet, KeptFrom
<1> HIDE DEF h
<1>9. h[{}] \in Acc
  <2>1. {} \in SUBSET DOMAIN rows
    OBVIOUS
  <2>2. h[{}] = << >>
    BY <1>7, <2>1 DEF KeptFrom
  <2>3. QED
    BY <1>2, <2>2
<1>10. ASSUME NEW S \in SUBSET (1 .. n), S # {}, h[S \ {Max(S)}] \in Acc
       PROVE  h[S] \in Acc
  <2>1. h[S] = Kept(h[S \ {Max(S)}], rows[Max(S)])
    BY <1>1, <1>7, <1>10, Zenon DEF KeptFrom
  <2>2. Max(S) \in 1 .. n
    BY <1>5, <1>10
  <2>3. QED
    BY <1>3, <1>10, <2>1, <2>2
<1>11. h[1 .. n] \in Acc
  BY <1>1, <1>9, <1>10, FoldStays
<1>12. QED
  BY <1>1, <1>8, <1>11 DEF Acc

KeyProofs == INSTANCE ShelfRankProofs WITH BASE <- KeyBase, MAX_LENGTH <- 128

DemoKeys == Seq(0 .. KeyBase - 1)

DemoRow == [isbn : Isbns, state : {"live", "deleted"}, key : DemoKeys, extra : BOOLEAN]

\* The keys of the seeds are keys.
LEMMA SeedKeys ==
  ASSUME NEW count \in Nat, NEW i \in 1 .. count
  PROVE  Key!RebalancedSequence(count)[i] \in DemoKeys
<1> DEFINE d == KeyProofs!DigitCount(count)
           places == KeyProofs!Capacity[d]
           x == (i * places) \div (count + 1)
<1>1. KeyBase \in Nat /\ KeyBase >= 2 /\ 128 \in Nat \ {0} /\ count \in Nat \ {0}
  BY DemoAssumption
<1>2. d \in 1 .. 4 * count /\ places >= 4 * count
  BY <1>1, KeyProofs!DigitCountIs
<1>3. d \in Nat
  BY <1>1, <1>2
<1> HIDE DEF d
<1>4. places \in Nat
  BY <1>1, <1>3, KeyProofs!CapacityGrows
<1> HIDE DEF places
<1>5. x \in Nat \ {0} /\ x < places
  BY <1>1, <1>2, <1>4, KeyProofs!Spread
<1> HIDE DEF x
<1>6. PICK l \in 1 .. d :
        /\ KeyProofs!ToKey(x, d) = [j \in 1 .. l |-> KeyProofs!DigitOf(x, d, j)]
        /\ KeyProofs!DigitOf(x, d, l) # 0
        /\ \A j \in l + 1 .. d : KeyProofs!DigitOf(x, d, j) = 0
  <2>1. x < KeyProofs!Capacity[d]
    BY <1>5 DEF places
  <2>2. QED
    BY <1>1, <1>3, <1>5, <2>1, KeyProofs!ToKeyIs
<1>7. ASSUME NEW j \in 1 .. l PROVE KeyProofs!DigitOf(x, d, j) \in 0 .. KeyBase - 1
  <2>1. j \in 1 .. d /\ x \in Nat
    BY <1>3, <1>5
  <2>2. QED
    BY <1>1, <1>3, <2>1, KeyProofs!LeadingGrows
<1>8. KeyProofs!ToKey(x, d) \in DemoKeys
  BY <1>3, <1>6, <1>7 DEF DemoKeys
<1>9. Key!RebalancedSequence(count) = KeyProofs!RebalancedSequence(count)
  BY Zenon DEF KeyProofs!Capacity, Key!Capacity, KeyProofs!RebalancedSequence,
     Key!RebalancedSequence, KeyProofs!DigitCount, Key!DigitCount, KeyProofs!ToKey, Key!ToKey
<1>10. KeyProofs!RebalancedSequence(count)[i] = KeyProofs!ToKey(x, d)
  BY DEF KeyProofs!RebalancedSequence, x, places, d
<1>11. QED
  BY <1>8, <1>9, <1>10

\* The key after a key is a key.
LEMMA KeyAfter ==
  ASSUME NEW k \in DemoKeys, Key!HasRoom(k, Key!None)
  PROVE  Key!After(k) \in DemoKeys
<1> DEFINE x == CHOOSE n \in 1 .. 128 : Key!StopsAt(k, Key!None, n)
           low == Key!DigitAt(k, x)
           mid == low + (KeyBase - low) \div 2
<1>1. KeyBase \in Nat /\ KeyBase >= 2
  BY DemoAssumption
<1>2. \A n : ~ Key!Agree(k, Key!None, n)
  BY DEF Key!Agree
<1>3. x \in 1 .. 128 /\ Key!StopsAt(k, Key!None, x)
  BY Zenon DEF Key!HasRoom
<1>4. Key!After(k) = [i \in 1 .. x |-> IF i < x THEN Key!DigitAt(k, i) ELSE mid]
  <2>1. Key!Gap(k, Key!None, x) = KeyBase - low
    BY <1>2 DEF Key!Gap
  <2>2. Key!After(k) = [i \in 1 .. x |-> IF i < x THEN Key!DigitAt(k, i)
                                        ELSE low + Key!Gap(k, Key!None, x) \div 2]
    BY Zenon DEF Key!After, Key!Between
  <2> HIDE DEF low
  <2>3. QED
    BY <2>1, <2>2
<1> HIDE DEF x
<1>5. \A i \in 1 .. x : Key!DigitAt(k, i) \in 0 .. KeyBase - 1
  BY <1>1, <1>3 DEF Key!DigitAt, DemoKeys
<1>6. low \in 0 .. KeyBase - 1 /\ KeyBase - low > 1
  BY <1>2, <1>3, <1>5 DEF Key!StopsAt, Key!Gap
<1> HIDE DEF low
<1>7. mid \in 0 .. KeyBase - 1
  BY <1>1, <1>6
<1> HIDE DEF mid
<1>8. QED
  BY <1>3, <1>4, <1>5, <1>7 DEF DemoKeys

LEMMA NextKeysTyped ==
  ASSUME shelved \in Seq(DemoRow)
  PROVE  NextKeys \subseteq DemoKeys
<1>1. \A i \in LiveRows(shelved) : shelved[i].key \in DemoKeys
  <2>1. \A i \in DOMAIN shelved : shelved[i] \in DemoRow
    <3> HIDE DEF DemoRow
    <3>1. QED
      BY LenProperties, ElementOfSeq
  <2>2. QED
    BY <2>1 DEF LiveRows, DemoRow
<1>2. Key!Initial \in DemoKeys
  <2>1. KeyBase \div 2 \in 0 .. KeyBase - 1
    BY DemoAssumption
  <2>2. QED
    BY <2>1 DEF Key!Initial, DemoKeys
<1>3. QED
  BY <1>1, <1>2, KeyAfter, Zenon DEF NextKeys

SeededRow == {row \in DemoRow : row.isbn \in Seeds /\ row.state = "live" /\ ~ row.extra}

LEMMA SeedRowIsTyped ==
  ASSUME NEW isbn \in Isbns, NEW key \in DemoKeys
  PROVE  /\ SeedRow(isbn, key) \in DemoRow /\ SeedRow(isbn, key).isbn = isbn
         /\ SeedRow(isbn, key).state = "live" /\ ~ SeedRow(isbn, key).extra
  BY DEF SeedRow, DemoRow

\* Fresh rows are one live row, without a visitor's scraps, for each of the seeds.
LEMMA FreshIs ==
  ASSUME NEW isbns \in SUBSET Seeds, NEW fresh \in FreshRows(isbns)
  PROVE  /\ fresh \in Seq(SeededRow)
         /\ \A isbn \in isbns : \E i \in DOMAIN fresh : fresh[i].isbn = isbn
<1> DEFINE n == Cardinality(isbns)
           key(i) == Key!RebalancedSequence(n)[i]
<1>1. n \in Nat
  BY DemoAssumption, FS_Subset, FS_CardinalityType
<1>2. PICK s \in [1 .. n -> isbns] :
        /\ {s[i] : i \in DOMAIN s} = isbns
        /\ fresh = [i \in 1 .. n |-> SeedRow(s[i], key(i))]
  BY DEF FreshRows
<1> HIDE DEF n
<1>3. \A i \in 1 .. n : SeedRow(s[i], key(i)) \in SeededRow /\ SeedRow(s[i], key(i)).isbn = s[i]
  <2> SUFFICES ASSUME NEW i \in 1 .. n
               PROVE  SeedRow(s[i], key(i)) \in SeededRow /\ SeedRow(s[i], key(i)).isbn = s[i]
    OBVIOUS
  <2>1. s[i] \in Seeds /\ s[i] \in Isbns /\ key(i) \in DemoKeys
    BY <1>1, SeedKeys DEF Isbns
  <2> HIDE DEF key
  <2>2. QED
    BY <2>1, SeedRowIsTyped DEF SeededRow
<1> HIDE DEF key
<1>4. fresh \in Seq(SeededRow)
  BY <1>1, <1>2, <1>3
<1>5. ASSUME NEW isbn \in isbns PROVE \E i \in DOMAIN fresh : fresh[i].isbn = isbn
  <2>1. PICK i \in 1 .. n : s[i] = isbn
    BY <1>2
  <2>2. i \in DOMAIN fresh /\ fresh[i] = SeedRow(s[i], key(i))
    BY <1>2
  <2>3. QED
    BY <1>3, <2>1, <2>2
<1>6. QED
  BY <1>4, <1>5

LEMMA SeededRows == Seq(SeededRow) \subseteq Seq(DemoRow)
<1>1. SeededRow \subseteq DemoRow
  BY DEF SeededRow
<1>2. QED
  BY <1>1, SeqMonotonic

\* What the seeding makes of the rows, unless the indexes have refused one.
LEMMA SeededIsTyped ==
  ASSUME NEW rows \in Seq(DemoRow) \cup {Refused}, NEW seed \in DemoRow
  PROVE  Seeded(rows, seed) \in Seq(DemoRow) \cup {Refused}
<1> DEFINE same == {i \in DOMAIN rows : rows[i].isbn = seed.isbn}
           old == CHOOSE i \in same : TRUE
           new == [seed EXCEPT !.extra = rows[old].extra]
           next == IF same = {} THEN Append(rows, seed) ELSE [rows EXCEPT ![old] = new]
<1>1. ASSUME rows \in Seq(DemoRow) PROVE next \in Seq(DemoRow)
  <2>1. CASE same = {}
    <3>1. Append(rows, seed) \in Seq(DemoRow)
      BY <1>1, AppendProperties
    <3>2. QED
      BY <2>1, <3>1
  <2>2. CASE same # {}
    <3>1. old \in same
      BY <2>2
    <3> HIDE DEF old
    <3>2. old \in 1 .. Len(rows)
      BY <1>1, <3>1, LenProperties
    <3>3. rows[old] \in DemoRow
      BY <1>1, <3>2, ElementOfSeq
    <3>4. new \in DemoRow
      BY <3>3 DEF DemoRow
    <3> HIDE DEF new, same
    <3>5. [rows EXCEPT ![old] = new] \in Seq(DemoRow)
      BY <1>1, <3>2, <3>4, ExceptSeq
    <3>6. QED
      BY <2>2, <3>5
  <2>3. QED
    BY <2>1, <2>2
<1>2. Seeded(rows, seed) = IF rows # Refused /\ Unique(next) THEN next ELSE Refused
  BY Zenon DEF Seeded
<1> HIDE DEF next
<1>3. CASE rows # Refused
  BY <1>1, <1>2, <1>3, Zenon
<1>4. CASE rows = Refused
  BY <1>2, <1>4, Zenon
<1>5. QED
  BY <1>3, <1>4

\* The function with which FoldLeft(Seeded, before, seeds) is computed.
SeededFrom(before, seeds, f) ==
  f = [S \in SUBSET DOMAIN seeds |->
         IF S = {} THEN before ELSE LET x == Max(S) IN Seeded(f[S \ {x}], seeds[x])]

LEMMA ScriptIsTyped ==
  ASSUME NEW before \in Seq(DemoRow), NEW seeds \in Seq(DemoRow)
  PROVE  FoldLeft(Seeded, before, seeds) \in Seq(DemoRow) \cup {Refused}
<1> DEFINE n == Len(seeds)
           Acc == Seq(DemoRow) \cup {Refused}
           step == [p \in Acc \X (1 .. n) |-> Seeded(p[1], seeds[p[2]])]
<1>1. n \in Nat /\ DOMAIN seeds = 1 .. n /\ \A i \in 1 .. n : seeds[i] \in DemoRow
  BY LenProperties, ElementOfSeq
<1>2. \A rows \in Acc : \A i \in 1 .. n : Seeded(rows, seeds[i]) \in Acc
  BY <1>1, SeededIsTyped
<1>3. before \in Acc
  OBVIOUS
<1> HIDE DEF n, Acc
<1>4. step \in [Acc \X (1 .. n) -> Acc]
  BY <1>2
<1> HIDE DEF step
<1>5. PICK f : FoldsOver(n, Acc, before, step, f)
  BY <1>1, <1>3, <1>4, FoldExists
<1> USE DEF FoldsOver
<1>6. SeededFrom(before, seeds, f)
  <2>1. f = [S \in SUBSET (1 .. n) |-> f[S]]
    BY <1>5
  <2>2. ASSUME NEW S \in SUBSET (1 .. n)
        PROVE  f[S] = IF S = {} THEN before ELSE Seeded(f[S \ {Max(S)}], seeds[Max(S)])
    <3>1. CASE S = {}
      BY <1>5, <3>1
    <3>2. CASE S # {}
      <4> DEFINE x == Max(S)
      <4>1. x \in 1 .. n /\ S \ {x} \in SUBSET (1 .. n) /\ f[S] = step[<<f[S \ {x}], x>>]
        BY <1>5, <3>2
      <4> HIDE DEF x
      <4>2. f[S \ {x}] \in Acc
        BY <1>5, <4>1
      <4>3. step[<<f[S \ {x}], x>>] = Seeded(f[S \ {x}], seeds[x])
        BY <4>1, <4>2 DEF step
      <4>4. QED
        BY <3>2, <4>1, <4>3 DEF x
    <3>3. QED
      BY <3>1, <3>2
  <2>3. QED
    BY <1>1, <2>1, <2>2, Zenon DEF SeededFrom
<1> DEFINE h == CHOOSE g : SeededFrom(before, seeds, g)
<1>7. SeededFrom(before, seeds, h)
  BY <1>6
<1>8. FoldLeft(Seeded, before, seeds) = h[DOMAIN seeds]
  BY Zenon DEF FoldLeft, MapThenFoldSet, SeededFrom
<1> HIDE DEF h
<1>9. h[{}] \in Acc
  <2>1. {} \in SUBSET DOMAIN seeds
    OBVIOUS
  <2>2. h[{}] = before
    BY <1>7, <2>1 DEF SeededFrom
  <2>3. QED
    BY <1>3, <2>2
<1>10. ASSUME NEW S \in SUBSET (1 .. n), S # {}, h[S \ {Max(S)}] \in Acc
       PROVE  h[S] \in Acc
  <2>1. h[S] = Seeded(h[S \ {Max(S)}], seeds[Max(S)])
    BY <1>1, <1>7, <1>10, Zenon DEF SeededFrom
  <2>2. Max(S) \in 1 .. n
    BY <1>5, <1>10
  <2>3. QED
    BY <1>2, <1>10, <2>1, <2>2
<1>11. h[1 .. n] \in Acc
  BY <1>1, <1>9, <1>10, FoldStays
<1>12. QED
  BY <1>1, <1>8, <1>11 DEF Acc

\* What ResetRestores says of the rows.
RestoredRows(rows) ==
  /\ \A isbn \in Seeds : Cardinality({i \in LiveRows(rows) : rows[i].isbn = isbn}) = 1
  /\ \A i \in LiveRows(rows) : rows[i].isbn \in Seeds /\ ~ rows[i].extra
  /\ Unique(rows)

\* Each row in the list is one that was there, revived, or a fresh one; so no seed is missing,
\* and the indexes keep it from being there twice.
LEMMA ResetIsWhole ==
  ASSUME NEW rows \in Seq(DemoRow), NEW left, left = FoldLeft(Kept, << >>, rows),
         NEW fresh \in FreshRows(Seeds \ {left[i].isbn : i \in DOMAIN left}),
         NEW revived, revived = [i \in DOMAIN left |-> Revived(left[i])]
  PROVE  /\ revived \o fresh \in Seq(DemoRow)
         /\ Unique(revived \o fresh) => RestoredRows(revived \o fresh)
<1> DEFINE missing == Seeds \ {left[i].isbn : i \in DOMAIN left}
           now == revived \o fresh
<1>1. /\ fresh \in Seq(SeededRow)
      /\ \A isbn \in missing : \E i \in DOMAIN fresh : fresh[i].isbn = isbn
  <2>1. missing \in SUBSET Seeds /\ fresh \in FreshRows(missing)
    OBVIOUS
  <2> HIDE DEF missing
  <2>2. QED
    BY <2>1, FreshIs
<1>2. left \in Seq({row \in DemoRow : row.isbn \in Seeds})
  BY KeptAreSeeds
<1>3. /\ DOMAIN left = 1 .. Len(left) /\ Len(left) \in Nat
      /\ \A i \in 1 .. Len(left) : left[i] \in DemoRow /\ left[i].isbn \in Seeds
  BY <1>2, LenProperties, ElementOfSeq
<1>4. \A i \in 1 .. Len(left) : Revived(left[i]) \in SeededRow /\ Revived(left[i]).isbn = left[i].isbn
  BY <1>3 DEF Revived, DemoRow, SeededRow
<1>5. /\ revived \in Seq(SeededRow) /\ DOMAIN revived = 1 .. Len(left)
      /\ \A i \in 1 .. Len(left) : revived[i] = Revived(left[i])
  <2>1. revived = [i \in 1 .. Len(left) |-> Revived(left[i])]
    BY <1>3
  <2>2. QED
    BY <1>3, <1>4, <2>1
<1>6. /\ now \in Seq(SeededRow) /\ Len(now) = Len(revived) + Len(fresh)
      /\ \A i \in 1 .. Len(revived) + Len(fresh) :
           now[i] = IF i <= Len(revived) THEN revived[i] ELSE fresh[i - Len(revived)]
  BY <1>1, <1>5, ConcatProperties
<1> HIDE DEF now
<1>7. /\ Len(revived) \in Nat /\ DOMAIN revived = 1 .. Len(revived)
      /\ Len(fresh) \in Nat /\ DOMAIN fresh = 1 .. Len(fresh)
      /\ Len(now) \in Nat /\ DOMAIN now = 1 .. Len(now)
      /\ \A i \in 1 .. Len(now) : now[i] \in SeededRow
  BY <1>1, <1>5, <1>6, LenProperties, ElementOfSeq
<1>8. now \in Seq(DemoRow)
  BY <1>6, SeededRows
<1>9. LiveRows(now) = 1 .. Len(now)
  BY <1>7 DEF LiveRows, SeededRow
<1>10. ASSUME NEW isbn \in Seeds PROVE \E i \in 1 .. Len(now) : now[i].isbn = isbn
  <2>1. CASE isbn \in missing
    <3>1. PICK j \in DOMAIN fresh : fresh[j].isbn = isbn
      BY <1>1, <2>1
    <3> DEFINE i == Len(revived) + j
    <3>2. i \in 1 .. Len(now) /\ ~ (i <= Len(revived)) /\ i - Len(revived) = j
      BY <1>6, <1>7
    <3> HIDE DEF i
    <3>3. now[i] = fresh[j]
      BY <1>6, <3>2
    <3>4. QED
      BY <3>1, <3>2, <3>3
  <2>2. CASE isbn \notin missing
    <3>1. PICK i \in DOMAIN left : left[i].isbn = isbn
      BY <2>2
    <3>2. revived[i].isbn = isbn /\ i \in 1 .. Len(revived)
      BY <1>3, <1>4, <1>5, <1>7, <3>1
    <3>3. i \in 1 .. Len(now) /\ i <= Len(revived)
      BY <1>6, <1>7, <3>2
    <3>4. now[i] = revived[i]
      BY <1>6, <3>3
    <3>5. QED
      BY <3>2, <3>3, <3>4
  <2>3. QED
    BY <2>1, <2>2
<1>11. ASSUME Unique(now) PROVE RestoredRows(now)
  <2>1. ASSUME NEW isbn \in Seeds
        PROVE  Cardinality({i \in LiveRows(now) : now[i].isbn = isbn}) = 1
    <3>1. PICK j \in 1 .. Len(now) : now[j].isbn = isbn
      BY <1>10
    <3>2. {i \in LiveRows(now) : now[i].isbn = isbn} = {j}
      BY <1>9, <1>11, <3>1 DEF Unique
    <3>3. Cardinality({j}) = 1
      BY FS_Singleton
    <3>4. QED
      BY <3>2, <3>3
  <2>2. \A i \in LiveRows(now) : now[i].isbn \in Seeds /\ ~ now[i].extra
    BY <1>7, <1>9 DEF SeededRow
  <2>3. QED
    BY <1>11, <2>1, <2>2 DEF RestoredRows
<1>12. QED
  BY <1>8, <1>11 DEF now

DemoInv == DemoTypeOK /\ ResetRestores

LEMMA DemoTypes == DemoTypeOK <=> shelved \in Seq(DemoRow) /\ answer \in {"none", "restored", "failed"}
  BY DEF DemoTypeOK, DemoRow, DemoKeys

LEMMA DemoInitially == DemoInit => DemoInv
<1> SUFFICES ASSUME DemoInit PROVE DemoInv
  OBVIOUS
<1>1. shelved \in Seq(SeededRow)
  BY FreshIs DEF DemoInit
<1>2. QED
  BY <1>1, SeededRows, DemoTypes DEF DemoInv, DemoInit, ResetRestores

LEMMA DemoStep == DemoInv /\ [DemoNext]_demoVars => DemoInv'
<1> SUFFICES ASSUME DemoInv, [DemoNext]_demoVars PROVE DemoInv'
  OBVIOUS
<1>1. ASSUME NEW rows \in Seq(DemoRow), Writes(rows) PROVE DemoInv'
  BY <1>1 DEF Writes, DemoInv, DemoTypeOK, DemoRow, DemoKeys, ResetRestores
<1>2. shelved \in Seq(DemoRow) /\ answer \in {"none", "restored", "failed"}
  BY DemoTypes DEF DemoInv
<1>3. CASE UNCHANGED demoVars
  BY <1>3 DEF demoVars, DemoInv, DemoTypeOK, ResetRestores, LiveRows, Unique
<1>4. DOMAIN shelved = 1 .. Len(shelved) /\ \A i \in DOMAIN shelved : shelved[i] \in DemoRow
  BY <1>2, LenProperties, ElementOfSeq
<1>5. ASSUME NEW i \in DOMAIN shelved, NEW row \in DemoRow
      PROVE  [shelved EXCEPT ![i] = row] \in Seq(DemoRow)
  BY <1>2, <1>4, <1>5, ExceptSeq
<1>6. \A key \in NextKeys : key \in DemoKeys
  BY <1>2, NextKeysTyped
<1>7. CASE RegisterDemoBook
  <2>1. PICK isbn \in Isbns, key \in NextKeys : Writes(Append(shelved, SeedRow(isbn, key)))
    BY <1>7 DEF RegisterDemoBook
  <2>2. SeedRow(isbn, key) \in DemoRow
    BY <1>6, SeedRowIsTyped
  <2>3. Append(shelved, SeedRow(isbn, key)) \in Seq(DemoRow)
    BY <1>2, <2>2, AppendProperties
  <2>4. QED
    BY <1>1, <2>1, <2>3
<1>8. CASE ChangeDemoBook
  <2>1. PICK i \in LiveRows(shelved) :
          \/ Writes([shelved EXCEPT ![i].state = "deleted", ![i].extra = FALSE])
          \/ \E isbn \in Isbns : ~ InUse(isbn) /\ Writes([shelved EXCEPT ![i].isbn = isbn])
          \/ \E key \in NextKeys : Writes([shelved EXCEPT ![i].key = key])
          \/ \E more \in BOOLEAN : Writes([shelved EXCEPT ![i].extra = more])
    BY <1>8 DEF ChangeDemoBook
  <2>2. i \in DOMAIN shelved
    BY DEF LiveRows
  <2>3. shelved[i] \in DemoRow
    BY <1>4, <2>2
  <2>4. CASE Writes([shelved EXCEPT ![i].state = "deleted", ![i].extra = FALSE])
    <3> DEFINE row == [shelved[i] EXCEPT !.state = "deleted", !.extra = FALSE]
    <3>1. row \in DemoRow
      BY <2>3 DEF DemoRow
    <3>2. [shelved EXCEPT ![i].state = "deleted", ![i].extra = FALSE] = [shelved EXCEPT ![i] = row]
      BY <1>4, <2>2, <2>3 DEF DemoRow
    <3>3. QED
      BY <1>1, <1>5, <2>2, <2>4, <3>1, <3>2
  <2>5. ASSUME NEW isbn \in Isbns, Writes([shelved EXCEPT ![i].isbn = isbn]) PROVE DemoInv'
    <3>1. [shelved[i] EXCEPT !.isbn = isbn] \in DemoRow
      BY <2>3 DEF DemoRow
    <3>2. QED
      BY <1>1, <1>5, <2>2, <2>5, <3>1
  <2>6. ASSUME NEW key \in NextKeys, Writes([shelved EXCEPT ![i].key = key]) PROVE DemoInv'
    <3>1. [shelved[i] EXCEPT !.key = key] \in DemoRow
      BY <1>6, <2>3 DEF DemoRow
    <3>2. QED
      BY <1>1, <1>5, <2>2, <2>6, <3>1
  <2>7. ASSUME NEW more \in BOOLEAN, Writes([shelved EXCEPT ![i].extra = more]) PROVE DemoInv'
    <3>1. [shelved[i] EXCEPT !.extra = more] \in DemoRow
      BY <2>3 DEF DemoRow
    <3>2. QED
      BY <1>1, <1>5, <2>2, <2>7, <3>1
  <2>8. QED
    BY <2>1, <2>4, <2>5, <2>6, <2>7
<1>9. CASE Reset
  <2> DEFINE left == FoldLeft(Kept, << >>, shelved)
             revived == [i \in DOMAIN left |-> Revived(left[i])]
  <2>1. PICK fresh \in FreshRows(Seeds \ {left[i].isbn : i \in DOMAIN left}) :
          IF Unique(revived \o fresh)
            THEN shelved' = revived \o fresh /\ answer' = "restored"
            ELSE shelved' = shelved /\ answer' = "failed"
    BY <1>9, Zenon DEF Reset
  <2>2. /\ revived \o fresh \in Seq(DemoRow)
        /\ Unique(revived \o fresh) => RestoredRows(revived \o fresh)
    BY <1>2, ResetIsWhole
  <2> HIDE DEF left, revived
  <2>3. CASE Unique(revived \o fresh)
    <3>1. shelved' = revived \o fresh /\ answer' = "restored"
      BY <2>1, <2>3
    <3>2. RestoredRows(shelved') /\ shelved' \in Seq(DemoRow)
      BY <2>2, <2>3, <3>1
    <3>3. ResetRestores'
      BY <3>2 DEF RestoredRows, ResetRestores, LiveRows, Unique
    <3>4. QED
      BY <3>1, <3>2, <3>3 DEF DemoInv, DemoTypeOK, DemoRow, DemoKeys
  <2>4. CASE ~ Unique(revived \o fresh)
    BY <1>2, <2>1, <2>4 DEF DemoInv, DemoTypeOK, ResetRestores
  <2>5. QED
    BY <2>3, <2>4
<1>10. ASSUME NEW reset \in BOOLEAN, SeedScript(reset) PROVE DemoInv'
  <2> DEFINE before == IF reset THEN << >> ELSE shelved
  <2>1. PICK seeds \in FreshRows(Seeds) :
          Writes(IF FoldLeft(Seeded, before, seeds) = Refused THEN before
                 ELSE FoldLeft(Seeded, before, seeds))
    BY <1>10, Zenon DEF SeedScript
  <2>2. seeds \in Seq(DemoRow)
    BY FreshIs, SeededRows
  <2>3. before \in Seq(DemoRow)
    BY <1>2, EmptySeq
  <2> HIDE DEF before
  <2>4. FoldLeft(Seeded, before, seeds) \in Seq(DemoRow) \cup {Refused}
    BY <2>2, <2>3, ScriptIsTyped
  <2>5. QED
    BY <1>1, <2>1, <2>3, <2>4
<1>11. QED
  BY <1>3, <1>7, <1>8, <1>9, <1>10 DEF DemoNext

\* A reset of the demo account that is answered with success has brought back each of its
\* seed books, once, and nothing else, without visitors' scraps and with no two books in one
\* place; whatever visitors and the seed script have done, with any seeds and any keys.
THEOREM ResetBringsBack == DemoSpec => []ResetRestores
<1>1. DemoInv => ResetRestores
  BY DEF DemoInv
<1>2. QED
  BY <1>1, DemoInitially, DemoStep, PTL DEF DemoSpec

=============================================================================
