------------------------------ MODULE Signup ------------------------------
(***************************************************************************)
(* Signing up with one e-mail address: MemberService.register_member, and  *)
(* the handlers confirm_signup and resend_signup_code.  A registration of  *)
(* a new address is two transactions, since get_or_create_default_shelf    *)
(* commits what has been flushed before it.  A confirmation judges a code  *)
(* under the lock of the address's codes, and a resend works under that of *)
(* the member's row; a registration locks nothing.                         *)
(***************************************************************************)
EXTENDS Integers, FiniteSets, Sequences

CONSTANTS
  Requests,   \* the requests that can be in progress at the same time
  NoRequest,
  Attempts,   \* wrong tries that end a code: 5
  Quota,      \* codes sent to an address in a day: 5
  Cooldown,   \* between two codes sent again: 30 s
  Expiry,     \* EMAIL_VERIFICATION_EXPIRE_MINUTES
  Day,
  Latency,    \* how long a transaction can be open
  MaxCodes,   \* bound: codes ever sent
  MaxTime     \* bound: ticks of the clock

ASSUME SignupAssumption ==
  /\ IsFiniteSet(Requests) /\ NoRequest \notin Requests
  /\ {Attempts, Quota, MaxTime} \subseteq Nat \ {0}
  /\ {Cooldown, Expiry, Day, Latency, MaxCodes} \subseteq Nat

VARIABLES
  member,  \* the row's status, and whether the member has its librarian
  codes,   \* the address's rows of email_verifications, by id
  locked,  \* who holds the member's row
  now,     \* datetime.now(UTC)
  req,     \* each request: where it is, when its transaction began, the code it was given
  halved   \* whether a registration has died between its two commits

vars == <<member, codes, locked, now, req, halved>>

\* A row of email_verifications: the code is its id; resent is not a column, it says
\* which handler has sent it.
Code == [created : 1 .. MaxTime, expires : 0 .. MaxTime + Expiry, attempts : 0 .. Attempts,
         verified : BOOLEAN, resent : BOOLEAN]

\* A request that gives no code, or a wrong one, gives NoCode.
NoCode == 0

Idle == [pc |-> "idle", since |-> 1, given |-> NoCode]

Init ==
  /\ member = [status |-> "none", librarian |-> FALSE]
  /\ codes = << >>
  /\ locked = NoRequest
  /\ now = 1
  /\ req = [r \in Requests |-> Idle]
  /\ halved = FALSE

-----------------------------------------------------------------------------
SentToday == {i \in DOMAIN codes : codes[i].created >= now - Day}

\* Mutant of WithinQuota: off by one.
WithinQuotaOffByOne == Cardinality(SentToday) <= Quota

\* check_email_quota
WithinQuota == Cardinality(SentToday) < Quota

\* Mutant of MemberLockable: FOR UPDATE is forgotten.
AlwaysLockable == TRUE

MemberLockable == locked = NoRequest

\* The row's created_at is the beginning of the transaction.  A resend counts its expiry
\* from the time it has compared with the cooldown, a registration from now.
Sent(r, resent) ==
  /\ Len(codes) < MaxCodes
  /\ codes' = Append(codes,
       [created |-> req[r].since, expires |-> Expiry + IF resent THEN req[r].since ELSE now,
        attempts |-> 0, verified |-> FALSE, resent |-> resent])

Begin(r, pc, given) ==
  /\ req[r].pc \in {"idle", "failed"}
  /\ req' = [req EXCEPT ![r] = [pc |-> pc, since |-> now, given |-> given]]

Answer(r) == req' = [req EXCEPT ![r] = Idle]

\* register_member up to its first write: the address is new, or waits to be confirmed.
Register(r) ==
  /\ member.status # "active"
  /\ WithinQuota
  /\ Begin(r, IF member.status = "none" THEN "insert" ELSE "update", NoCode)
  /\ UNCHANGED <<member, codes, locked, now, halved>>

\* The member is flushed and committed with its default shelf.  The flush is outside
\* the try: when another registration was first, the answer is 500.
InsertMember(r) ==
  /\ req[r].pc = "insert"
  /\ \/ /\ member.status = "none"
        /\ member' = [member EXCEPT !.status = "pending"]
        /\ req' = [req EXCEPT ![r] = [Idle EXCEPT !.pc = "complete", !.since = now]]
     \/ /\ member.status # "none"
        /\ req' = [req EXCEPT ![r] = [Idle EXCEPT !.pc = "failed"]]
        /\ UNCHANGED member
  /\ UNCHANGED <<codes, locked, now, halved>>

\* Mutant of WithLibrarian: only a member that is not yet confirmed is given one.
WithLibrarianInTime == [member EXCEPT !.librarian = member.status = "pending"]

WithLibrarian == [member EXCEPT !.librarian = TRUE]

\* Its librarian, its agreements and its first code.
CompleteMember(r) ==
  /\ req[r].pc = "complete"
  /\ member' = WithLibrarian
  /\ Sent(r, FALSE)
  /\ Answer(r)
  /\ UNCHANGED <<locked, now, halved>>

\* A member that waits to be confirmed gets the new data, and another code.
UpdateMember(r) ==
  /\ req[r].pc = "update"
  /\ MemberLockable
  /\ Sent(r, FALSE)
  /\ Answer(r)
  /\ UNCHANGED <<member, locked, now, halved>>

\* confirm_signup reads the member first.
ReadMember(r) ==
  /\ member.status = "pending"
  /\ \E given \in {NoCode} \cup DOMAIN codes : Begin(r, "confirm", given)
  /\ UNCHANGED <<member, codes, locked, now, halved>>

Unverified == {i \in DOMAIN codes : ~ codes[i].verified}

\* Mutant of Judged: any code that is waiting.
AnyJudged(i) == i \in Unverified

\* The newest code is judged, and no other.
Judged(i) == i \in Unverified /\ \A j \in Unverified : j <= i

\* Mutant of Usable: one try too many, and no time.
UsableForEver(code) == code.attempts <= Attempts

Usable(code) == code.attempts < Attempts /\ code.expires >= now

\* Mutant of AfterWrongTry: the last try does not end the code.
AfterWrongTryOnly(code) == [code EXCEPT !.attempts = @ + 1]

AfterWrongTry(code) ==
  LET attempts == code.attempts + 1
  IN  [code EXCEPT !.attempts = attempts,
                   !.expires = IF attempts >= Attempts THEN now - 1 ELSE @]

\* Mutant of Verified: the status is left to another request.
VerifiedLater == [member EXCEPT !.status = "pending"]

Verified == [member EXCEPT !.status = "active"]

ConfirmSignup(r) ==
  /\ req[r].pc = "confirm"
  /\ Answer(r)
  /\ UNCHANGED <<locked, now, halved>>
  /\ \/ /\ \A i \in DOMAIN codes : Judged(i) => ~ Usable(codes[i])
        /\ UNCHANGED <<member, codes>>
     \/ \E i \in DOMAIN codes :
          /\ Judged(i) /\ Usable(codes[i])
          /\ \/ /\ req[r].given # i
                /\ codes' = [codes EXCEPT ![i] = AfterWrongTry(@)]
                /\ UNCHANGED member
             \/ /\ req[r].given = i
                /\ MemberLockable
                /\ codes' = [codes EXCEPT ![i].verified = TRUE]
                /\ member' = Verified

CooledDown == codes # << >> => now - codes[Len(codes)].created >= Cooldown

\* resend_signup_code up to its INSERT.
LockMember(r) ==
  /\ MemberLockable
  /\ member.status = "pending"
  /\ CooledDown
  /\ WithinQuota
  /\ Begin(r, "resend", NoCode)
  /\ locked' = r
  /\ UNCHANGED <<member, codes, now, halved>>

ResendCode(r) ==
  /\ req[r].pc = "resend"
  /\ Sent(r, TRUE)
  /\ locked' = NoRequest
  /\ Answer(r)
  /\ UNCHANGED <<member, now, halved>>

-----------------------------------------------------------------------------
Open(r) == req[r].pc \notin {"idle", "failed"}

\* The request, or the process, dies, and with it the open transaction.
Die(r) ==
  /\ Open(r)
  /\ Answer(r)
  /\ locked' = IF locked = r THEN NoRequest ELSE locked
  /\ halved' = (halved \/ req[r].pc = "complete")
  /\ UNCHANGED <<member, codes, now>>

Tick ==
  /\ now < MaxTime
  /\ \A r \in Requests : Open(r) => now - req[r].since < Latency
  /\ now' = now + 1
  /\ UNCHANGED <<member, codes, locked, req, halved>>

Next ==
  \/ Tick
  \/ \E r \in Requests :
       \/ Register(r) \/ InsertMember(r) \/ CompleteMember(r) \/ UpdateMember(r)
       \/ ReadMember(r) \/ ConfirmSignup(r)
       \/ LockMember(r) \/ ResendCode(r)
       \/ Die(r)

Spec == Init /\ [][Next]_vars

-----------------------------------------------------------------------------
TypeOK ==
  /\ member \in [status : {"none", "pending", "active"}, librarian : BOOLEAN]
  /\ codes \in Seq(Code) /\ Len(codes) <= MaxCodes
  /\ locked \in Requests \cup {NoRequest}
  /\ now \in 1 .. MaxTime
  /\ req \in [Requests ->
       [pc : {"idle", "insert", "complete", "update", "confirm", "resend", "failed"},
        since : 1 .. MaxTime, given : 0 .. MaxCodes]]
  /\ halved \in BOOLEAN

\* The quota is counted before the code is inserted, and by a registration without a
\* lock: each request in progress may exceed it by one, but no more than that.
QuotaNearlyKept == Cardinality(SentToday) <= Quota + Cardinality(Requests) - 1

\* A member becomes active by the code sent last, in time, after fewer than the
\* allowed wrong tries, whatever has happened since the member was read.
OnlyLatestConfirms ==
  [][member.status # "active" /\ member'.status = "active" =>
       LET i == Len(codes)
       IN  /\ i > 0
           /\ codes'[i].verified /\ ~ codes[i].verified
           /\ codes[i].attempts < Attempts /\ codes[i].expires >= now]_vars

\* The status and the code are written together: a member is active if and only if
\* one of its codes is used.
ActiveIsConfirmed == member.status = "active" <=> \E i \in DOMAIN codes : codes[i].verified

\* Five wrong tries end a code: it stays unused, and its time is over.
SpentCodeIsDead ==
  \A i \in DOMAIN codes :
    codes[i].attempts = Attempts => ~ codes[i].verified /\ codes[i].expires < now

\* Resends wait for each other: two codes sent again are the cooldown apart, less the
\* time by which a registration can date its code back.
ResendsApart ==
  \A i, j \in DOMAIN codes :
    i < j /\ codes[i].resent /\ codes[j].resent =>
      codes[j].created - codes[i].created >= Cooldown - Latency

\* A member has its librarian, or its registration is between its two commits, or has
\* died there: nothing else makes a member, active or not, without one.
LibrarianGiven ==
  member.status # "none" =>
    member.librarian \/ halved \/ \E r \in Requests : req[r].pc = "complete"

\* Concurrent registrations of an address are answered 409, never 500.
ConflictIsAnswered == \A r \in Requests : req[r].pc # "failed"

=============================================================================
