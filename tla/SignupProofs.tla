---------------------------- MODULE SignupProofs ----------------------------
(***************************************************************************)
(* Signup for any number of requests, any quota, cooldown and expiry.      *)
(***************************************************************************)
EXTENDS Signup, FiniteSetTheorems, TLAPS

Request == [pc : {"idle", "insert", "complete", "update", "confirm", "resend", "failed"},
            since : 1 .. MaxTime, given : 0 .. MaxCodes]

LEMMA IdleRequest ==
  ASSUME NEW t \in 1 .. MaxTime
  PROVE  /\ Idle \in Request /\ Idle.pc = "idle"
         /\ [Idle EXCEPT !.pc = "complete", !.since = t] \in Request
         /\ [Idle EXCEPT !.pc = "complete", !.since = t].pc = "complete"
         /\ [Idle EXCEPT !.pc = "failed"] \in Request
         /\ [Idle EXCEPT !.pc = "failed"].pc = "failed"
<1>1. 1 \in 1 .. MaxTime /\ NoCode \in 0 .. MaxCodes
  BY SignupAssumption DEF NoCode
<1>2. Idle \in Request /\ Idle.pc = "idle"
  BY <1>1 DEF Idle, Request
<1> HIDE DEF NoCode
<1>3. QED
  BY <1>2 DEF Idle, Request

-----------------------------------------------------------------------------
LEMMA SentCode ==
  ASSUME TypeOK, NEW r \in Requests, NEW resent \in BOOLEAN, Sent(r, resent)
  PROVE  /\ Len(codes') = Len(codes) + 1 /\ DOMAIN codes' = 1 .. Len(codes) + 1
         /\ codes' \in Seq(Code) /\ Len(codes') <= MaxCodes
         /\ \A i \in DOMAIN codes : codes'[i] = codes[i]
         /\ LET new == codes'[Len(codes) + 1]
            IN  ~ new.verified /\ new.attempts = 0
<1> DEFINE new == [created |-> req[r].since,
                   expires |-> Expiry + IF resent THEN req[r].since ELSE now,
                   attempts |-> 0, verified |-> FALSE, resent |-> resent]
<1>1. req[r].since \in 1 .. MaxTime /\ now \in 1 .. MaxTime
  BY DEF TypeOK
<1>2. new \in Code /\ ~ new.verified /\ new.attempts = 0
  BY <1>1, SignupAssumption DEF Code
<1>3. codes' = Append(codes, new) /\ Len(codes) < MaxCodes
  BY DEF Sent
<1>4. codes \in Seq(Code) /\ MaxCodes \in Nat
  BY SignupAssumption DEF TypeOK
<1> HIDE DEF new
<1>5. QED
  BY <1>2, <1>3, <1>4

LEMMA WrongTry ==
  ASSUME TypeOK, NEW i \in DOMAIN codes, Usable(codes[i])
  PROVE  /\ AfterWrongTry(codes[i]) \in Code
         /\ AfterWrongTry(codes[i]).verified = codes[i].verified
         /\ AfterWrongTry(codes[i]).attempts = Attempts => AfterWrongTry(codes[i]).expires < now
<1> DEFINE code == codes[i]
           attempts == code.attempts + 1
           expires == IF attempts >= Attempts THEN now - 1 ELSE code.expires
           new == AfterWrongTry(code)
<1>1. code \in Code /\ now \in 1 .. MaxTime
  BY DEF TypeOK
<1>2. attempts \in 0 .. Attempts /\ expires \in 0 .. MaxTime + Expiry
  BY <1>1, SignupAssumption DEF Usable, Code
<1>3. new = [code EXCEPT !.attempts = attempts, !.expires = expires]
  BY <1>1 DEF AfterWrongTry, Code
<1>4. attempts = Attempts => expires < now
  BY <1>1, SignupAssumption
<1> HIDE DEF attempts, expires
<1>5. new \in Code /\ new.verified = code.verified /\ new.attempts = attempts
      /\ new.expires = expires
  BY <1>1, <1>2, <1>3 DEF Code
<1>6. QED
  BY <1>4, <1>5

\* What a confirmation does to the codes.
LEMMA Confirmation ==
  ASSUME TypeOK, NEW r \in Requests, ConfirmSignup(r)
  PROVE  /\ codes' \in Seq(Code) /\ Len(codes') = Len(codes) /\ DOMAIN codes' = DOMAIN codes
         /\ \/ UNCHANGED <<member, codes>>
            \/ \E i \in DOMAIN codes :
                 /\ Judged(i) /\ Usable(codes[i])
                 /\ \A j \in DOMAIN codes \ {i} : codes'[j] = codes[j]
                 /\ \/ /\ codes'[i].verified = codes[i].verified /\ UNCHANGED member
                       /\ codes'[i].attempts = Attempts => codes'[i].expires < now
                    \/ /\ codes'[i].verified /\ codes'[i].attempts = codes[i].attempts
                       /\ member' = [member EXCEPT !.status = "active"]
<1>1. codes \in Seq(Code)
  BY DEF TypeOK
<1>2. CASE UNCHANGED <<member, codes>>
  BY <1>1, <1>2
<1>3. ASSUME NEW i \in DOMAIN codes, Judged(i), Usable(codes[i]), UNCHANGED member,
             codes' = [codes EXCEPT ![i] = AfterWrongTry(codes[i])]
      PROVE  /\ codes' \in Seq(Code) /\ Len(codes') = Len(codes) /\ DOMAIN codes' = DOMAIN codes
             /\ \A j \in DOMAIN codes \ {i} : codes'[j] = codes[j]
             /\ codes'[i].verified = codes[i].verified
             /\ codes'[i].attempts = Attempts => codes'[i].expires < now
  <2> DEFINE new == AfterWrongTry(codes[i])
  <2>1. /\ new \in Code /\ new.verified = codes[i].verified
        /\ new.attempts = Attempts => new.expires < now
    BY <1>3, WrongTry
  <2> HIDE DEF new
  <2>2. codes' = [codes EXCEPT ![i] = new]
    BY <1>3 DEF new
  <2>3. QED
    BY <1>1, <2>1, <2>2
<1>4. ASSUME NEW i \in DOMAIN codes, Judged(i), Usable(codes[i]), member' = Verified,
             codes' = [codes EXCEPT ![i].verified = TRUE]
      PROVE  /\ codes' \in Seq(Code) /\ Len(codes') = Len(codes) /\ DOMAIN codes' = DOMAIN codes
             /\ \A j \in DOMAIN codes \ {i} : codes'[j] = codes[j]
             /\ codes'[i].verified /\ codes'[i].attempts = codes[i].attempts
  <2> DEFINE new == [codes[i] EXCEPT !.verified = TRUE]
  <2>0. codes[i] \in Code
    BY <1>1
  <2>1. new \in Code /\ new.verified /\ new.attempts = codes[i].attempts
    BY <2>0 DEF Code
  <2>2. codes' = [codes EXCEPT ![i] = new]
    BY <1>4
  <2> HIDE DEF new
  <2>3. QED
    BY <1>1, <2>1, <2>2
<1>5. QED
  BY <1>2, <1>3, <1>4 DEF ConfirmSignup, Verified

\* A confirmation changes neither when a code was sent nor by which handler.
LEMMA ConfirmationKeeps ==
  ASSUME TypeOK, NEW r \in Requests, ConfirmSignup(r)
  PROVE  /\ DOMAIN codes' = DOMAIN codes
         /\ \A i \in DOMAIN codes :
              codes'[i].created = codes[i].created /\ codes'[i].resent = codes[i].resent
<1>1. codes \in Seq(Code) /\ DOMAIN codes' = DOMAIN codes
  BY Confirmation DEF TypeOK
<1>2. ASSUME NEW i \in DOMAIN codes, NEW new, codes' = [codes EXCEPT ![i] = new],
             new.created = codes[i].created, new.resent = codes[i].resent,
             NEW j \in DOMAIN codes
      PROVE  codes'[j].created = codes[j].created /\ codes'[j].resent = codes[j].resent
  BY <1>1, <1>2
<1>3. ASSUME NEW i \in DOMAIN codes
      PROVE  /\ AfterWrongTry(codes[i]).created = codes[i].created
             /\ AfterWrongTry(codes[i]).resent = codes[i].resent
             /\ [codes[i] EXCEPT !.verified = TRUE].created = codes[i].created
             /\ [codes[i] EXCEPT !.verified = TRUE].resent = codes[i].resent
  BY <1>1 DEF AfterWrongTry, Code
<1>4. ASSUME NEW i \in DOMAIN codes, codes' = [codes EXCEPT ![i] = AfterWrongTry(codes[i])],
             NEW j \in DOMAIN codes
      PROVE  codes'[j].created = codes[j].created /\ codes'[j].resent = codes[j].resent
  BY <1>2, <1>3, <1>4
<1>5. ASSUME NEW i \in DOMAIN codes, codes' = [codes EXCEPT ![i].verified = TRUE],
             NEW j \in DOMAIN codes
      PROVE  codes'[j].created = codes[j].created /\ codes'[j].resent = codes[j].resent
  BY <1>2, <1>3, <1>5
<1>6. QED
  BY <1>1, <1>4, <1>5 DEF ConfirmSignup

-----------------------------------------------------------------------------
LEMMA TypeStep == TypeOK /\ [Next]_vars => TypeOK'
<1> SUFFICES ASSUME TypeOK, [Next]_vars PROVE TypeOK'
  OBVIOUS
<1>1. /\ now \in 1 .. MaxTime /\ codes \in Seq(Code) /\ Len(codes) <= MaxCodes
      /\ member \in [status : {"none", "pending", "active"}, librarian : BOOLEAN]
      /\ locked \in Requests \cup {NoRequest} /\ req \in [Requests -> Request]
      /\ halved \in BOOLEAN
  BY DEF TypeOK, Request
<1>2. ASSUME now' \in 1 .. MaxTime, codes' \in Seq(Code), Len(codes') <= MaxCodes,
             member' \in [status : {"none", "pending", "active"}, librarian : BOOLEAN],
             locked' \in Requests \cup {NoRequest}, req' \in [Requests -> Request],
             halved' \in BOOLEAN
      PROVE  TypeOK'
  BY <1>2 DEF TypeOK, Request
<1>3. CASE Tick
  BY <1>1, <1>2, <1>3, SignupAssumption DEF Tick
<1>4. CASE UNCHANGED vars
  BY <1>1, <1>2, <1>4 DEF vars
<1>5. ASSUME NEW r \in Requests, NEW pc \in {"insert", "update", "confirm", "resend"},
             NEW given \in {NoCode} \cup DOMAIN codes, Begin(r, pc, given)
      PROVE  req' \in [Requests -> Request]
  <2>1. given \in 0 .. MaxCodes
    BY <1>1, SignupAssumption DEF NoCode
  <2>2. [pc |-> pc, since |-> now, given |-> given] \in Request
    BY <1>1, <2>1 DEF Request
  <2>3. QED
    BY <1>1, <1>5, <2>2 DEF Begin
<1>6. ASSUME NEW r \in Requests, Answer(r) PROVE req' \in [Requests -> Request]
  BY <1>1, <1>6, IdleRequest DEF Answer
<1>7. ASSUME NEW r \in Requests, Register(r) \/ ReadMember(r) \/ LockMember(r) PROVE TypeOK'
  BY <1>1, <1>2, <1>5, <1>7 DEF Register, ReadMember, LockMember
<1>8. ASSUME NEW r \in Requests, InsertMember(r) PROVE TypeOK'
  <2>1. req' \in [Requests -> Request]
    BY <1>1, <1>8, IdleRequest DEF InsertMember
  <2>2. QED
    BY <1>1, <1>2, <1>8, <2>1 DEF InsertMember
<1>9. ASSUME NEW r \in Requests, CompleteMember(r) \/ UpdateMember(r) \/ ResendCode(r) PROVE TypeOK'
  BY <1>1, <1>2, <1>6, <1>9, SentCode DEF CompleteMember, UpdateMember, ResendCode, WithLibrarian
<1>10. ASSUME NEW r \in Requests, ConfirmSignup(r) PROVE TypeOK'
  <2>1. member' \in [status : {"none", "pending", "active"}, librarian : BOOLEAN]
    BY <1>1, <1>10, Confirmation
  <2>2. QED
    BY <1>1, <1>2, <1>6, <1>10, <2>1, Confirmation DEF ConfirmSignup
<1>11. ASSUME NEW r \in Requests, Die(r) PROVE TypeOK'
  BY <1>1, <1>2, <1>6, <1>11 DEF Die
<1>12. QED
  BY <1>3, <1>4, <1>7, <1>8, <1>9, <1>10, <1>11 DEF Next

LEMMA InitType == Init => TypeOK
<1> SUFFICES ASSUME Init PROVE TypeOK
  OBVIOUS
<1>1. 1 \in 1 .. MaxTime
  BY SignupAssumption
<1>2. Idle \in Request
  BY <1>1, IdleRequest
<1>3. req \in [Requests -> Request]
  BY <1>2 DEF Init
<1>4. codes \in Seq(Code) /\ Len(codes) <= MaxCodes
  BY SignupAssumption DEF Init
<1>5. QED
  BY <1>1, <1>3, <1>4 DEF Init, TypeOK, Request

\* The types, with the rows' widths: attempts never pass the limit.
THEOREM SignupTypeCorrect == Spec => []TypeOK
BY InitType, TypeStep, PTL DEF Spec

-----------------------------------------------------------------------------
\* The steps that leave the codes alone, and the status but for making it pending.
Quiet == UNCHANGED codes /\ (member'.status = "active" <=> member.status = "active")

LEMMA Steps ==
  ASSUME TypeOK, [Next]_vars
  PROVE  \/ Quiet
         \/ \E r \in Requests, resent \in BOOLEAN : Sent(r, resent) /\ member'.status = member.status
         \/ \E r \in Requests : ConfirmSignup(r)
BY DEF Next, vars, Tick, Register, InsertMember, CompleteMember, WithLibrarian, UpdateMember,
   ReadMember, LockMember, ResendCode, Die, Quiet, TypeOK

LEMMA ConfirmedStep == TypeOK /\ ActiveIsConfirmed /\ [Next]_vars => ActiveIsConfirmed'
<1> SUFFICES ASSUME TypeOK, ActiveIsConfirmed, [Next]_vars PROVE ActiveIsConfirmed'
  OBVIOUS
<1> USE DEF ActiveIsConfirmed
<1>1. CASE Quiet
  BY <1>1 DEF Quiet
<1>2. ASSUME NEW r \in Requests, NEW resent \in BOOLEAN, Sent(r, resent),
             member'.status = member.status
      PROVE  ActiveIsConfirmed'
  <2>1. DOMAIN codes = 1 .. Len(codes) /\ Len(codes) \in Nat
    BY DEF TypeOK
  <2>2. QED
    BY <1>2, <2>1, SentCode
<1>3. ASSUME NEW r \in Requests, ConfirmSignup(r) PROVE ActiveIsConfirmed'
  <2>1. CASE UNCHANGED <<member, codes>>
    BY <2>1
  <2>2. CASE ~ UNCHANGED <<member, codes>>
    <3>1. PICK i \in DOMAIN codes :
            /\ \A j \in DOMAIN codes \ {i} : codes'[j] = codes[j]
            /\ \/ codes'[i].verified = codes[i].verified /\ UNCHANGED member
               \/ codes'[i].verified /\ member' = [member EXCEPT !.status = "active"]
      BY <1>3, <2>2, Confirmation
    <3>2. DOMAIN codes' = DOMAIN codes
      BY <1>3, Confirmation
    <3>3. CASE codes'[i].verified = codes[i].verified /\ UNCHANGED member
      BY <3>1, <3>2, <3>3
    <3>4. CASE codes'[i].verified /\ member' = [member EXCEPT !.status = "active"]
      BY <3>2, <3>4 DEF TypeOK
    <3>5. QED
      BY <3>1, <3>3, <3>4
  <2>3. QED
    BY <2>1, <2>2
<1>4. QED
  BY <1>1, <1>2, <1>3, Steps

\* A member is active exactly when a code has been used, for any number of requests.
THEOREM ActiveStaysConfirmed == Spec => []ActiveIsConfirmed
<1>1. Init => ActiveIsConfirmed
  BY DEF Init, ActiveIsConfirmed
<1>2. QED
  BY <1>1, ConfirmedStep, SignupTypeCorrect, PTL DEF Spec

\* Only the code sent last makes a member active, in time and with tries left, although
\* the member was read before the codes were locked: while the member is pending no code
\* is used, so the newest unused code is the newest.
THEOREM LatestConfirms == Spec => OnlyLatestConfirms
<1> DEFINE Latest ==
      member.status # "active" /\ member'.status = "active" =>
        LET i == Len(codes)
        IN  /\ i > 0
            /\ codes'[i].verified /\ ~ codes[i].verified
            /\ codes[i].attempts < Attempts /\ codes[i].expires >= now
<1>1. TypeOK /\ ActiveIsConfirmed /\ [Next]_vars => [Latest]_vars
  <2> SUFFICES ASSUME TypeOK, ActiveIsConfirmed, [Next]_vars,
                      member.status # "active", member'.status = "active"
               PROVE  LET i == Len(codes)
                      IN  /\ i > 0
                          /\ codes'[i].verified /\ ~ codes[i].verified
                          /\ codes[i].attempts < Attempts /\ codes[i].expires >= now
    OBVIOUS
  <2>1. PICK r \in Requests : ConfirmSignup(r)
    BY Steps DEF Quiet
  <2>2. PICK i \in DOMAIN codes : Judged(i) /\ Usable(codes[i]) /\ codes'[i].verified
    BY <2>1, Confirmation
  <2>3. Unverified = DOMAIN codes
    BY DEF ActiveIsConfirmed, Unverified
  <2>4. DOMAIN codes = 1 .. Len(codes) /\ Len(codes) \in Nat
    BY DEF TypeOK
  <2>5. i = Len(codes) /\ i > 0
    BY <2>2, <2>3, <2>4 DEF Judged
  <2>6. ~ codes[i].verified
    BY <2>2 DEF Judged, Unverified
  <2>7. codes[i].attempts < Attempts /\ codes[i].expires >= now
    BY <2>2 DEF Usable
  <2>8. QED
    BY <2>2, <2>5, <2>6, <2>7
<1>2. QED
  BY <1>1, SignupTypeCorrect, ActiveStaysConfirmed, PTL DEF Spec, OnlyLatestConfirms

-----------------------------------------------------------------------------
LEMMA SpentStep == TypeOK /\ SpentCodeIsDead /\ [Next]_vars => SpentCodeIsDead'
<1> SUFFICES ASSUME TypeOK, SpentCodeIsDead, [Next]_vars PROVE SpentCodeIsDead'
  OBVIOUS
<1> USE DEF SpentCodeIsDead
<1>1. /\ DOMAIN codes = 1 .. Len(codes) /\ Len(codes) \in Nat
      /\ \A i \in DOMAIN codes : codes[i] \in Code
      /\ now \in Nat
  BY DEF TypeOK
<1>2. now' \in Nat /\ now' >= now
  <2>1. Tick \/ UNCHANGED now
    BY DEF Next, vars, Register, InsertMember, CompleteMember, UpdateMember, ReadMember,
       ConfirmSignup, LockMember, ResendCode, Die
  <2>2. QED
    BY <1>1, <2>1 DEF Tick
<1>3. ASSUME NEW i \in DOMAIN codes, codes'[i] = codes[i], codes[i].attempts = Attempts
      PROVE  ~ codes'[i].verified /\ codes'[i].expires < now'
  <2>1. ~ codes[i].verified /\ codes[i].expires < now /\ codes[i].expires \in Int
    BY <1>1, <1>3, SignupAssumption DEF Code
  <2>2. QED
    BY <1>1, <1>2, <1>3, <2>1
<1>4. CASE Quiet
  BY <1>3, <1>4 DEF Quiet
<1>5. ASSUME NEW r \in Requests, NEW resent \in BOOLEAN, Sent(r, resent) PROVE SpentCodeIsDead'
  <2>1. /\ DOMAIN codes' = 1 .. Len(codes) + 1
        /\ \A i \in DOMAIN codes : codes'[i] = codes[i]
        /\ codes'[Len(codes) + 1].attempts = 0
    BY <1>5, SentCode
  <2>2. Attempts # 0
    BY SignupAssumption
  <2>3. QED
    BY <1>1, <1>3, <2>1, <2>2
<1>6. ASSUME NEW r \in Requests, ConfirmSignup(r) PROVE SpentCodeIsDead'
  <2>1. DOMAIN codes' = DOMAIN codes /\ now' = now
    BY <1>6, Confirmation DEF ConfirmSignup
  <2>2. CASE UNCHANGED <<member, codes>>
    BY <1>3, <2>1, <2>2
  <2>3. CASE ~ UNCHANGED <<member, codes>>
    <3>1. PICK i \in DOMAIN codes :
            /\ Judged(i) /\ Usable(codes[i])
            /\ \A j \in DOMAIN codes \ {i} : codes'[j] = codes[j]
            /\ \/ /\ codes'[i].verified = codes[i].verified
                  /\ codes'[i].attempts = Attempts => codes'[i].expires < now
               \/ codes'[i].attempts = codes[i].attempts
      BY <1>6, <2>3, Confirmation
    <3>2. ~ codes[i].verified /\ codes[i].attempts < Attempts
      BY <3>1 DEF Judged, Unverified, Usable
    <3>3. codes[i].attempts # Attempts
      BY <1>1, <3>2, SignupAssumption DEF Code
    <3>4. codes'[i].attempts = Attempts => ~ codes'[i].verified /\ codes'[i].expires < now'
      BY <2>1, <3>1, <3>2, <3>3
    <3>5. QED
      BY <1>3, <2>1, <3>1, <3>4
  <2>4. QED
    BY <2>2, <2>3
<1>7. QED
  BY <1>4, <1>5, <1>6, Steps

\* The last wrong try ends a code for good, for any limit.
THEOREM SpentStaysDead == Spec => []SpentCodeIsDead
<1>1. Init => SpentCodeIsDead
  BY DEF Init, SpentCodeIsDead
<1>2. QED
  BY <1>1, SpentStep, SignupTypeCorrect, PTL DEF Spec

-----------------------------------------------------------------------------
\* A confirmation in progress is of a member that is there.
ConfirmsMember == \A r \in Requests : req[r].pc = "confirm" => member.status # "none"

LibrarianInv == LibrarianGiven /\ ConfirmsMember

LEMMA LibrarianStep == TypeOK /\ LibrarianInv /\ [Next]_vars => LibrarianInv'
<1> SUFFICES ASSUME TypeOK, LibrarianInv, [Next]_vars PROVE LibrarianInv'
  OBVIOUS
<1> USE DEF LibrarianInv, LibrarianGiven, ConfirmsMember
<1>1. member \in [status : {"none", "pending", "active"}, librarian : BOOLEAN]
      /\ req \in [Requests -> Request]
  BY DEF TypeOK, Request
<1>2. ASSUME UNCHANGED <<member, halved>>,
             \A r \in Requests : /\ req[r].pc = "complete" => req'[r].pc = "complete"
                                 /\ req'[r].pc = "confirm" => req[r].pc = "confirm"
      PROVE  LibrarianInv'
  BY <1>2
<1>3. ASSUME NEW r \in Requests, NEW pc, NEW given, Begin(r, pc, given),
             pc = "confirm" => member.status # "none", UNCHANGED <<member, halved>>
      PROVE  LibrarianInv'
  BY <1>1, <1>2, <1>3 DEF Begin
<1>4. ASSUME NEW r \in Requests, Answer(r), req[r].pc # "complete",
             UNCHANGED <<member, halved>>
      PROVE  LibrarianInv'
  BY <1>1, <1>2, <1>4 DEF Answer, Idle
<1>5. CASE Tick \/ UNCHANGED vars
  BY <1>5 DEF Tick, vars
<1>6. ASSUME NEW r \in Requests, Register(r) \/ ReadMember(r) \/ LockMember(r)
      PROVE  LibrarianInv'
  BY <1>3, <1>6 DEF Register, ReadMember, LockMember
<1>7. ASSUME NEW r \in Requests, InsertMember(r) PROVE LibrarianInv'
  <2>1. CASE /\ member.status = "none" /\ member' = [member EXCEPT !.status = "pending"]
             /\ req' = [req EXCEPT ![r] = [Idle EXCEPT !.pc = "complete", !.since = now]]
    BY <1>1, <2>1 DEF Idle
  <2>2. CASE req' = [req EXCEPT ![r] = [Idle EXCEPT !.pc = "failed"]] /\ UNCHANGED member
    BY <1>1, <1>2, <1>7, <2>2 DEF InsertMember, Idle
  <2>3. QED
    BY <1>7, <2>1, <2>2 DEF InsertMember
<1>8. ASSUME NEW r \in Requests, CompleteMember(r) PROVE LibrarianInv'
  BY <1>1, <1>8 DEF CompleteMember, WithLibrarian, Answer, Idle
<1>9. ASSUME NEW r \in Requests, UpdateMember(r) \/ ResendCode(r) PROVE LibrarianInv'
  BY <1>4, <1>9 DEF UpdateMember, ResendCode
<1>10. ASSUME NEW r \in Requests, ConfirmSignup(r) PROVE LibrarianInv'
  <2>1. member.status # "none" /\ UNCHANGED halved /\ req[r].pc = "confirm" /\ Answer(r)
    BY <1>10 DEF ConfirmSignup
  <2>2. CASE UNCHANGED member
    BY <1>4, <2>1, <2>2
  <2>3. CASE member' = [member EXCEPT !.status = "active"]
    BY <1>1, <2>1, <2>3 DEF Answer, Idle
  <2>4. QED
    BY <1>10, <2>2, <2>3, Confirmation
<1>11. ASSUME NEW r \in Requests, Die(r) PROVE LibrarianInv'
  BY <1>1, <1>4, <1>11 DEF Die, Answer, Idle
<1>12. QED
  BY <1>5, <1>6, <1>7, <1>8, <1>9, <1>10, <1>11 DEF Next

\* A member has its librarian unless a registration is, or has died, between its commits.
THEOREM LibrarianIsGiven == Spec => []LibrarianGiven
<1>1. Init => LibrarianInv
  BY DEF Init, LibrarianInv, LibrarianGiven, ConfirmsMember, Idle
<1>2. LibrarianInv => LibrarianGiven
  BY DEF LibrarianInv
<1>3. QED
  BY <1>1, <1>2, LibrarianStep, SignupTypeCorrect, PTL DEF Spec

-----------------------------------------------------------------------------
\* The requests that have passed the quota, or will not ask it, and have a code to send.
Sending == {r \in Requests : req[r].pc \in {"insert", "complete", "update", "resend"}}

\* The inductive form of the quota: whoever is about to send a code counts like a code.
QuotaInv == Cardinality(SentToday) + Cardinality(Sending) <= Quota + Cardinality(Requests) - 1

LEMMA OneMore ==
  ASSUME NEW S, NEW x, IsFiniteSet(S)
  PROVE  IsFiniteSet(S \cup {x}) /\ Cardinality(S \cup {x}) <= Cardinality(S) + 1
<1>1. Cardinality(S) \in Nat
  BY FS_CardinalityType
<1>2. IsFiniteSet(S \cup {x})
  BY FS_AddElement
<1>3. Cardinality(S \cup {x}) = IF x \in S THEN Cardinality(S) ELSE Cardinality(S) + 1
  BY FS_AddElement, Zenon
<1>4. QED
  BY <1>1, <1>2, <1>3

LEMMA CodeTimes ==
  ASSUME TypeOK
  PROVE  \A i \in DOMAIN codes : codes[i].created \in Int /\ codes[i].resent \in BOOLEAN
<1>1. \A i \in DOMAIN codes : codes[i] \in Code
  BY DEF TypeOK
<1>2. QED
  BY <1>1 DEF Code

LEMMA Counted ==
  ASSUME TypeOK
  PROVE  /\ IsFiniteSet(SentToday) /\ Cardinality(SentToday) \in Nat
         /\ IsFiniteSet(Sending) /\ Cardinality(Sending) \in Nat
         /\ Cardinality(Sending) <= Cardinality(Requests)
         /\ Cardinality(Requests) \in Nat /\ Quota \in Nat \ {0}
<1>1. IsFiniteSet(DOMAIN codes)
  <2>1. DOMAIN codes = 1 .. Len(codes) /\ Len(codes) \in Nat
    BY DEF TypeOK
  <2>2. QED
    BY <2>1, FS_Interval
<1>2. SentToday \in SUBSET DOMAIN codes /\ Sending \in SUBSET Requests
  BY DEF SentToday, Sending
<1>3. IsFiniteSet(Requests) /\ Quota \in Nat \ {0}
  BY SignupAssumption
<1>4. QED
  BY <1>1, <1>2, <1>3, FS_Subset, FS_CardinalityType

LEMMA QuotaStep == TypeOK /\ QuotaInv /\ [Next]_vars => QuotaInv'
<1> SUFFICES ASSUME TypeOK, QuotaInv, [Next]_vars PROVE QuotaInv'
  OBVIOUS
<1>1. TypeOK'
  BY TypeStep
<1>2. /\ IsFiniteSet(SentToday) /\ IsFiniteSet(Sending)
      /\ Cardinality(SentToday) \in Nat /\ Cardinality(Sending) \in Nat
      /\ Cardinality(Requests) \in Nat /\ Quota \in Nat \ {0}
  BY Counted
<1>3. /\ Cardinality(SentToday') \in Nat /\ Cardinality(Sending') \in Nat
      /\ Cardinality(Sending') <= Cardinality(Requests)
  <2>1. (/\ Cardinality(SentToday) \in Nat /\ Cardinality(Sending) \in Nat
         /\ Cardinality(Sending) <= Cardinality(Requests))'
    BY <1>1, Counted, PTL
  <2>2. QED
    BY <2>1
<1>4. req \in [Requests -> Request]
  BY DEF TypeOK, Request
<1>5. ASSUME SentToday' \subseteq SentToday, Sending' \subseteq Sending PROVE QuotaInv'
  <2>1. Cardinality(SentToday') <= Cardinality(SentToday) /\ Cardinality(Sending') <= Cardinality(Sending)
    BY <1>2, <1>5, FS_Subset
  <2>2. QED
    BY <1>2, <1>3, <2>1 DEF QuotaInv
<1>6. ASSUME UNCHANGED <<codes, now>>, Sending' \subseteq Sending PROVE QuotaInv'
  BY <1>5, <1>6 DEF SentToday
<1>7. ASSUME UNCHANGED <<codes, now>>, WithinQuota PROVE QuotaInv'
  <2>1. Cardinality(SentToday') < Quota
    BY <1>7 DEF WithinQuota, SentToday
  <2>2. QED
    BY <1>2, <1>3, <2>1 DEF QuotaInv
<1>8. ASSUME NEW r \in Requests, NEW resent \in BOOLEAN, Sent(r, resent), UNCHANGED now,
             r \in Sending, Answer(r)
      PROVE  QuotaInv'
  <2>1. Sending' = Sending \ {r}
    BY <1>4, <1>8 DEF Sending, Answer, Idle
  <2>2. Cardinality(Sending') = Cardinality(Sending) - 1
    BY <1>2, <1>8, <2>1, FS_RemoveElement
  <2>3. SentToday' \in SUBSET (SentToday \cup {Len(codes) + 1})
    <3>1. /\ DOMAIN codes' = 1 .. Len(codes) + 1
          /\ \A i \in DOMAIN codes : codes'[i] = codes[i]
      BY <1>8, SentCode
    <3>2. DOMAIN codes = 1 .. Len(codes) /\ Len(codes) \in Nat
      BY DEF TypeOK
    <3>3. QED
      BY <1>8, <3>1, <3>2 DEF SentToday
  <2>4. Cardinality(SentToday \cup {Len(codes) + 1}) <= Cardinality(SentToday) + 1
        /\ IsFiniteSet(SentToday \cup {Len(codes) + 1})
    BY <1>2, OneMore
  <2>5. Cardinality(SentToday') <= Cardinality(SentToday \cup {Len(codes) + 1})
    BY <2>3, <2>4, FS_Subset
  <2>6. Cardinality(SentToday \cup {Len(codes) + 1}) \in Nat
    BY <2>4, FS_CardinalityType
  <2>7. QED
    BY <1>2, <1>3, <2>2, <2>4, <2>5, <2>6 DEF QuotaInv
<1>9. CASE Tick
  <2>1. now \in Int /\ now' = now + 1 /\ codes' = codes /\ req' = req
    BY <1>9 DEF Tick, TypeOK
  <2>2. \A i \in DOMAIN codes : codes[i].created \in Int
    BY CodeTimes
  <2>3. Day \in Nat
    BY SignupAssumption
  <2>4. SentToday' \subseteq SentToday /\ Sending' = Sending
    BY <2>1, <2>2, <2>3 DEF SentToday, Sending
  <2>5. QED
    BY <1>5, <2>4
<1>10. CASE UNCHANGED vars
  BY <1>6, <1>10 DEF vars, Sending
<1>11. ASSUME NEW r \in Requests, Register(r) \/ LockMember(r) PROVE QuotaInv'
  BY <1>7, <1>11 DEF Register, LockMember
<1>12. ASSUME NEW r \in Requests, InsertMember(r) PROVE QuotaInv'
  <2>1. r \in Sending
    BY <1>12 DEF InsertMember, Sending
  <2>2. Sending' \subseteq Sending
    BY <1>4, <1>12, <2>1 DEF InsertMember, Sending
  <2>3. QED
    BY <1>6, <1>12, <2>2 DEF InsertMember
<1>13. ASSUME NEW r \in Requests, CompleteMember(r) \/ UpdateMember(r) \/ ResendCode(r)
       PROVE  QuotaInv'
  <2>1. r \in Sending
    BY <1>13 DEF CompleteMember, UpdateMember, ResendCode, Sending
  <2>2. QED
    BY <1>8, <1>13, <2>1 DEF CompleteMember, UpdateMember, ResendCode
<1>14. ASSUME NEW r \in Requests, ReadMember(r) PROVE QuotaInv'
  <2>1. Sending' \subseteq Sending
    BY <1>4, <1>14 DEF ReadMember, Begin, Sending
  <2>2. QED
    BY <1>6, <1>14, <2>1 DEF ReadMember
<1>15. ASSUME NEW r \in Requests, Answer(r) PROVE Sending' \subseteq Sending
  BY <1>4, <1>15 DEF Answer, Idle, Sending
<1>16. ASSUME NEW r \in Requests, ConfirmSignup(r) PROVE QuotaInv'
  <2>1. DOMAIN codes' = DOMAIN codes /\ \A i \in DOMAIN codes : codes'[i].created = codes[i].created
    BY <1>16, ConfirmationKeeps
  <2>2. SentToday' = SentToday
    BY <1>16, <2>1 DEF SentToday, ConfirmSignup
  <2>3. QED
    BY <1>5, <1>15, <1>16, <2>2 DEF ConfirmSignup
<1>17. ASSUME NEW r \in Requests, Die(r) PROVE QuotaInv'
  BY <1>6, <1>15, <1>17 DEF Die
<1>18. QED
  BY <1>9, <1>10, <1>11, <1>12, <1>13, <1>14, <1>16, <1>17 DEF Next

\* The quota is exceeded by at most one code for each further request that can be in
\* progress: a request that has passed it keeps a place until it has sent its code.
THEOREM QuotaIsNearlyKept == Spec => []QuotaNearlyKept
<1>1. Init => QuotaInv
  <2> SUFFICES ASSUME Init PROVE QuotaInv
    OBVIOUS
  <2>1. SentToday = {} /\ Sending = {}
    BY DEF Init, SentToday, Sending, Idle
  <2>2. Cardinality({}) = 0
    BY FS_EmptySet
  <2>3. Cardinality(Requests) \in Nat /\ Quota \in Nat \ {0}
    BY InitType, Counted
  <2>4. QED
    BY <2>1, <2>2, <2>3 DEF QuotaInv
<1>2. TypeOK /\ QuotaInv => QuotaNearlyKept
  <2> SUFFICES ASSUME TypeOK, QuotaInv PROVE QuotaNearlyKept
    OBVIOUS
  <2>1. QED
    BY Counted DEF QuotaInv, QuotaNearlyKept
<1>3. QED
  BY <1>1, <1>2, QuotaStep, SignupTypeCorrect, PTL DEF Spec

-----------------------------------------------------------------------------
\* What Tick allows: no open transaction is older than Latency.
Recent ==
  /\ \A r \in Requests : req[r].since <= now /\ (Open(r) => now - req[r].since <= Latency)
  /\ \A i \in DOMAIN codes : codes[i].created <= now

\* The codes' dates may be out of order, by no more than a transaction can last.
NearlyInOrder ==
  \A i, j \in DOMAIN codes : i < j => codes[i].created <= codes[j].created + Latency

\* The lock of the member's row lets one resend pass at a time,
OneResend == \A r \in Requests : req[r].pc = "resend" => locked = r

\* and what that one has found out about the codes before it stays true.
ResendCooled ==
  \A r \in Requests, i \in DOMAIN codes :
    req[r].pc = "resend" /\ codes[i].resent =>
      req[r].since - codes[i].created >= Cooldown - Latency

ResendInv == Recent /\ NearlyInOrder /\ OneResend /\ ResendCooled /\ ResendsApart

\* The integers that the proof compares.
LEMMA Times ==
  ASSUME TypeOK
  PROVE  /\ now \in Int /\ Latency \in Nat /\ Cooldown \in Nat
         /\ \A r \in Requests : req[r].since \in Int
         /\ \A i \in DOMAIN codes : codes[i].created \in Int
         /\ DOMAIN codes = 1 .. Len(codes) /\ Len(codes) \in Nat
<1>1. now \in Int /\ Latency \in Nat /\ Cooldown \in Nat
  BY SignupAssumption DEF TypeOK
<1>2. \A r \in Requests : req[r].since \in Int
  BY DEF TypeOK
<1>3. DOMAIN codes = 1 .. Len(codes) /\ Len(codes) \in Nat
  BY DEF TypeOK
<1>4. QED
  BY <1>1, <1>2, <1>3, CodeTimes

LEMMA NewCode ==
  ASSUME TypeOK, NEW r \in Requests, NEW resent \in BOOLEAN, Sent(r, resent)
  PROVE  codes'[Len(codes) + 1].created = req[r].since /\ codes'[Len(codes) + 1].resent = resent
<1> DEFINE new == [created |-> req[r].since,
                   expires |-> Expiry + IF resent THEN req[r].since ELSE now,
                   attempts |-> 0, verified |-> FALSE, resent |-> resent]
<1>1. new.created = req[r].since /\ new.resent = resent
  OBVIOUS
<1>2. codes' = Append(codes, new)
  BY DEF Sent
<1>3. codes \in Seq(Code)
  BY DEF TypeOK
<1> HIDE DEF new
<1>4. codes'[Len(codes) + 1] = new
  BY <1>2, <1>3
<1>5. QED
  BY <1>1, <1>4

\* A code keeps its date and its handler, and the requests their beginnings, while the
\* clock goes on: nothing that ResendInv compares has moved.
LEMMA ResendKept ==
  ASSUME TypeOK, ResendInv, UNCHANGED now, DOMAIN codes' = DOMAIN codes,
         \A i \in DOMAIN codes :
           codes'[i].created = codes[i].created /\ codes'[i].resent = codes[i].resent,
         \A r \in Requests :
           /\ req'[r].since <= now /\ (Open(r)' => now - req'[r].since <= Latency)
           /\ req'[r].pc = "resend" => /\ req[r].pc = "resend" /\ req'[r].since = req[r].since
                                       /\ locked' = locked
  PROVE  ResendInv'
<1>1. Recent'
  BY DEF ResendInv, Recent
<1>2. NearlyInOrder'
  BY DEF ResendInv, NearlyInOrder
<1>3. OneResend'
  BY DEF ResendInv, OneResend
<1>4. ResendCooled'
  BY DEF ResendInv, ResendCooled
<1>5. ResendsApart'
  BY DEF ResendInv, ResendsApart
<1>6. QED
  BY <1>1, <1>2, <1>3, <1>4, <1>5 DEF ResendInv

LEMMA ResendStep == TypeOK /\ ResendInv /\ [Next]_vars => ResendInv'
<1> SUFFICES ASSUME TypeOK, ResendInv, [Next]_vars PROVE ResendInv'
  OBVIOUS
<1>1. /\ now \in Int /\ Latency \in Nat /\ Cooldown \in Nat
      /\ \A r \in Requests : req[r].since \in Int
      /\ \A i \in DOMAIN codes : codes[i].created \in Int
      /\ DOMAIN codes = 1 .. Len(codes) /\ Len(codes) \in Nat
  BY Times
<1>2. req \in [Requests -> Request] /\ 1 <= now
  BY SignupAssumption DEF TypeOK, Request
<1>3. /\ \A r \in Requests : req[r].since <= now /\ (Open(r) => now - req[r].since <= Latency)
      /\ \A i \in DOMAIN codes : codes[i].created <= now
  BY DEF ResendInv, Recent
<1>4. ASSUME UNCHANGED <<codes, now, req, locked>> PROVE ResendInv'
  BY <1>3, <1>4, ResendKept DEF Open
\* A request that begins, or changes its stage in a transaction of its own, begins now.
<1>5. ASSUME NEW r \in Requests, NEW new, req' = [req EXCEPT ![r] = new],
             new.since <= now, new.pc \notin {"idle", "failed"} => now - new.since <= Latency,
             new.pc # "resend", locked' = locked \/ locked = r, UNCHANGED now, DOMAIN codes' = DOMAIN codes,
             \A i \in DOMAIN codes :
               codes'[i].created = codes[i].created /\ codes'[i].resent = codes[i].resent
      PROVE  ResendInv'
  <2>1. ASSUME NEW s \in Requests
        PROVE  /\ req'[s].since <= now /\ (Open(s)' => now - req'[s].since <= Latency)
               /\ req'[s].pc = "resend" => /\ req[s].pc = "resend" /\ req'[s].since = req[s].since
                                           /\ locked' = locked
    <3>1. CASE s = r
      BY <1>2, <1>5, <3>1 DEF Open
    <3>2. CASE s # r
      <4>1. req'[s] = req[s]
        BY <1>2, <1>5, <3>2
      <4>2. req[s].pc = "resend" => locked = s
        BY DEF ResendInv, OneResend
      <4>3. QED
        BY <1>3, <1>5, <3>2, <4>1, <4>2 DEF Open
    <3>3. QED
      BY <3>1, <3>2
  <2>2. QED
    BY <1>5, <2>1, ResendKept
<1>7. ASSUME NEW r \in Requests, Answer(r), locked' = locked \/ locked = r, UNCHANGED now,
             DOMAIN codes' = DOMAIN codes,
             \A i \in DOMAIN codes :
               codes'[i].created = codes[i].created /\ codes'[i].resent = codes[i].resent
      PROVE  ResendInv'
  <2>1. Idle.since <= now /\ Idle.pc = "idle"
    BY <1>2 DEF Idle
  <2>2. req' = [req EXCEPT ![r] = Idle]
    BY <1>7 DEF Answer
  <2> HIDE DEF Idle
  <2>3. QED
    BY <1>5, <1>7, <2>1, <2>2
<1>8. ASSUME NEW r \in Requests, NEW pc \in {"insert", "update", "confirm"}, NEW given,
             Begin(r, pc, given), UNCHANGED <<codes, locked, now>>
      PROVE  ResendInv'
  <2> DEFINE new == [pc |-> pc, since |-> now, given |-> given]
  <2>1. new.since <= now /\ now - new.since <= Latency /\ new.pc # "resend"
    BY <1>1, <1>8
  <2>2. req' = [req EXCEPT ![r] = new]
    BY <1>8 DEF Begin
  <2> HIDE DEF new
  <2>3. QED
    BY <1>5, <1>8, <2>1, <2>2
<1>9. ASSUME NEW r \in Requests, NEW resent \in BOOLEAN, Sent(r, resent), Open(r), Answer(r),
             resent => req[r].pc = "resend", UNCHANGED now, locked' = locked \/ locked = r
      PROVE  ResendInv'
  <2> DEFINE k == Len(codes) + 1
  <2>1. /\ DOMAIN codes' = 1 .. k
        /\ \A i \in DOMAIN codes : codes'[i] = codes[i]
        /\ codes'[k].created = req[r].since /\ codes'[k].resent = resent
    BY <1>9, SentCode, NewCode
  <2>2. DOMAIN codes = 1 .. k - 1 /\ k \in Nat /\ DOMAIN codes' = DOMAIN codes \cup {k}
    BY <1>1, <2>1
  <2>3. req[r].since <= now /\ now - req[r].since <= Latency
    BY <1>3, <1>9
  <2>4. \A s \in Requests : /\ s # r => req'[s] = req[s]
                            /\ s = r => req'[s].pc = "idle" /\ req'[s].since = 1
    BY <1>2, <1>9 DEF Answer, Idle
  <2>5. \A s \in Requests : req'[s].pc = "resend" => s # r /\ req[s].pc = "resend"
    BY <2>4
  <2>6. ASSUME NEW s \in Requests, req[s].pc = "resend", resent PROVE s = r
    BY <1>9, <2>6 DEF ResendInv, OneResend
  <2> HIDE DEF k
  <2>7. Recent'
    <3>1. \A i \in DOMAIN codes' : codes'[i].created <= now'
      BY <1>3, <1>9, <2>1, <2>2, <2>3
    <3>2. \A s \in Requests : req'[s].since <= now' /\ (Open(s)' => now' - req'[s].since <= Latency)
      BY <1>2, <1>3, <1>9, <2>4 DEF Open
    <3>3. QED
      BY <3>1, <3>2 DEF Recent
  <2>8. NearlyInOrder'
    <3>1. ASSUME NEW i \in DOMAIN codes', NEW j \in DOMAIN codes', i < j
          PROVE  codes'[i].created <= codes'[j].created + Latency
      <4>1. i \in DOMAIN codes
        BY <2>1, <2>2, <3>1
      <4>2. CASE j = k
        BY <1>1, <1>3, <2>1, <2>3, <4>1, <4>2
      <4>3. CASE j \in DOMAIN codes
        BY <2>1, <3>1, <4>1, <4>3 DEF ResendInv, NearlyInOrder
      <4>4. QED
        BY <2>2, <4>2, <4>3
    <3>2. QED
      BY <3>1 DEF NearlyInOrder
  <2>9. OneResend'
    BY <1>9, <2>5 DEF ResendInv, OneResend
  <2>10. ResendCooled'
    BY <2>1, <2>2, <2>4, <2>5, <2>6 DEF ResendInv, ResendCooled
  <2>11. ResendsApart'
    <3>1. ASSUME NEW i \in DOMAIN codes', NEW j \in DOMAIN codes', i < j,
                 codes'[i].resent, codes'[j].resent
          PROVE  codes'[j].created - codes'[i].created >= Cooldown - Latency
      <4>1. i \in DOMAIN codes
        BY <2>1, <2>2, <3>1
      <4>2. CASE j = k
        BY <1>9, <2>1, <3>1, <4>1, <4>2 DEF ResendInv, ResendCooled
      <4>3. CASE j \in DOMAIN codes
        BY <2>1, <3>1, <4>1, <4>3 DEF ResendInv, ResendsApart
      <4>4. QED
        BY <2>2, <4>2, <4>3
    <3>2. QED
      BY <3>1 DEF ResendsApart
  <2>12. QED
    BY <2>7, <2>8, <2>9, <2>10, <2>11 DEF ResendInv
<1>10. CASE Tick
  <2>1. now' = now + 1 /\ UNCHANGED <<codes, locked, req>>
        /\ \A r \in Requests : Open(r) => now - req[r].since < Latency
    BY <1>10 DEF Tick
  <2>2. Recent'
    <3>1. \A r \in Requests : req[r].since <= now + 1 /\ (Open(r) => (now + 1) - req[r].since <= Latency)
      BY <1>1, <1>3, <2>1
    <3>2. \A i \in DOMAIN codes : codes[i].created <= now + 1
      BY <1>1, <1>3
    <3>3. QED
      BY <2>1, <3>1, <3>2 DEF Recent, Open
  <2>3. NearlyInOrder' /\ OneResend' /\ ResendCooled' /\ ResendsApart'
    BY <2>1 DEF ResendInv, NearlyInOrder, OneResend, ResendCooled, ResendsApart
  <2>4. QED
    BY <2>2, <2>3 DEF ResendInv
<1>11. CASE UNCHANGED vars
  BY <1>4, <1>11 DEF vars
<1>12. ASSUME NEW r \in Requests, Register(r) \/ ReadMember(r) PROVE ResendInv'
  BY <1>8, <1>12 DEF Register, ReadMember
<1>13. ASSUME NEW r \in Requests, InsertMember(r) PROVE ResendInv'
  <2> DEFINE done == [Idle EXCEPT !.pc = "complete", !.since = now]
             late == [Idle EXCEPT !.pc = "failed"]
  <2>1. /\ done.since = now /\ done.pc = "complete"
        /\ late.since = 1 /\ late.pc = "failed"
    BY DEF Idle
  <2>2. UNCHANGED <<codes, locked, now>> /\ \E new \in {done, late} : req' = [req EXCEPT ![r] = new]
    BY <1>13 DEF InsertMember
  <2> HIDE DEF done, late
  <2>3. done.since <= now /\ now - done.since <= Latency /\ late.since <= now
    BY <1>1, <1>2, <2>1
  <2>4. QED
    BY <1>5, <2>1, <2>2, <2>3
<1>14. ASSUME NEW r \in Requests, CompleteMember(r) \/ UpdateMember(r) PROVE ResendInv'
  BY <1>9, <1>14 DEF CompleteMember, UpdateMember, Open
<1>15. ASSUME NEW r \in Requests, ResendCode(r) PROVE ResendInv'
  <2>1. locked = r
    BY <1>15 DEF ResendCode, ResendInv, OneResend
  <2>2. QED
    BY <1>9, <1>15, <2>1 DEF ResendCode, Open
<1>16. ASSUME NEW r \in Requests, ConfirmSignup(r) PROVE ResendInv'
  BY <1>7, <1>16, ConfirmationKeeps DEF ConfirmSignup
<1>17. ASSUME NEW r \in Requests, Die(r) PROVE ResendInv'
  BY <1>7, <1>17 DEF Die
<1>18. ASSUME NEW r \in Requests, LockMember(r) PROVE ResendInv'
  <2>1. /\ CooledDown /\ locked = NoRequest /\ locked' = r /\ UNCHANGED <<codes, now>>
        /\ \A s \in Requests : /\ s # r => req'[s] = req[s]
                               /\ s = r => req'[s].pc = "resend" /\ req'[s].since = now
    BY <1>2, <1>18 DEF LockMember, MemberLockable, Begin
  <2>2. NoRequest \notin Requests
    BY SignupAssumption
  <2>3. Recent'
    BY <1>1, <1>3, <2>1 DEF Recent, Open
  <2>4. NearlyInOrder' /\ ResendsApart'
    BY <2>1 DEF ResendInv, NearlyInOrder, ResendsApart
  <2>5. OneResend'
    BY <2>1, <2>2 DEF ResendInv, OneResend
  <2>6. ASSUME NEW i \in DOMAIN codes PROVE now - codes[i].created >= Cooldown - Latency
    <3>1. Len(codes) \in DOMAIN codes /\ codes # << >>
      BY <1>1
    <3>2. now - codes[Len(codes)].created >= Cooldown
      BY <2>1, <3>1 DEF CooledDown
    <3>3. codes[i].created <= codes[Len(codes)].created + Latency
      <4>1. CASE i < Len(codes)
        BY <3>1, <4>1 DEF ResendInv, NearlyInOrder
      <4>2. CASE i = Len(codes)
        BY <1>1, <4>2
      <4>3. QED
        BY <1>1, <4>1, <4>2
    <3>4. QED
      BY <1>1, <3>1, <3>2, <3>3
  <2>7. ResendCooled'
    BY <2>1, <2>2, <2>6 DEF ResendInv, ResendCooled, OneResend
  <2>8. QED
    BY <2>3, <2>4, <2>5, <2>7 DEF ResendInv
<1>19. QED
  BY <1>10, <1>11, <1>12, <1>13, <1>14, <1>15, <1>16, <1>17, <1>18 DEF Next

\* Two codes that were sent again are the cooldown apart, for any cooldown, less the time
\* a transaction can be open: the lock admits one resend, which looks at the last code.
THEOREM ResendsStayApart == Spec => []ResendsApart
<1>1. Init => ResendInv
  <2> SUFFICES ASSUME Init PROVE ResendInv
    OBVIOUS
  <2>1. codes = << >> /\ now = 1 /\ \A r \in Requests : req[r].pc = "idle" /\ req[r].since = 1
    BY DEF Init, Idle
  <2>2. QED
    BY <2>1 DEF ResendInv, Recent, NearlyInOrder, OneResend, ResendCooled, ResendsApart, Open
<1>2. ResendInv => ResendsApart
  BY DEF ResendInv
<1>3. QED
  BY <1>1, <1>2, ResendStep, SignupTypeCorrect, PTL DEF Spec

=============================================================================
