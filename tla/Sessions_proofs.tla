-------------------------- MODULE Sessions_proofs --------------------------
(* Proofs about Sessions, for any number of accounts, calls and tokens.  The *)
(* argument: a token that is being rotated is live and locked by that call   *)
(* alone, so its commit replaces the one live token of the family, and what  *)
(* is spent never comes back; and what a call has read of an account stays   *)
(* true until it commits, or is checked again by the database.               *)
EXTENDS Sessions, TLAPS

(* Ids are given out in order, and a family is named after an older one.     *)
RowsMade ==
  \A id \in Id : rows[id] # None => id <= made /\ rows[id].family <= made

RotatesRow == \A k \in Call : At(k, "rotate") => rows[call[k].row] # None

LocksLive == \A k \in Call : At(k, "rotating") => IsLive(call[k].row)

LocksDiffer ==
  \A j, k \in Call :
    At(j, "rotating") /\ At(k, "rotating") /\ call[j].row = call[k].row => j = k

TargetsExist == \A k \in Call : At(k, "decide") => call[k].snap[call[k].user] # None

BarredSuspended == \A k \in Call : barred[k] \subseteq Suspended

LinksUnbarred == \A k \in Call : At(k, "link") => call[k].user \notin barred[k]

FoundMade == \A k \in Call : At(k, "apply") => \A id \in call[k].found : rows[id] # None

(* Of an account that a call suspended and nobody minted for since: while    *)
(* its tokens are being revoked it is still the call's to revoke, and its    *)
(* live tokens are those the sweep has found or has yet to look for.         *)
LiveOf(k) == {id \in Id : IsLive(id) /\ rows[id].user \in ended[k]}

EndsHeld ==
  \A k \in Call : ended[k] # {} =>
    /\ call[k].pc \in {"scan", "apply", "done"}
    /\ call[k].pc \in {"scan", "apply"} =>
         /\ ended[k] \subseteq call[k].sweep.users
         /\ call[k].sweep.kind = "READER" => \A id \in LiveOf(k) : rows[id].kind = "READER"
    /\ call[k].pc = "apply" =>
         \A id \in LiveOf(k) : rows[id].kind = call[k].sweep.kind => id \in call[k].found

RowInv == RowsMade /\ RotatesRow /\ LocksLive /\ LocksDiffer /\ OneLivePerFamily
AccountInv == TargetsExist /\ AdminRemains
BarredInv == BarredSuspended /\ LinksUnbarred /\ BarredMintNothing
SweepInv == FoundMade /\ EndsHeld /\ SuccessMeansRevoked

IInv == TypeOK /\ RowInv /\ AccountInv /\ BarredInv /\ SweepInv

----
(* What a call holds at each of its steps.                                   *)
LEMMA HeldTypes ==
  ASSUME NEW c \in Held
  PROVE  /\ c.pc \in {"new", "match", "enroll", "link", "mint", "open", "rotate", "rotating",
                      "begin", "decide", "scan", "apply", "done"}
         /\ c.pc \in {"match", "enroll", "link"} =>
              c \in [pc : {"match", "enroll", "link"}, user : User, verified : BOOLEAN]
         /\ c.pc \in {"mint", "open"} => c \in [pc : {"mint", "open"}, user : User]
         /\ c.pc \in {"rotate", "rotating"} => c \in [pc : {"rotate", "rotating"}, row : Id]
         /\ c.pc = "begin" =>
              c \in [pc : {"begin"}, user : User, change : Role \cup Status, retries : 0..1]
         /\ c.pc = "decide" =>
              c \in [pc : {"decide"}, user : User, change : Role \cup Status, retries : 0..1,
                     snap : [User -> Account \cup {None}]]
         /\ c.pc = "scan" => c \in [pc : {"scan"}, sweep : Sweep]
         /\ c.pc = "apply" => c \in [pc : {"apply"}, sweep : Sweep, found : SUBSET Id]
         /\ c.pc = "done" => c \in [pc : {"done"}, ok : BOOLEAN]
  BY DEF Held

(* A call that moves leaves the others where they are.                       *)
LEMMA GotoTypes ==
  ASSUME TypeOK, NEW k \in Call, NEW step \in Held, Goto(k, step)
  PROVE  /\ call' \in [Call -> Held]
         /\ call'[k] = step
         /\ \A c \in Call \ {k} : call'[c] = call[c]
  BY DEF TypeOK, Goto

LEMMA MovedTo ==
  ASSUME TypeOK, NEW k \in Call, NEW step, Goto(k, step)
  PROVE  call'[k] = step
  BY DEF TypeOK, Goto

LEMMA ReplyTypes ==
  ASSUME TypeOK, NEW k \in Call, NEW ok \in BOOLEAN, Reply(k, ok)
  PROVE  /\ call' \in [Call -> Held]
         /\ call'[k] = [pc |-> "done", ok |-> ok]
         /\ \A c \in Call \ {k} : call'[c] = call[c]
<1>1. [pc |-> "done", ok |-> ok] \in Held
  BY DEF Held
<1> QED BY <1>1, GotoTypes DEF Reply

LEMMA SweepTypes ==
  ASSUME NEW kind \in {"REFRESH", "READER"}, NEW them \in SUBSET User,
         NEW families \in SUBSET Id, NEW ok \in BOOLEAN
  PROVE  SweepOf(kind, them, families, ok) \in Held
<1>1. SweepOf(kind, them, families, ok) \in [pc : {"scan"}, sweep : Sweep]
  BY DEF SweepOf, Sweep
<1> QED BY <1>1 DEF Held

LEMMA ChangedTypes ==
  ASSUME NEW account \in Account, NEW change \in Role \cup Status
  PROVE  Changed(account, change) \in Account
  BY DEF Changed, Account, Role, Status

LEMMA NextId ==
  ASSUME TypeOK, made < MaxRows
  PROVE  made + 1 \in 0..MaxRows /\ made + 1 \in Id
<1>1. made \in 0..MaxRows /\ MaxRows \in Nat
  BY SessionsAssumption DEF TypeOK
<1> QED BY <1>1 DEF Id

LEMMA NewAccount ==
  \A secret \in BOOLEAN :
    [role |-> "MEMBER", status |-> "ACTIVE", password |-> secret] \in Account
  BY DEF Account, Role, Status

----
(* Every step keeps the types.                                               *)
LEMMA EnterTypes ==
  ASSUME TypeOK, NEW k \in Call, Enter(k)
  PROVE  TypeOK'
<1> USE DEF TypeOK, accounts, tokens
<1>b. ASSUME Begin(k)
      PROVE  barred' \in [Call -> SUBSET User] /\ ended' \in [Call -> SUBSET User]
  BY <1>b DEF Begin, Suspended
<1>1. ASSUME NEW u \in User, Register(k, u)
      PROVE  TypeOK'
  <2>1. users' \in [User -> Account \cup {None}]
    BY <1>1, NewAccount DEF Register
  <2>2. [pc |-> "mint", user |-> u] \in Held
    BY DEF Held
  <2>3. call' \in [Call -> Held]
    BY <1>1, <2>2, GotoTypes, ReplyTypes DEF Register
  <2> QED BY <1>1, <1>b, <2>1, <2>3 DEF Register
<1>2. ASSUME NEW u \in User, Login(k, u) \/ OpenBook(k, u)
      PROVE  TypeOK'
  <2>1. [pc |-> "mint", user |-> u] \in Held /\ [pc |-> "open", user |-> u] \in Held
    BY DEF Held
  <2>2. call' \in [Call -> Held]
    BY <1>2, <2>1, GotoTypes, ReplyTypes DEF Login, OpenBook
  <2> QED BY <1>2, <1>b, <2>2 DEF Login, OpenBook
<1>3. ASSUME NEW u \in User, NEW verified \in BOOLEAN, Identify(k, u, verified)
      PROVE  TypeOK'
  <2>1. /\ [pc |-> "mint", user |-> u] \in Held
        /\ [pc |-> "match", user |-> u, verified |-> verified] \in Held
    BY DEF Held
  <2>2. call' \in [Call -> Held]
    BY <1>3, <2>1, GotoTypes, ReplyTypes DEF Identify
  <2> QED BY <1>3, <1>b, <2>2 DEF Identify
<1>4. ASSUME NEW id \in Id, Refresh(k, id) \/ Logout(k, id)
      PROVE  TypeOK'
  <2>1. rows[id] \in Row
    BY <1>4 DEF Refresh, Logout
  <2>2. /\ SweepOf("REFRESH", {}, {rows[id].family}, FALSE) \in Held
        /\ SweepOf("REFRESH", {}, {rows[id].family}, TRUE) \in Held
    <3>1. rows[id].family \in Id
      BY <2>1 DEF Row
    <3>2. {rows[id].family} \in SUBSET Id /\ {} \in SUBSET User /\ {} \in SUBSET Id
      BY <3>1
    <3> QED BY <3>2, SweepTypes
  <2>3. [pc |-> "rotate", row |-> id] \in Held
    BY DEF Held
  <2>4. call' \in [Call -> Held]
    <3>1. CASE Refresh(k, id)
      BY <3>1, <2>2, <2>3, GotoTypes, ReplyTypes DEF Refresh
    <3>2. CASE Logout(k, id)
      BY <3>2, <2>2, GotoTypes DEF Logout
    <3> QED BY <3>1, <3>2, <1>4
  <2> QED BY <1>4, <1>b, <2>4 DEF Refresh, Logout
<1>5. ASSUME NEW u \in User, NEW change \in Role \cup Status, Administer(k, u, change)
      PROVE  TypeOK'
  <2>1. [pc |-> "begin", user |-> u, change |-> change, retries |-> 0] \in Held
    BY DEF Held
  <2>2. call' \in [Call -> Held]
    BY <1>5, <2>1, GotoTypes DEF Administer
  <2> QED BY <1>5, <1>b, <2>2 DEF Administer
<1> QED BY <1>1, <1>2, <1>3, <1>4, <1>5 DEF Enter

LEMMA ProceedTypes ==
  ASSUME TypeOK, LocksLive, FoundMade, TargetsExist, NEW k \in Call, Proceed(k)
  PROVE  TypeOK'
<1> USE DEF TypeOK, accounts, tokens, history
<1>h. call[k] \in Held
  OBVIOUS
<1>1. CASE Match(k) \/ Enroll(k) \/ Link(k)
  <2>1. call[k] \in [pc : {"match", "enroll", "link"}, user : User, verified : BOOLEAN]
    BY <1>1, <1>h, HeldTypes DEF Match, Enroll, Link, At
  <2>2. /\ [call[k] EXCEPT !.pc = "enroll"] \in Held
        /\ [call[k] EXCEPT !.pc = "link"] \in Held
        /\ [pc |-> "mint", user |-> call[k].user] \in Held
    BY <2>1 DEF Held
  <2>3. call' \in [Call -> Held]
    BY <1>1, <2>2, GotoTypes, ReplyTypes DEF Match, Enroll, Link
  <2>4. users' \in [User -> Account \cup {None}]
    BY <1>1, <2>1, NewAccount DEF Match, Enroll, Link
  <2>5. linked' \subseteq User
    BY <1>1, <2>1 DEF Match, Enroll, Link
  <2> QED BY <1>1, <2>3, <2>4, <2>5 DEF Match, Enroll, Link
<1>2. CASE Mint(k) \/ CreateSession(k)
  <2>1. call[k].user \in User
    BY <1>2, <1>h, HeldTypes DEF Mint, CreateSession, At
  <2>2. made' = made + 1 /\ made' \in 0..MaxRows /\ made' \in Id
    BY <1>2, NextId DEF Mint, CreateSession
  <2>3. \A kind \in {"REFRESH", "READER"} :
          [kind |-> kind, user |-> call[k].user, family |-> made', revoked |-> FALSE] \in Row
    BY <2>1, <2>2 DEF Row
  <2>4. rows' \in [Id -> Row \cup {None}]
    BY <1>2, <2>2, <2>3 DEF Mint, CreateSession
  <2>5. call' \in [Call -> Held]
    BY <1>2, ReplyTypes DEF Mint, CreateSession
  <2>6. ended' \in [Call -> SUBSET User] /\ barred' = barred
    BY <1>2 DEF Mint, CreateSession, MintedFor
  <2> QED BY <1>2, <2>2, <2>4, <2>5, <2>6 DEF Mint, CreateSession
<1>3. CASE Claim(k) \/ RotationFails(k)
  <2>1. call[k] \in [pc : {"rotate", "rotating"}, row : Id]
    BY <1>3, <1>h, HeldTypes DEF Claim, RotationFails, At
  <2>2. [call[k] EXCEPT !.pc = "rotating"] \in Held
    BY <2>1 DEF Held
  <2>3. call' \in [Call -> Held]
    BY <1>3, <2>2, GotoTypes, ReplyTypes DEF Claim, RotationFails
  <2> QED BY <1>3, <2>3 DEF Claim, RotationFails
<1>4. CASE CommitRotation(k)
  <2>1. call[k].row \in Id /\ rows[call[k].row] \in Row
    BY <1>4, <1>h, HeldTypes DEF CommitRotation, At, LocksLive, IsLive
  <2>2. made' = made + 1 /\ made' \in 0..MaxRows /\ made' \in Id
    BY <1>4, NextId DEF CommitRotation
  <2>3. \A gone \in BOOLEAN : [rows[call[k].row] EXCEPT !.revoked = gone] \in Row
    BY <2>1 DEF Row
  <2>4. rows' \in [Id -> Row \cup {None}]
    BY <1>4, <2>1, <2>2, <2>3 DEF CommitRotation
  <2>5. call' \in [Call -> Held]
    BY <1>4, ReplyTypes DEF CommitRotation
  <2>6. ended' \in [Call -> SUBSET User] /\ barred' = barred
    BY <1>4 DEF CommitRotation, MintedFor
  <2> QED BY <1>4, <2>2, <2>4, <2>5, <2>6 DEF CommitRotation
<1>5. CASE TakeSnapshot(k)
  <2>1. call[k] \in [pc : {"begin"}, user : User, change : Role \cup Status, retries : 0..1]
    BY <1>5, <1>h, HeldTypes DEF TakeSnapshot, At
  <2>2. [pc |-> "decide", user |-> call[k].user, change |-> call[k].change,
         retries |-> call[k].retries, snap |-> users] \in Held
    BY <2>1 DEF Held
  <2>3. call' \in [Call -> Held]
    BY <1>5, <2>2, GotoTypes, ReplyTypes DEF TakeSnapshot
  <2> QED BY <1>5, <2>3 DEF TakeSnapshot
<1>6. CASE CommitChange(k)
  <2>1. call[k] \in [pc : {"decide"}, user : User, change : Role \cup Status, retries : 0..1,
                     snap : [User -> Account \cup {None}]]
    BY <1>6, <1>h, HeldTypes DEF CommitChange, At
  <2>2. users[call[k].user] \in Account
    BY <1>6, <2>1 DEF CommitChange, Serializes, TargetsExist
  <2>3. Changed(users[call[k].user], call[k].change) \in Account
    BY <2>1, <2>2, ChangedTypes
  <2>4. SweepOf("REFRESH", {call[k].user}, {}, TRUE) \in Held
    <3>1. {call[k].user} \in SUBSET User /\ {} \in SUBSET Id
      BY <2>1
    <3> QED BY <3>1, SweepTypes
  <2>5. call' \in [Call -> Held]
    <3>1. Goto(k, SweepOf("REFRESH", {call[k].user}, {}, TRUE)) \/ Reply(k, TRUE)
      BY <1>6 DEF CommitChange
    <3> QED BY <3>1, <2>4, GotoTypes, ReplyTypes
  <2>6. barred' \in [Call -> SUBSET User] /\ ended' \in [Call -> SUBSET User]
    <3>1. \/ ended' = ended
          \/ ended' = [ended EXCEPT ![k] = {call[k].user}] /\ {call[k].user} \subseteq User
      BY <1>6, <2>1 DEF CommitChange
    <3>2. ended' \in [Call -> SUBSET User]
      BY <3>1
    <3> QED BY <1>6, <3>2 DEF CommitChange
  <2>7. users' \in [User -> Account \cup {None}]
    BY <1>6, <2>1, <2>3 DEF CommitChange
  <2> QED BY <1>6, <2>5, <2>6, <2>7 DEF CommitChange
<1>7. CASE RefuseChange(k) \/ AbortChange(k)
  <2>1. call[k] \in [pc : {"decide"}, user : User, change : Role \cup Status, retries : 0..1,
                     snap : [User -> Account \cup {None}]]
    BY <1>7, <1>h, HeldTypes DEF RefuseChange, AbortChange, At
  <2>2. call[k].retries < 1 =>
          [pc |-> "begin", user |-> call[k].user, change |-> call[k].change,
           retries |-> call[k].retries + 1] \in Held
    BY <2>1 DEF Held
  <2>3. call' \in [Call -> Held]
    BY <1>7, <2>2, GotoTypes, ReplyTypes DEF RefuseChange, AbortChange
  <2> QED BY <1>7, <2>3 DEF RefuseChange, AbortChange
<1>8. CASE Scan(k)
  <2>1. call[k] \in [pc : {"scan"}, sweep : Sweep]
    BY <1>8, <1>h, HeldTypes DEF Scan, At
  <2>2. Found(call[k].sweep) \in SUBSET Id
    BY DEF Found
  <2>3. [pc |-> "apply", sweep |-> call[k].sweep, found |-> Found(call[k].sweep)] \in Held
    BY <2>1, <2>2 DEF Held
  <2>4. call' \in [Call -> Held]
    BY <1>8, <2>3, GotoTypes DEF Scan
  <2> QED BY <1>8, <2>4 DEF Scan
<1>9. CASE Apply(k) \/ SweepFails(k)
  <2>1. call[k] \in [pc : {"apply"}, sweep : Sweep, found : SUBSET Id]
    BY <1>9, <1>h, HeldTypes DEF Apply, SweepFails, At
  <2>2. AfterSweep(call[k].sweep) \in Held /\ FailedSweep(call[k].sweep) \in Held
    <3>1. /\ call[k].sweep.users \in SUBSET User
          /\ call[k].sweep.ok \in BOOLEAN /\ {} \in SUBSET Id
      BY <2>1 DEF Sweep
    <3>2. SweepOf("READER", call[k].sweep.users, {}, call[k].sweep.ok) \in Held
      BY <3>1, SweepTypes
    <3>3. \A ok \in BOOLEAN : [pc |-> "done", ok |-> ok] \in Held
      BY DEF Held
    <3>4. FailedSweep(call[k].sweep) \in Held
      BY <3>3 DEF FailedSweep
    <3>5. AfterSweep(call[k].sweep) \in Held
      BY <3>1, <3>2, <3>3 DEF AfterSweep
    <3> QED BY <3>4, <3>5
  <2>3. call' \in [Call -> Held]
    BY <1>9, <2>2, GotoTypes DEF Apply, SweepFails
  <2>4. rows' \in [Id -> Row \cup {None}]
    <3>1. \A id \in call[k].found : rows[id] \in Row => [rows[id] EXCEPT !.revoked = TRUE] \in Row
      BY DEF Row
    <3>2. Apply(k) => \A id \in call[k].found : rows[id] \in Row
      BY <2>1 DEF FoundMade, Apply
    <3> QED BY <1>9, <3>1, <3>2 DEF Apply, SweepFails, Revoked
  <2> QED BY <1>9, <2>3, <2>4 DEF Apply, SweepFails
<1> QED BY <1>1, <1>2, <1>3, <1>4, <1>5, <1>6, <1>7, <1>8, <1>9 DEF Proceed

Moves(k) == Enter(k) \/ Proceed(k) \/ Die(k)

LEMMA TypeStep ==
  ASSUME TypeOK, LocksLive, FoundMade, TargetsExist, NEW k \in Call, Moves(k)
  PROVE  TypeOK'
<1>1. CASE Die(k)
  <2>1. call' \in [Call -> Held]
    BY <1>1, ReplyTypes DEF Die
  <2> QED BY <1>1, <2>1 DEF Die, TypeOK, accounts, tokens, history
<1> QED BY <1>1, EnterTypes, ProceedTypes DEF Moves

----
(* A step writes rows only where the code does, and moves one call.          *)
WritesRows(k) == Mint(k) \/ CreateSession(k) \/ CommitRotation(k) \/ Apply(k)

LEMMA RowsWritten ==
  ASSUME NEW k \in Call, Moves(k)
  PROVE  WritesRows(k) \/ (rows' = rows /\ made' = made)
<1>1. CASE Enter(k)
  BY <1>1 DEF Enter, Register, Login, OpenBook, Identify, Refresh, Logout, Administer, tokens
<1>2. CASE Proceed(k)
  BY <1>2 DEF Proceed, WritesRows, Match, Enroll, Link, Claim, RotationFails, TakeSnapshot,
    CommitChange, RefuseChange, AbortChange, Scan, SweepFails, tokens
<1>3. CASE Die(k)
  BY <1>3 DEF Die, tokens
<1> QED BY <1>1, <1>2, <1>3 DEF Moves

LEMMA OthersStay ==
  ASSUME TypeOK, NEW k \in Call, Moves(k)
  PROVE  \A c \in Call \ {k} : call'[c] = call[c]
<1> USE DEF Goto, Reply, TypeOK
<1>1. CASE Enter(k)
  BY <1>1 DEF Enter, Register, Login, OpenBook, Identify, Refresh, Logout, Administer
<1>2. CASE Proceed(k)
  BY <1>2 DEF Proceed, Match, Enroll, Link, Mint, CreateSession, Claim, CommitRotation,
    RotationFails, TakeSnapshot, CommitChange, RefuseChange, AbortChange, Scan, Apply, SweepFails
<1>3. CASE Die(k)
  BY <1>3 DEF Die
<1> QED BY <1>1, <1>2, <1>3 DEF Moves

(* Only a claim locks a row.                                                 *)
LEMMA LocksTaken ==
  ASSUME TypeOK, NEW k \in Call, Moves(k), At(k, "rotating")'
  PROVE  Claim(k) /\ MayRotate(call[k].row) /\ call'[k].row = call[k].row
<1> USE DEF Goto, Reply, TypeOK, At
<1>1. ~Enter(k)
  BY DEF Enter, Register, Login, OpenBook, Identify, Refresh, Logout, Administer, SweepOf
<1>2. ~Die(k)
  BY DEF Die
<1>3. Proceed(k)
  BY <1>1, <1>2 DEF Moves
<1>4. ~(Match(k) \/ Enroll(k) \/ Link(k) \/ Mint(k) \/ CreateSession(k) \/ CommitRotation(k)
         \/ RotationFails(k))
  <2>1. Match(k) \/ Enroll(k) =>
          call[k] \in [pc : {"match", "enroll", "link"}, user : User, verified : BOOLEAN]
    BY HeldTypes DEF Match, Enroll
  <2>2. ~(Match(k) \/ Enroll(k))
    BY <2>1 DEF Match, Enroll
  <2> QED BY <2>2 DEF Link, Mint, CreateSession, CommitRotation, RotationFails
<1>5. ~(TakeSnapshot(k) \/ CommitChange(k) \/ RefuseChange(k) \/ AbortChange(k))
  BY DEF TakeSnapshot, CommitChange, RefuseChange, AbortChange, SweepOf
<1>6. ~(Scan(k) \/ Apply(k) \/ SweepFails(k))
  BY DEF Scan, Apply, SweepFails, SweepOf, AfterSweep, FailedSweep
<1>7. Claim(k)
  BY <1>3, <1>4, <1>5, <1>6 DEF Proceed
<1>8. call[k] \in [pc : {"rotate", "rotating"}, row : Id]
  BY <1>7, HeldTypes DEF Claim
<1> QED BY <1>7, <1>8 DEF Claim

----
(* A row that exists stays what it is, and is never live again once revoked. *)
LEMMA RevokedRow ==
  ASSUME NEW row \in Row
  PROVE  /\ [row EXCEPT !.revoked = TRUE] \in Row
         /\ [row EXCEPT !.revoked = TRUE] # None
         /\ [row EXCEPT !.revoked = TRUE].revoked
         /\ [row EXCEPT !.revoked = TRUE].kind = row.kind
         /\ [row EXCEPT !.revoked = TRUE].user = row.user
         /\ [row EXCEPT !.revoked = TRUE].family = row.family
<1>1. [row EXCEPT !.revoked = TRUE] \in Row
  BY DEF Row
<1> QED BY <1>1, NoneAssumption DEF Row

LEMMA FreshId ==
  ASSUME TypeOK, RowsMade, NEW id \in Id, rows[id] # None
  PROVE  rows[id] \in Row /\ id # made + 1
<1>1. made \in Nat /\ id \in Nat /\ id <= made
  BY SessionsAssumption DEF TypeOK, RowsMade, Id
<1> QED BY <1>1 DEF TypeOK

LEMMA MadeNat ==
  ASSUME TypeOK
  PROVE  made \in Nat /\ MaxRows \in Nat /\ made + 1 >= made
<1>1. made \in Nat /\ MaxRows \in Nat
  BY SessionsAssumption DEF TypeOK
<1> QED BY <1>1

LEMMA RowsStay ==
  ASSUME TypeOK, RowsMade, LocksLive, FoundMade, NEW k \in Call, Moves(k)
  PROVE  /\ made' >= made
         /\ \A id \in Id : rows[id] # None =>
              /\ rows'[id] # None /\ rows'[id].kind = rows[id].kind
              /\ rows'[id].user = rows[id].user /\ rows'[id].family = rows[id].family
              /\ IsLive(id)' => IsLive(id)
<1> USE DEF IsLive
<1>1. CASE rows' = rows /\ made' = made
  BY <1>1 DEF TypeOK
<1>2. CASE Mint(k) \/ CreateSession(k)
  <2>1. made' >= made
    BY <1>2, MadeNat DEF Mint, CreateSession
  <2>2. rows' = [rows EXCEPT ![made + 1] = rows'[made + 1]]
    BY <1>2 DEF Mint, CreateSession, TypeOK
  <2>3. \A id \in Id : rows[id] # None => rows'[id] = rows[id]
    BY <1>2, <2>2, FreshId DEF TypeOK
  <2> QED BY <2>1, <2>3
<1>3. CASE CommitRotation(k)
  <2>1. made' >= made
    BY <1>3, MadeNat DEF CommitRotation
  <2>2. call[k].row \in Id /\ rows[call[k].row] # None
    BY <1>3, HeldTypes DEF CommitRotation, At, LocksLive, TypeOK
  <2>3. rows[call[k].row] \in Row /\ call[k].row # made + 1
    BY <2>2, FreshId
  <2>4. rows'[call[k].row] = [rows[call[k].row] EXCEPT !.revoked = TRUE]
    BY <1>3, <2>2, <2>3 DEF CommitRotation, TypeOK
  <2>5. \A id \in Id \ {call[k].row} : rows[id] # None => rows'[id] = rows[id]
    BY <1>3, <2>2, FreshId DEF CommitRotation, TypeOK
  <2>6. ASSUME NEW id \in Id, rows[id] # None
        PROVE  /\ rows'[id] # None /\ rows'[id].kind = rows[id].kind
               /\ rows'[id].user = rows[id].user /\ rows'[id].family = rows[id].family
               /\ IsLive(id)' => IsLive(id)
    <3>1. CASE id = call[k].row
      BY <3>1, <2>3, <2>4, RevokedRow
    <3>2. CASE id # call[k].row
      BY <3>2, <2>5, <2>6
    <3> QED BY <3>1, <3>2
  <2> QED BY <2>1, <2>6
<1>4. CASE Apply(k)
  <2>1. made' >= made
    BY <1>4, MadeNat DEF Apply
  <2>2. \A id \in Id : rows'[id] = rows[id] \/ rows'[id] = [rows[id] EXCEPT !.revoked = TRUE]
    BY <1>4 DEF Apply, Revoked
  <2>3. ASSUME NEW id \in Id, rows[id] # None
        PROVE  /\ rows'[id] # None /\ rows'[id].kind = rows[id].kind
               /\ rows'[id].user = rows[id].user /\ rows'[id].family = rows[id].family
               /\ IsLive(id)' => IsLive(id)
    <3>1. rows[id] \in Row
      BY <2>3, FreshId
    <3>2. CASE rows'[id] = rows[id]
      BY <3>2, <2>3
    <3>3. CASE rows'[id] = [rows[id] EXCEPT !.revoked = TRUE]
      BY <3>1, <3>3, RevokedRow
    <3> QED BY <2>2, <3>2, <3>3
  <2> QED BY <2>1, <2>3
<1> QED BY <1>1, <1>2, <1>3, <1>4, RowsWritten DEF WritesRows

----
(* Tokens: OneLivePerFamily and what it rests on.                            *)
LEMMA RotationStarts ==
  ASSUME TypeOK, NEW k \in Call, Moves(k), At(k, "rotate")'
  PROVE  \E id \in Id : Refresh(k, id) /\ rows[id] # None /\ call'[k].row = id
<1> USE DEF Goto, Reply, TypeOK, At
<1>1. ~Proceed(k)
  <2>1. ~(Match(k) \/ Enroll(k))
    <3>1. Match(k) \/ Enroll(k) =>
            call[k] \in [pc : {"match", "enroll", "link"}, user : User, verified : BOOLEAN]
      BY HeldTypes DEF Match, Enroll
    <3> QED BY <3>1 DEF Match, Enroll
  <2>2. ~Claim(k)
    <3>1. Claim(k) => call[k] \in [pc : {"rotate", "rotating"}, row : Id]
      BY HeldTypes DEF Claim
    <3> QED BY <3>1 DEF Claim
  <2>3. ~(Link(k) \/ Mint(k) \/ CreateSession(k) \/ CommitRotation(k) \/ RotationFails(k))
    BY DEF Link, Mint, CreateSession, CommitRotation, RotationFails
  <2>4. ~(TakeSnapshot(k) \/ CommitChange(k) \/ RefuseChange(k) \/ AbortChange(k))
    BY DEF TakeSnapshot, CommitChange, RefuseChange, AbortChange, SweepOf
  <2>5. ~(Scan(k) \/ Apply(k) \/ SweepFails(k))
    BY DEF Scan, Apply, SweepFails, SweepOf, AfterSweep, FailedSweep
  <2> QED BY <2>1, <2>2, <2>3, <2>4, <2>5 DEF Proceed
<1>2. Enter(k)
  BY <1>1 DEF Moves, Die
<1>3. PICK id \in Id : Refresh(k, id)
  BY <1>2 DEF Enter, Register, Login, OpenBook, Identify, Logout, Administer, SweepOf
<1> QED BY <1>3 DEF Refresh, SweepOf

LEMMA RowsMadeStep ==
  ASSUME TypeOK, TypeOK', RowsMade, LocksLive, FoundMade, NEW k \in Call, Moves(k)
  PROVE  RowsMade'
<1> SUFFICES ASSUME NEW id \in Id, rows'[id] # None
             PROVE  id <= made' /\ rows'[id].family <= made'
  BY DEF RowsMade
<1>1. rows'[id] \in Row /\ made \in Nat /\ made' \in Nat /\ id \in Nat
  BY MadeNat DEF TypeOK, Id
<1>2. CASE rows[id] # None
  <2>1. id <= made /\ rows[id].family <= made /\ made' >= made
    BY <1>2, RowsStay DEF RowsMade
  <2>2. rows'[id].family = rows[id].family /\ rows[id] \in Row
    BY <1>2, RowsStay DEF TypeOK
  <2> QED BY <1>1, <2>1, <2>2 DEF Row, Id
<1>3. CASE rows[id] = None
  <2>1. ~Apply(k)
    BY <1>3 DEF Apply, Revoked, FoundMade
  <2>2. CASE Mint(k) \/ CreateSession(k)
    <3>1. id = made'
      BY <1>3, <2>2 DEF Mint, CreateSession, TypeOK
    <3>2. rows'[id].family = made'
      <4>1. \E kind \in {"REFRESH", "READER"} :
              rows' = [rows EXCEPT ![id] = [kind |-> kind, user |-> call[k].user,
                                            family |-> made', revoked |-> FALSE]]
        BY <2>2, <3>1 DEF Mint, CreateSession
      <4> QED BY <4>1 DEF TypeOK
    <3> QED BY <1>1, <3>1, <3>2
  <2>3. CASE CommitRotation(k)
    <3>1. call[k].row \in Id /\ rows[call[k].row] # None
      BY <2>3, HeldTypes DEF CommitRotation, At, LocksLive, IsLive, TypeOK
    <3>2. id = made' /\ rows'[id] = [rows[call[k].row] EXCEPT !.revoked = FALSE]
      BY <1>3, <2>3, <3>1 DEF CommitRotation, TypeOK
    <3>3. rows[call[k].row] \in Row /\ rows[call[k].row].family <= made /\ made' >= made
      BY <3>1, FreshId, RowsStay DEF RowsMade
    <3>4. rows'[id].family = rows[call[k].row].family
      BY <3>2, <3>3 DEF Row
    <3> QED BY <1>1, <3>2, <3>3, <3>4 DEF Row, Id
  <2> QED BY <1>3, <2>1, <2>2, <2>3, RowsWritten DEF WritesRows
<1> QED BY <1>2, <1>3

LEMMA RotatesRowStep ==
  ASSUME TypeOK, RowsMade, LocksLive, FoundMade, RotatesRow, NEW k \in Call, Moves(k)
  PROVE  RotatesRow'
<1> SUFFICES ASSUME NEW c \in Call, At(c, "rotate")'
             PROVE  rows'[call'[c].row] # None
  BY DEF RotatesRow
<1>1. CASE c = k
  BY <1>1, RotationStarts, RowsStay
<1>2. CASE c # k
  <2>1. call'[c] = call[c]
    BY <1>2, OthersStay
  <2>2. At(c, "rotate") /\ call[c].row \in Id
    BY <2>1, HeldTypes DEF At, TypeOK
  <2> QED BY <2>1, <2>2, RowsStay DEF RotatesRow
<1> QED BY <1>1, <1>2

(* Nobody but the caller writes a row that it has locked.                    *)
LEMMA LocksLiveStep ==
  ASSUME TypeOK, RowsMade, LocksLive, LocksDiffer, RotatesRow, FoundMade,
         NEW k \in Call, Moves(k)
  PROVE  LocksLive'
<1> SUFFICES ASSUME NEW c \in Call, At(c, "rotating")'
             PROVE  rows'[call'[c].row] # None /\ ~rows'[call'[c].row].revoked
  BY DEF LocksLive, IsLive
<1>1. CASE c = k
  <2>1. Claim(k) /\ MayRotate(call[k].row) /\ call'[k].row = call[k].row
    BY <1>1, LocksTaken
  <2>2. rows[call[k].row] # None
    BY <2>1 DEF Claim, RotatesRow
  <2> QED BY <1>1, <2>1, <2>2 DEF Claim, MayRotate, IsLive, tokens
<1>2. CASE c # k
  <2>1. call'[c] = call[c] /\ At(c, "rotating")
    BY <1>2, OthersStay DEF At
  <2> DEFINE id == call[c].row
  <2>2. id \in Id /\ IsLive(id) /\ IsLocked(id)
    BY <2>1, HeldTypes DEF At, TypeOK, LocksLive, IsLocked
  <2>3. rows'[id] = rows[id]
    <3>1. CASE Mint(k) \/ CreateSession(k)
      <4>1. id # made + 1
        BY <2>2, FreshId DEF IsLive
      <4> QED BY <3>1, <2>2, <4>1 DEF Mint, CreateSession, TypeOK
    <3>2. CASE CommitRotation(k)
      <4>1. id # made + 1
        BY <2>2, FreshId DEF IsLive
      <4>2. id # call[k].row
        BY <1>2, <2>1, <3>2 DEF CommitRotation, At, LocksDiffer
      <4> QED BY <3>2, <2>2, <4>1, <4>2 DEF CommitRotation, TypeOK
    <3>3. CASE Apply(k)
      BY <3>3, <2>2 DEF Apply, Revoked
    <3> QED BY <3>1, <3>2, <3>3, RowsWritten DEF WritesRows
  <2> QED BY <2>1, <2>2, <2>3 DEF IsLive
<1> QED BY <1>1, <1>2

LEMMA LocksDifferStep ==
  ASSUME TypeOK, LocksDiffer, NEW k \in Call, Moves(k)
  PROVE  LocksDiffer'
<1> SUFFICES ASSUME NEW j \in Call, NEW c \in Call, j # c,
                    At(j, "rotating")', At(c, "rotating")', call'[j].row = call'[c].row
             PROVE  FALSE
  BY DEF LocksDiffer
<1>1. CASE j # k /\ c # k
  BY <1>1, OthersStay DEF LocksDiffer, At
<1>2. ASSUME NEW mover \in Call, NEW other \in Call, mover = k, other # k,
             At(mover, "rotating")', At(other, "rotating")',
             call'[mover].row = call'[other].row
      PROVE  FALSE
  <2>1. Claim(k) /\ call'[k].row = call[k].row
    BY <1>2, LocksTaken
  <2>2. call'[other] = call[other] /\ At(other, "rotating")
    BY <1>2, OthersStay DEF At
  <2>3. IsLocked(call[k].row)
    BY <1>2, <2>1, <2>2 DEF IsLocked, At
  <2> QED BY <2>1, <2>3 DEF Claim
<1> QED BY <1>1, <1>2

LEMMA OneLiveStep ==
  ASSUME TypeOK, TypeOK', RowsMade, LocksLive, FoundMade, OneLivePerFamily,
         NEW k \in Call, Moves(k)
  PROVE  OneLivePerFamily'
<1> SUFFICES ASSUME NEW one \in Id, NEW other \in Id, one # other,
                    rows'[one] # None, ~rows'[one].revoked,
                    rows'[other] # None, ~rows'[other].revoked,
                    rows'[one].family = rows'[other].family
             PROVE  FALSE
  BY DEF OneLivePerFamily, IsLive
<1>1. ASSUME NEW id \in Id, rows[id] # None
      PROVE  /\ rows'[id].family = rows[id].family
             /\ ~rows'[id].revoked => IsLive(id)
  BY <1>1, RowsStay DEF IsLive
<1>2. CASE rows[one] # None /\ rows[other] # None
  BY <1>1, <1>2 DEF OneLivePerFamily
(* One of the two is new: it was minted, or it succeeds the only live one.   *)
<1>3. ASSUME NEW new \in Id, NEW old \in Id, new # old,
             rows[new] = None, rows'[new] # None,
             rows'[old] # None, ~rows'[old].revoked,
             rows'[new].family = rows'[old].family
      PROVE  FALSE
  <2>1. ~Apply(k)
    BY <1>3 DEF Apply, Revoked, FoundMade
  <2>2. made' = made + 1 /\ \A id \in Id \ {made'} : rows[id] = None => rows'[id] = None
    <3>1. CASE Mint(k) \/ CreateSession(k)
      BY <3>1 DEF Mint, CreateSession, TypeOK
    <3>2. CASE CommitRotation(k)
      <4>1. call[k].row \in Id /\ rows[call[k].row] # None
        BY <3>2, HeldTypes DEF CommitRotation, At, LocksLive, IsLive, TypeOK
      <4> QED BY <3>2, <4>1 DEF CommitRotation, TypeOK
    <3> QED BY <1>3, <2>1, <3>1, <3>2, RowsWritten DEF WritesRows
  <2>3. new = made' /\ rows[old] # None
    BY <1>3, <2>2
  <2>4. rows'[old].family = rows[old].family /\ IsLive(old)
    BY <1>1, <1>3, <2>3
  <2>5. CASE Mint(k) \/ CreateSession(k)
    <3>1. \E kind \in {"REFRESH", "READER"} :
            rows' = [rows EXCEPT ![new] = [kind |-> kind, user |-> call[k].user,
                                           family |-> made', revoked |-> FALSE]]
      BY <2>3, <2>5 DEF Mint, CreateSession
    <3>2. rows'[new].family = made + 1
      BY <2>2, <3>1 DEF TypeOK
    <3>3. rows[old].family <= made /\ rows[old] \in Row
      BY <2>3 DEF RowsMade, TypeOK
    <3>4. rows[old].family \in Nat /\ made \in Nat
      BY <3>3, MadeNat DEF Row, Id
    <3> QED BY <1>3, <2>4, <3>2, <3>3, <3>4
  <2>6. CASE CommitRotation(k)
    <3>1. call[k].row \in Id /\ IsLive(call[k].row) /\ rows[call[k].row] \in Row
      BY <2>6, HeldTypes, FreshId DEF CommitRotation, At, LocksLive, IsLive, TypeOK
    <3>2. call[k].row # new
      BY <1>3, <3>1 DEF IsLive
    <3>3. /\ rows'[call[k].row] = [rows[call[k].row] EXCEPT !.revoked = TRUE]
          /\ rows'[new] = [rows[call[k].row] EXCEPT !.revoked = FALSE]
      BY <2>3, <2>6, <3>1, <3>2 DEF CommitRotation, TypeOK
    <3>4. rows'[call[k].row].revoked /\ rows'[new].family = rows[call[k].row].family
      BY <3>1, <3>3 DEF Row
    <3>5. old = call[k].row
      BY <1>3, <2>4, <3>1, <3>4 DEF OneLivePerFamily
    <3> QED BY <1>3, <3>4, <3>5
  <2> QED BY <1>3, <2>1, <2>5, <2>6, RowsWritten DEF WritesRows
<1>4. CASE rows[one] = None
  <2>1. CASE rows[other] # None
    BY <1>3, <1>4, <2>1
  <2> QED BY <1>3, <1>4
<1>5. CASE rows[other] = None
  BY <1>3, <1>5
<1> QED BY <1>2, <1>4, <1>5

----
(* Administrators: whoever counts them keeps one besides the account it      *)
(* changes, and the database lets it commit only if they are still there.    *)
LEMMA DecisionStarts ==
  ASSUME TypeOK, NEW k \in Call, Moves(k), At(k, "decide")'
  PROVE  call'[k].snap[call'[k].user] # None
<1> USE DEF Goto, Reply, TypeOK, At
<1>1. ~Enter(k)
  BY DEF Enter, Register, Login, OpenBook, Identify, Refresh, Logout, Administer, SweepOf
<1>2. Proceed(k)
  BY <1>1 DEF Moves, Die
<1>3. ~(Match(k) \/ Enroll(k))
  <2>1. Match(k) \/ Enroll(k) =>
          call[k] \in [pc : {"match", "enroll", "link"}, user : User, verified : BOOLEAN]
    BY HeldTypes DEF Match, Enroll
  <2> QED BY <2>1 DEF Match, Enroll
<1>4. ~Claim(k)
  <2>1. Claim(k) => call[k] \in [pc : {"rotate", "rotating"}, row : Id]
    BY HeldTypes DEF Claim
  <2> QED BY <2>1 DEF Claim
<1>5. ~(Link(k) \/ Mint(k) \/ CreateSession(k) \/ CommitRotation(k) \/ RotationFails(k))
  BY DEF Link, Mint, CreateSession, CommitRotation, RotationFails
<1>6. ~(CommitChange(k) \/ RefuseChange(k) \/ AbortChange(k))
  BY DEF CommitChange, RefuseChange, AbortChange, SweepOf
<1>7. ~(Scan(k) \/ Apply(k) \/ SweepFails(k))
  BY DEF Scan, Apply, SweepFails, SweepOf, AfterSweep, FailedSweep
<1>8. TakeSnapshot(k)
  BY <1>2, <1>3, <1>4, <1>5, <1>6, <1>7 DEF Proceed
<1> QED BY <1>8 DEF TakeSnapshot

LEMMA TargetsExistStep ==
  ASSUME TypeOK, TargetsExist, NEW k \in Call, Moves(k)
  PROVE  TargetsExist'
<1> SUFFICES ASSUME NEW c \in Call, At(c, "decide")'
             PROVE  call'[c].snap[call'[c].user] # None
  BY DEF TargetsExist
<1>1. CASE c = k
  BY <1>1, DecisionStarts
<1>2. CASE c # k
  BY <1>2, OthersStay DEF TargetsExist, At
<1> QED BY <1>1, <1>2

(* How the accounts change: one is created, or an administrator changes one. *)
LEMMA UsersWritten ==
  ASSUME TypeOK, NEW k \in Call, Moves(k)
  PROVE  \/ users' = users
         \/ \E u \in User, secret \in BOOLEAN :
              /\ users[u] = None
              /\ users' = [users EXCEPT ![u] =
                   [role |-> "MEMBER", status |-> "ACTIVE", password |-> secret]]
              /\ Register(k, u) \/ (Enroll(k) /\ u = call[k].user)
         \/ CommitChange(k)
<1>1. CASE Enter(k)
  <2>1. CASE \E u \in User : Register(k, u)
    BY <2>1 DEF Register
  <2>2. CASE ~\E u \in User : Register(k, u)
    BY <1>1, <2>2 DEF Enter, Login, OpenBook, Identify, Refresh, Logout, Administer, accounts
  <2> QED BY <2>1, <2>2
<1>2. CASE Proceed(k)
  <2>1. CASE Enroll(k)
    <3>1. call[k].user \in User
      BY <2>1, HeldTypes DEF Enroll, At, TypeOK
    <3> QED BY <2>1, <3>1 DEF Enroll
  <2> QED BY <1>2, <2>1 DEF Proceed, Match, Link, Mint, CreateSession, Claim, CommitRotation,
    RotationFails, TakeSnapshot, RefuseChange, AbortChange, Scan, Apply, SweepFails, accounts
<1>3. CASE Die(k)
  BY <1>3 DEF Die, accounts
<1> QED BY <1>1, <1>2, <1>3 DEF Moves

LEMMA AdminRemainsStep ==
  ASSUME TypeOK, TargetsExist, AdminRemains, NEW k \in Call, Moves(k)
  PROVE  AdminRemains'
<1> USE DEF AdminRemains, IsActiveAdmin, IsActive
<1>1. CASE users' = users
  BY <1>1
<1>2. ASSUME NEW u \in User, users[u] = None,
             \A v \in User \ {u} : users'[v] = users[v]
      PROVE  AdminRemains'
  BY <1>2
<1>3. CASE CommitChange(k)
  <2> DEFINE u == call[k].user
             change == call[k].change
             snap == call[k].snap
  <2>1. /\ u \in User /\ change \in Role \cup Status
        /\ snap \in [User -> Account \cup {None}] /\ snap[u] # None
    BY <1>3, HeldTypes DEF CommitChange, At, TypeOK, TargetsExist
  <2>2. /\ users[u] = snap[u] /\ snap[u] \in Account
        /\ TakesAnAdmin(snap, u, change) =>
             /\ \E other \in User \ {u} : IsActiveAdmin(snap[other])
             /\ \A other \in User : IsActiveAdmin(snap[other]) => IsActiveAdmin(users[other])
    BY <1>3, <2>1 DEF CommitChange, Serializes, OthersRemain
  <2>3. /\ users'[u] = Changed(users[u], change)
        /\ \A v \in User \ {u} : users'[v] = users[v]
    BY <1>3, <2>1 DEF CommitChange, TypeOK
  <2> HIDE DEF u, change, snap
  <2>4. CASE TakesAnAdmin(snap, u, change)
    BY <2>2, <2>3, <2>4
  <2>5. CASE ~TakesAnAdmin(snap, u, change) /\ IsActiveAdmin(users[u])
    <3>1. change \in {"ADMIN", "ACTIVE"}
      BY <2>1, <2>2, <2>5 DEF TakesAnAdmin, Role, Status
    <3>2. Changed(users[u], change) = users[u]
      BY <2>2, <2>5, <3>1 DEF Changed, Role, Status, Account
    <3> QED BY <2>1, <2>3, <2>5, <3>2
  <2>6. CASE ~IsActiveAdmin(users[u])
    BY <2>3, <2>6
  <2> QED BY <2>4, <2>5, <2>6
<1> QED BY <1>1, <1>2, <1>3, UsersWritten DEF TypeOK

----
(* Suspended accounts.                                                       *)
LEMMA BarredSuspendedStep ==
  ASSUME TypeOK, TypeOK', TargetsExist, BarredSuspended, NEW k \in Call, Moves(k)
  PROVE  BarredSuspended'
<1> SUFFICES ASSUME NEW c \in Call, NEW v \in User, v \in barred'[c]
             PROVE  users'[v] # None /\ ~IsActive(users'[v])
  <2>1. \A c \in Call : barred'[c] \subseteq User
    BY DEF TypeOK
  <2> QED BY <2>1 DEF BarredSuspended, Suspended
(* Who is barred was suspended before the step, and not reactivated by it.   *)
<1>1. users[v] # None /\ ~IsActive(users[v])
  <2>1. CASE v \in barred[c]
    BY <2>1 DEF BarredSuspended, Suspended
  <2>2. CASE v \in Suspended
    BY <2>2 DEF Suspended
  <2>3. CASE v \notin barred[c] /\ v \notin Suspended
    <3>1. ~Enter(k)
      BY <2>3 DEF Enter, Register, Login, OpenBook, Identify, Refresh, Logout, Administer,
        Begin, TypeOK
    <3>2. ~CommitChange(k)
      <4>1. CommitChange(k) => barred'[c] \subseteq barred[c]
        BY DEF CommitChange
      <4> QED BY <2>3, <4>1
    <3>3. barred' = barred
      BY <3>1, <3>2 DEF Moves, Proceed, Match, Enroll, Link, Mint, CreateSession, Claim,
        CommitRotation, RotationFails, TakeSnapshot, RefuseChange, AbortChange, Scan, Apply,
        SweepFails, Die, MintedFor, history
    <3> QED BY <2>3, <3>3
  <2> QED BY <2>1, <2>2, <2>3
<1>2. CASE users' = users
  BY <1>1, <1>2
<1>3. ASSUME NEW u \in User, users[u] = None, \A w \in User \ {u} : users'[w] = users[w]
      PROVE  users'[v] # None /\ ~IsActive(users'[v])
  BY <1>1, <1>3
<1>4. CASE CommitChange(k)
  <2> DEFINE u == call[k].user
             change == call[k].change
  <2>1. u \in User /\ change \in Role \cup Status /\ users[u] \in Account
    <3>1. call[k].user \in User /\ call[k].change \in Role \cup Status
          /\ call[k].snap[call[k].user] # None
      BY <1>4, HeldTypes DEF CommitChange, At, TypeOK, TargetsExist
    <3> QED BY <1>4, <3>1 DEF CommitChange, Serializes, TypeOK
  <2>2. /\ users'[u] = Changed(users[u], change)
        /\ \A w \in User \ {u} : users'[w] = users[w]
        /\ change = "ACTIVE" => v # u
    BY <1>4, <2>1 DEF CommitChange, TypeOK
  <2> HIDE DEF u, change
  <2>3. CASE v # u
    BY <1>1, <2>2, <2>3
  <2>4. CASE v = u
    <3>1. change # "ACTIVE" /\ users[u].status = "SUSPENDED"
      BY <1>1, <2>1, <2>2, <2>4 DEF IsActive, Account, Status
    <3>2. Changed(users[u], change).status = "SUSPENDED"
      BY <2>1, <3>1 DEF Changed, Role, Status, Account
    <3>3. Changed(users[u], change) # None
      BY <2>1, ChangedTypes, NoneAssumption
    <3> QED BY <2>2, <2>4, <3>2, <3>3 DEF IsActive
  <2> QED BY <2>3, <2>4
<1> QED BY <1>2, <1>3, <1>4, UsersWritten DEF TypeOK

(* Whoever is let in is not suspended.                                       *)
LEMMA EnteredUnbarred ==
  ASSUME TypeOK, NEW k \in Call, NEW u \in User, MayEnter(users[u]) \/ users[u] = None
  PROVE  /\ u \notin Suspended
         /\ Begin(k) => u \notin barred'[k]
         /\ BarredSuspended => u \notin barred[k]
  BY DEF Suspended, MayEnter, IsActive, Begin, BarredSuspended, TypeOK

LEMMA OthersBarred ==
  ASSUME TypeOK, NEW k \in Call, Moves(k), NEW c \in Call \ {k}
  PROVE  barred'[c] \subseteq barred[c]
<1>1. CASE Enter(k)
  BY <1>1 DEF Enter, Register, Login, OpenBook, Identify, Refresh, Logout, Administer,
    Begin, TypeOK
<1>2. CASE CommitChange(k)
  BY <1>2 DEF CommitChange, TypeOK
<1>3. CASE ~ CommitChange(k) /\ (Proceed(k) \/ Die(k))
  <2>1. barred' = barred
    BY <1>3, Zenon DEF Proceed, Match, Enroll, Link, Mint, CreateSession, Claim, CommitRotation,
      RotationFails, TakeSnapshot, RefuseChange, AbortChange, Scan, Apply, SweepFails, Die,
      MintedFor, history
  <2> QED BY <2>1
<1> QED BY <1>1, <1>2, <1>3 DEF Moves

(* What the call that moves will mint for was not suspended when it looked.  *)
LEMMA MoverUnbarred ==
  ASSUME TypeOK, LinksUnbarred, BarredSuspended, NEW k \in Call, Moves(k),
         call'[k].pc \in {"link", "mint", "open"}
  PROVE  call'[k].user \notin barred'[k]
<1> USE DEF Goto, Reply, TypeOK, At
<1>1. CASE \E u \in User : Register(k, u)
  BY <1>1, EnteredUnbarred DEF Register
<1>2. CASE \E u \in User : Login(k, u) \/ OpenBook(k, u)
  BY <1>2, EnteredUnbarred DEF Login, OpenBook
<1>3. CASE \E u \in User, verified \in BOOLEAN : Identify(k, u, verified)
  BY <1>3, EnteredUnbarred DEF Identify
<1>4. CASE Match(k) \/ Enroll(k)
  <2>1. call[k] \in [pc : {"match", "enroll", "link"}, user : User, verified : BOOLEAN]
    BY <1>4, HeldTypes DEF Match, Enroll
  <2>2. call'[k].user = call[k].user
    BY <1>4, <2>1 DEF Match, Enroll
  <2>3. MayEnter(users[call[k].user]) \/ users[call[k].user] = None
    BY <1>4, <2>1 DEF Match, Enroll
  <2>4. call[k].user \notin barred[k]
    BY <2>1, <2>3, EnteredUnbarred
  <2> QED BY <1>4, <2>2, <2>4 DEF Match, Enroll, history
<1>5. CASE Link(k)
  <2>1. call'[k].user = call[k].user
    BY <1>5 DEF Link
  <2> QED BY <1>5, <2>1 DEF Link, LinksUnbarred, history
<1>6. CASE Enter(k)
  BY <1>1, <1>2, <1>3, <1>6 DEF Enter, Refresh, Logout, Administer, SweepOf
<1>7. ~Claim(k)
  <2>1. Claim(k) => call[k] \in [pc : {"rotate", "rotating"}, row : Id]
    BY HeldTypes DEF Claim
  <2> QED BY <2>1 DEF Claim
<1>8. ~(Mint(k) \/ CreateSession(k) \/ CommitRotation(k) \/ RotationFails(k))
  BY DEF Mint, CreateSession, CommitRotation, RotationFails
<1>9. ~(TakeSnapshot(k) \/ CommitChange(k) \/ RefuseChange(k) \/ AbortChange(k))
  BY DEF TakeSnapshot, CommitChange, RefuseChange, AbortChange, SweepOf
<1>10. ~(Scan(k) \/ Apply(k) \/ SweepFails(k))
  BY DEF Scan, Apply, SweepFails, SweepOf, AfterSweep, FailedSweep
<1> QED BY <1>4, <1>5, <1>6, <1>7, <1>8, <1>9, <1>10 DEF Moves, Proceed, Die

LEMMA BarredStep ==
  ASSUME TypeOK, TypeOK', RowsMade, LocksLive, RotatesRow, FoundMade, TargetsExist,
         BarredSuspended, LinksUnbarred, BarredMintNothing, NEW k \in Call, Moves(k)
  PROVE  LinksUnbarred' /\ BarredMintNothing'
<1> SUFFICES ASSUME NEW c \in Call
             PROVE  /\ call'[c].pc \in {"link", "mint", "open"} =>
                         call'[c].user \notin barred'[c]
                    /\ call'[c].pc \in {"rotate", "rotating"} =>
                         rows'[call'[c].row].user \notin barred'[c]
  BY DEF LinksUnbarred, BarredMintNothing, At
<1>1. CASE c # k
  <2>1. call'[c] = call[c] /\ barred'[c] \subseteq barred[c]
    BY <1>1, OthersStay, OthersBarred
  <2>2. ASSUME call[c].pc \in {"rotate", "rotating"}
        PROVE  rows'[call[c].row].user = rows[call[c].row].user
    <3>1. call[c].row \in Id /\ rows[call[c].row] # None
      BY <2>2, HeldTypes DEF TypeOK, At, RotatesRow, LocksLive, IsLive
    <3> QED BY <3>1, RowsStay
  <2> QED BY <2>1, <2>2 DEF LinksUnbarred, BarredMintNothing, At
<1>2. CASE c = k
  <2>1. ASSUME call'[k].pc = "rotate"
        PROVE  rows'[call'[k].row].user \notin barred'[k]
    <3>1. PICK id \in Id : Refresh(k, id) /\ rows[id] # None /\ call'[k].row = id
      BY <2>1, RotationStarts DEF At
    <3>2. MayEnter(users[rows[id].user]) /\ Begin(k) /\ rows' = rows
      BY <2>1, <3>1 DEF Refresh, Goto, Reply, SweepOf, TypeOK, tokens
    <3>3. rows[id].user \in User
      BY <3>1, FreshId DEF Row
    <3> QED BY <3>1, <3>2, <3>3, EnteredUnbarred
  <2>2. ASSUME call'[k].pc = "rotating"
        PROVE  rows'[call'[k].row].user \notin barred'[k]
    <3>1. Claim(k) /\ call'[k].row = call[k].row
      BY <2>2, LocksTaken DEF At
    <3>2. rows' = rows /\ barred' = barred /\ call[k].pc = "rotate"
      BY <3>1 DEF Claim, At, tokens, history
    <3> QED BY <3>1, <3>2 DEF BarredMintNothing
  <2> QED BY <1>2, <2>1, <2>2, MoverUnbarred
<1> QED BY <1>1, <1>2

----
(* Suspensions: what the sweeps of a call end.                               *)

LEMMA FoundStarts ==
  ASSUME TypeOK, NEW k \in Call, Moves(k), At(k, "apply")'
  PROVE  /\ At(k, "scan") /\ rows' = rows
         /\ call'[k].found = Found(call[k].sweep)
<1> USE DEF Goto, Reply, TypeOK, At
<1>1. ~Enter(k)
  BY DEF Enter, Register, Login, OpenBook, Identify, Refresh, Logout, Administer, SweepOf
<1>2. ~(Match(k) \/ Enroll(k))
  <2>1. Match(k) \/ Enroll(k) =>
          call[k] \in [pc : {"match", "enroll", "link"}, user : User, verified : BOOLEAN]
    BY HeldTypes DEF Match, Enroll
  <2> QED BY <2>1 DEF Match, Enroll
<1>3. ~Claim(k)
  <2>1. Claim(k) => call[k] \in [pc : {"rotate", "rotating"}, row : Id]
    BY HeldTypes DEF Claim
  <2> QED BY <2>1 DEF Claim
<1>4. ~(Link(k) \/ Mint(k) \/ CreateSession(k) \/ CommitRotation(k) \/ RotationFails(k))
  BY DEF Link, Mint, CreateSession, CommitRotation, RotationFails
<1>5. ~(TakeSnapshot(k) \/ CommitChange(k) \/ RefuseChange(k) \/ AbortChange(k))
  BY DEF TakeSnapshot, CommitChange, RefuseChange, AbortChange, SweepOf
<1>6. ~(Apply(k) \/ SweepFails(k))
  BY DEF Apply, SweepFails, SweepOf, AfterSweep, FailedSweep
<1>7. Scan(k)
  BY <1>1, <1>2, <1>3, <1>4, <1>5, <1>6 DEF Moves, Proceed, Die
<1> QED BY <1>7 DEF Scan, tokens

LEMMA FoundIds ==
  ASSUME TypeOK, NEW c \in Call, At(c, "apply")
  PROVE  call[c].found \in SUBSET Id /\ call[c].sweep.kind \in {"REFRESH", "READER"}
<1>1. call[c] \in [pc : {"apply"}, sweep : Sweep, found : SUBSET Id]
  BY HeldTypes DEF At, TypeOK
<1> QED BY <1>1 DEF Sweep

LEMMA FoundMadeStep ==
  ASSUME TypeOK, TypeOK', RowsMade, LocksLive, FoundMade, NEW k \in Call, Moves(k)
  PROVE  FoundMade'
<1> SUFFICES ASSUME NEW c \in Call, At(c, "apply")', NEW id \in call'[c].found
             PROVE  rows'[id] # None
  BY DEF FoundMade
<1>1. CASE c # k
  <2>1. call'[c] = call[c] /\ At(c, "apply")
    BY <1>1, OthersStay DEF At
  <2>2. id \in Id /\ rows[id] # None
    BY <2>1, FoundIds DEF FoundMade
  <2> QED BY <2>2, RowsStay
<1>2. CASE c = k
  <2>1. rows' = rows /\ call'[k].found = Found(call[k].sweep)
    BY <1>2, FoundStarts
  <2> QED BY <1>2, <2>1 DEF Found, IsLive
<1> QED BY <1>1, <1>2

(* What a sweep found and applied to is revoked.                             *)
LEMMA AppliedRevokes ==
  ASSUME TypeOK, FoundMade, NEW k \in Call, Apply(k), NEW id \in call[k].found
  PROVE  id \in Id => rows'[id].revoked
<1>1. id \in Id => rows[id] \in Row
  BY DEF Apply, FoundMade, TypeOK
<1> QED BY <1>1, RevokedRow DEF Apply, Revoked

(* Only the commit of a suspension adds to whom a call has suspended.        *)
Suspends(k) ==
  /\ CommitChange(k)
  /\ ended'[k] = {call[k].user}
  /\ call'[k] = SweepOf("REFRESH", {call[k].user}, {}, TRUE)

LEMMA EndedStep ==
  ASSUME TypeOK, NEW k \in Call, Moves(k), NEW c \in Call
  PROVE  ended'[c] \subseteq ended[c] \/ (c = k /\ Suspends(k))
<1>1. CASE CommitChange(k)
  <2>1. CASE call[k].change = "SUSPENDED"
    <3>1. /\ Goto(k, SweepOf("REFRESH", {call[k].user}, {}, TRUE))
          /\ ended' = [ended EXCEPT ![k] = {call[k].user}]
      BY <1>1, <2>1 DEF CommitChange
    <3>2. call'[k] = SweepOf("REFRESH", {call[k].user}, {}, TRUE)
      BY <3>1, MovedTo
    <3> QED BY <1>1, <3>1, <3>2 DEF Suspends, TypeOK
  <2>2. CASE call[k].change # "SUSPENDED"
    BY <1>1, <2>2 DEF CommitChange
  <2> QED BY <2>1, <2>2
<1>2. CASE Mint(k) \/ CreateSession(k) \/ CommitRotation(k)
  BY <1>2 DEF Mint, CreateSession, CommitRotation, MintedFor
<1>3. CASE Enter(k)
  <2>1. ended' = ended
    BY <1>3, Zenon DEF Enter, Register, Login, OpenBook, Identify, Refresh, Logout, Administer,
      Begin
  <2> QED BY <2>1
<1>4. CASE /\ ~ (CommitChange(k) \/ Mint(k) \/ CreateSession(k) \/ CommitRotation(k))
           /\ Proceed(k) \/ Die(k)
  <2>1. ended' = ended
    BY <1>4, Zenon DEF Proceed, Match, Enroll, Link, Claim, RotationFails, TakeSnapshot,
      RefuseChange, AbortChange, Scan, Apply, SweepFails, Die, history
  <2> QED BY <2>1
<1> QED BY <1>1, <1>2, <1>3, <1>4 DEF Moves

(* A new token takes its account from everybody's list.                      *)
LEMMA MintedUnended ==
  ASSUME TypeOK, LocksLive, RowsMade, FoundMade, NEW k \in Call, Moves(k), NEW c \in Call,
         NEW id \in Id, rows[id] = None, rows'[id] # None
  PROVE  rows'[id].user \notin ended'[c]
<1>1. CASE Mint(k) \/ CreateSession(k)
  <2>1. made + 1 \in Id /\ id = made + 1
    BY <1>1, NextId DEF Mint, CreateSession, TypeOK
  <2>2. PICK kind \in {"REFRESH", "READER"} :
          rows' = [rows EXCEPT ![id] = [kind |-> kind, user |-> call[k].user,
                                        family |-> id, revoked |-> FALSE]]
    BY <1>1, <2>1 DEF Mint, CreateSession
  <2>3. rows'[id].user = call[k].user
    BY <2>2 DEF TypeOK
  <2> QED BY <1>1, <2>3 DEF Mint, CreateSession, MintedFor
<1>2. CASE CommitRotation(k)
  <2>1. call[k].row \in Id /\ IsLive(call[k].row)
    BY <1>2, HeldTypes DEF CommitRotation, At, LocksLive, TypeOK
  <2>2. made + 1 \in Id /\ id = made + 1 /\ call[k].row # id
    BY <1>2, <2>1, NextId DEF CommitRotation, TypeOK, IsLive
  <2>3. rows[call[k].row] \in Row
    BY <2>1, FreshId DEF IsLive
  <2>4. rows'[id] = [rows[call[k].row] EXCEPT !.revoked = FALSE]
    BY <1>2, <2>2 DEF CommitRotation, TypeOK
  <2>5. rows'[id].user = rows[call[k].row].user
    BY <2>3, <2>4 DEF Row
  <2> QED BY <1>2, <2>5 DEF CommitRotation, MintedFor
<1>3. CASE Apply(k)
  <2>1. id \notin call[k].found
    BY <1>3 DEF Apply, FoundMade
  <2>2. rows'[id] = rows[id]
    BY <1>3, <2>1 DEF Apply, Revoked
  <2> QED BY <2>2
<1> QED BY <1>1, <1>2, <1>3, RowsWritten DEF WritesRows

(* So an account that stays on a list has no live token it did not have.     *)
LEMMA LiveStays ==
  ASSUME TypeOK, RowsMade, LocksLive, FoundMade, NEW k \in Call, Moves(k), NEW c \in Call,
         ended'[c] \subseteq ended[c], NEW id \in Id, IsLive(id)', rows'[id].user \in ended'[c]
  PROVE  id \in LiveOf(c) /\ rows'[id].kind = rows[id].kind
<1>1. rows[id] # None
  BY MintedUnended DEF IsLive
<1>2. /\ rows'[id].kind = rows[id].kind /\ rows'[id].user = rows[id].user
      /\ IsLive(id)
  BY <1>1, RowsStay
<1> QED BY <1>2 DEF LiveOf

(* Where a call goes that is revoking.                                       *)
LEMMA RevokingGoesOn ==
  ASSUME TypeOK, NEW k \in Call, Moves(k), call[k].pc \in {"scan", "apply", "done"}
  PROVE  \/ Scan(k) /\ call'[k] = [pc |-> "apply", sweep |-> call[k].sweep,
                                   found |-> Found(call[k].sweep)]
         \/ Apply(k) /\ call'[k] = AfterSweep(call[k].sweep)
         \/ call'[k] = [pc |-> "done", ok |-> FALSE]
<1>1. Scan(k) \/ Apply(k) \/ SweepFails(k) \/ Die(k)
  BY DEF Moves, Enter, Register, Login, OpenBook, Identify, Refresh, Logout, Administer, Begin,
    Proceed, Match, Enroll, Link, Mint, CreateSession, Claim, CommitRotation, RotationFails,
    TakeSnapshot, CommitChange, RefuseChange, AbortChange, At
<1>2. CASE Scan(k)
  BY <1>2, MovedTo DEF Scan
<1>3. CASE Apply(k)
  BY <1>3, MovedTo DEF Apply
<1>4. CASE SweepFails(k)
  BY <1>4, MovedTo DEF SweepFails, FailedSweep
<1>5. CASE Die(k)
  BY <1>5, MovedTo DEF Die, Reply
<1> QED BY <1>1, <1>2, <1>3, <1>4, <1>5

LEMMA EndsHeldStep ==
  ASSUME TypeOK, TypeOK', RowsMade, LocksLive, FoundMade, EndsHeld, NEW k \in Call, Moves(k)
  PROVE  EndsHeld'
<1> DEFINE Live(c) == {id \in Id : IsLive(id)' /\ rows'[id].user \in ended'[c]}
           Good(c) == /\ call'[c].pc \in {"scan", "apply", "done"}
                      /\ call'[c].pc \in {"scan", "apply"} =>
                           /\ ended'[c] \subseteq call'[c].sweep.users
                           /\ call'[c].sweep.kind = "READER" =>
                                \A id \in Live(c) : rows'[id].kind = "READER"
                      /\ call'[c].pc = "apply" =>
                           \A id \in Live(c) :
                             rows'[id].kind = call'[c].sweep.kind => id \in call'[c].found
<1> SUFFICES ASSUME NEW c \in Call, ended'[c] # {}
             PROVE  Good(c)
  BY DEF EndsHeld, LiveOf
<1>1. CASE c = k /\ Suspends(k)
  BY <1>1 DEF Suspends, SweepOf
<1>2. CASE ended'[c] \subseteq ended[c]
  <2>1. /\ call[c].pc \in {"scan", "apply", "done"}
        /\ call[c].pc \in {"scan", "apply"} =>
             /\ ended[c] \subseteq call[c].sweep.users
             /\ call[c].sweep.kind = "READER" => \A id \in LiveOf(c) : rows[id].kind = "READER"
        /\ call[c].pc = "apply" =>
             \A id \in LiveOf(c) : rows[id].kind = call[c].sweep.kind => id \in call[c].found
    BY <1>2 DEF EndsHeld
  <2>2. \A id \in Live(c) : id \in LiveOf(c) /\ rows'[id].kind = rows[id].kind
    BY <1>2, LiveStays
  <2>3. CASE c # k
    <3>1. call'[c] = call[c]
      BY <2>3, OthersStay
    <3> QED BY <1>2, <2>1, <2>2, <3>1
  <2>4. CASE c = k /\ Scan(k) /\ call'[k] = [pc |-> "apply", sweep |-> call[k].sweep,
                                             found |-> Found(call[k].sweep)]
    <3>1. call[c].pc = "scan"
      BY <2>4 DEF Scan, At
    <3>2. \A id \in LiveOf(c) :
            rows[id].kind = call[c].sweep.kind => id \in Found(call[c].sweep)
      BY <2>1, <3>1 DEF LiveOf, Found
    <3> QED BY <1>2, <2>1, <2>2, <2>4, <3>1, <3>2
  <2>5. CASE c = k /\ Apply(k) /\ call'[k] = AfterSweep(call[k].sweep)
    <3>1. call[c].pc = "apply"
      BY <2>5 DEF Apply, At
    <3>2. CASE call[k].sweep.users # {} /\ call[k].sweep.kind = "REFRESH"
      <4>1. call'[k] = SweepOf("READER", call[k].sweep.users, {}, call[k].sweep.ok)
        BY <2>5, <3>2 DEF AfterSweep
      <4>2. ASSUME NEW id \in Live(c) PROVE rows'[id].kind = "READER"
        <5>1. id \in Id /\ id \in LiveOf(c) /\ rows'[id].kind = rows[id].kind /\ IsLive(id)'
          BY <2>2
        <5>2. id \notin call[k].found
          BY <2>5, <5>1, AppliedRevokes DEF IsLive
        <5>3. rows[id].kind # "REFRESH"
          BY <2>1, <2>5, <3>1, <3>2, <5>1, <5>2
        <5>4. rows[id] \in Row
          BY <5>1, FreshId DEF LiveOf, IsLive
        <5> QED BY <5>1, <5>3, <5>4 DEF Row
      <4> QED BY <1>2, <2>1, <2>5, <3>1, <4>1, <4>2 DEF SweepOf
    <3>3. CASE ~ (call[k].sweep.users # {} /\ call[k].sweep.kind = "REFRESH")
      <4>1. call'[k] = [pc |-> "done", ok |-> call[k].sweep.ok]
        BY <2>5, <3>3 DEF AfterSweep
      <4>2. call'[c].pc = "done"
        BY <2>5, <4>1
      <4> QED BY <4>2
    <3> QED BY <3>2, <3>3
  <2>6. CASE c = k /\ call'[k] = [pc |-> "done", ok |-> FALSE]
    BY <2>6
  <2> QED BY <2>1, <2>3, <2>4, <2>5, <2>6, RevokingGoesOn
<1> QED BY <1>1, <1>2, EndedStep

LEMMA SuccessStep ==
  ASSUME TypeOK, TypeOK', RowsMade, LocksLive, FoundMade, EndsHeld, SuccessMeansRevoked,
         NEW k \in Call, Moves(k)
  PROVE  SuccessMeansRevoked'
<1> SUFFICES ASSUME NEW c \in Call, call'[c].pc = "done", call'[c].ok, NEW id \in Id,
                    IsLive(id)', rows'[id].user \in ended'[c]
             PROVE  FALSE
  BY DEF SuccessMeansRevoked
<1>1. ended'[c] \subseteq ended[c]
  <2>1. CASE c = k /\ Suspends(k)
    BY <2>1 DEF Suspends, SweepOf
  <2> QED BY <2>1, EndedStep
<1>2. id \in LiveOf(c) /\ rows'[id].kind = rows[id].kind
  BY <1>1, LiveStays
<1>3. CASE c # k
  BY <1>2, <1>3, OthersStay DEF SuccessMeansRevoked, LiveOf
<1>4. CASE c = k
  <2>1. /\ ended[k] # {} /\ call[k].pc \in {"scan", "apply", "done"}
        /\ call[k].pc \in {"scan", "apply"} => ended[k] \subseteq call[k].sweep.users
    BY <1>1, <1>4 DEF EndsHeld
  <2>2. Apply(k) /\ call'[k] = AfterSweep(call[k].sweep)
    <3>1. call'[k] # [pc |-> "done", ok |-> FALSE]
      BY <1>4
    <3>2. \A sweep, found : call'[k] # [pc |-> "apply", sweep |-> sweep, found |-> found]
      BY <1>4
    <3> QED BY <2>1, <3>1, <3>2, RevokingGoesOn
  <2>3. At(k, "apply") /\ call[k].sweep.users # {}
    BY <2>1, <2>2 DEF Apply, At
  <2>4. call[k].sweep.kind = "READER"
    BY <1>4, <2>2, <2>3, FoundIds DEF AfterSweep, SweepOf
  <2>5. rows[id].kind = "READER" /\ id \in call[k].found
    BY <1>2, <1>4, <2>1, <2>3, <2>4 DEF EndsHeld, At
  <2> QED BY <2>2, <2>5, AppliedRevokes DEF IsLive
<1> QED BY <1>3, <1>4

----
LEMMA IInvInit == Init => IInv
<1> SUFFICES ASSUME Init PROVE IInv
  OBVIOUS
<1>1. [pc |-> "new"] \in Held
  BY DEF Held
<1>2. [role |-> "ADMIN", status |-> "ACTIVE", password |-> TRUE] \in Account
  BY DEF Account, Role, Status
<1>3. TypeOK
  <2>1. users \in [User -> Account \cup {None}]
    BY <1>2 DEF Init
  <2>2. 0 \in 0..MaxRows
    BY SessionsAssumption
  <2> QED BY <1>1, <2>1, <2>2 DEF Init, TypeOK
<1>4. \A k \in Call : call[k].pc = "new" /\ barred[k] = {} /\ ended[k] = {}
  BY DEF Init
<1>5. \A id \in Id : rows[id] = None
  BY DEF Init
<1>6. RowInv
  BY <1>4, <1>5 DEF RowInv, RowsMade, RotatesRow, LocksLive, LocksDiffer, OneLivePerFamily,
    At, IsLive
<1>7. AdminRemains
  <2>1. PICK u \in Admins : u \in User
    BY SessionsAssumption
  <2>2. users[u] = [role |-> "ADMIN", status |-> "ACTIVE", password |-> TRUE]
    BY <2>1 DEF Init
  <2> QED BY <1>2, <2>1, <2>2, NoneAssumption DEF AdminRemains, IsActiveAdmin, IsActive
<1>8. AccountInv /\ BarredInv /\ SweepInv
  BY <1>4, <1>7 DEF AccountInv, TargetsExist, BarredInv, BarredSuspended, LinksUnbarred,
    BarredMintNothing, SweepInv, FoundMade, EndsHeld, SuccessMeansRevoked, At
<1> QED BY <1>3, <1>6, <1>8 DEF IInv

LEMMA IInvStep == IInv /\ [Next]_vars => IInv'
<1> SUFFICES ASSUME IInv, [Next]_vars PROVE IInv'
  OBVIOUS
<1> USE DEF IInv, RowInv, AccountInv, BarredInv, SweepInv
<1>1. ASSUME NEW k \in Call, Moves(k)
      PROVE  IInv'
  <2>1. TypeOK'
    BY <1>1, TypeStep
  <2>2. RowInv'
    BY <1>1, <2>1, RowsMadeStep, RotatesRowStep, LocksLiveStep, LocksDifferStep, OneLiveStep
  <2>3. AccountInv'
    BY <1>1, TargetsExistStep, AdminRemainsStep
  <2>4. BarredInv'
    BY <1>1, <2>1, BarredSuspendedStep, BarredStep
  <2>5. SweepInv'
    BY <1>1, <2>1, FoundMadeStep, EndsHeldStep, SuccessStep
  <2> QED BY <2>1, <2>2, <2>3, <2>4, <2>5
<1>2. CASE UNCHANGED vars
  BY <1>2 DEF vars, TypeOK, RowsMade, RotatesRow, LocksLive, LocksDiffer, OneLivePerFamily,
    TargetsExist, AdminRemains, BarredSuspended, LinksUnbarred, BarredMintNothing,
    FoundMade, EndsHeld, LiveOf, SuccessMeansRevoked, At, IsLive, Suspended
<1> QED BY <1>1, <1>2 DEF Next, Moves

(* The inductive invariant: a token being rotated is live and locked by one  *)
(* call; who is barred is still suspended; a sweep finds what it is to end.  *)
THEOREM Invariance == Spec => []IInv
  BY IInvInit, IInvStep, PTL DEF Spec

(* Every variable of the server's sessions keeps its type.                   *)
THEOREM TypeCorrect == Spec => []TypeOK
<1>1. IInv => TypeOK
  BY DEF IInv
<1> QED BY <1>1, Invariance, PTL

(* Two requests presenting one refresh token cannot both succeed, for any    *)
(* number of calls (refreshTokens): a family never has two live tokens.      *)
THEOREM FamiliesHaveOne == Spec => []OneLivePerFamily
<1>1. IInv => OneLivePerFamily
  BY DEF IInv, RowInv
<1> QED BY <1>1, Invariance, PTL

(* However many administrators demote and suspend each other at once, one    *)
(* remains (assertNotLastActiveAdmin under withSerializableRetry).           *)
THEOREM AdminAlwaysRemains == Spec => []AdminRemains
<1>1. IInv => AdminRemains
  BY DEF IInv, AccountInv
<1> QED BY <1>1, Invariance, PTL

(* No way in mints for an account suspended ever since the call began.       *)
THEOREM BarredGetNothing == Spec => []BarredMintNothing
<1>1. IInv => BarredMintNothing
  BY DEF IInv, BarredInv
<1> QED BY <1>1, Invariance, PTL

(* A suspension that reports success has left the account no live token and  *)
(* no reading session that was not minted after it (setStatus).              *)
THEOREM SuccessRevokes == Spec => []SuccessMeansRevoked
<1>1. IInv => SuccessMeansRevoked
  BY DEF IInv, SweepInv
<1> QED BY <1>1, Invariance, PTL

(* A token never changes hands and never comes back once it is revoked.      *)
KeptForGood(id) ==
  /\ rows'[id] # None /\ rows'[id].kind = rows[id].kind
  /\ rows'[id].user = rows[id].user /\ rows'[id].family = rows[id].family
  /\ IsLive(id)' => IsLive(id)

(* A token that is not a login's own takes the place of a live one of its    *)
(* family and account.                                                       *)
TakesAPlace(id) ==
  rows'[id].family # id =>
    \E old \in Id :
      /\ IsLive(old) /\ ~ IsLive(old)'
      /\ rows[old].family = rows'[id].family /\ rows[old].user = rows'[id].user

LEMMA NewRow ==
  ASSUME IInv, NEW k \in Call, Moves(k), NEW id \in Id, rows[id] = None, rows'[id] # None
  PROVE  TakesAPlace(id)
<1>0. TypeOK /\ RowInv
  BY DEF IInv
<1>1. CASE rows' = rows
  BY <1>1
<1>2. CASE Mint(k) \/ CreateSession(k)
  <2>1. id = made + 1 /\ made + 1 \in Id
    BY <1>0, <1>2, NextId DEF Mint, CreateSession, TypeOK
  <2>2. made' = made + 1 /\ rows \in [Id -> Row \cup {None}]
    BY <1>0, <1>2 DEF Mint, CreateSession, TypeOK
  <2>3. rows'[id].family = made'
    <3>1. \E kind \in {"REFRESH", "READER"} :
            rows' = [rows EXCEPT ![made'] = [kind |-> kind, user |-> call[k].user,
                                             family |-> made', revoked |-> FALSE]]
      BY <1>2 DEF Mint, CreateSession
    <3>2. made' \in Id /\ id = made'
      BY <2>1, <2>2
    <3> QED BY <2>2, <3>1, <3>2
  <2> QED BY <2>1, <2>2, <2>3 DEF TakesAPlace
<1>3. CASE CommitRotation(k)
  <2>0. call[k].row \in Id /\ IsLive(call[k].row)
    BY <1>0, <1>3, HeldTypes DEF CommitRotation, At, RowInv, LocksLive, TypeOK
  <2>1. PICK old \in Id : old = call[k].row /\ IsLive(old)
    BY <2>0
  <2>2. rows[old] \in Row /\ old # made + 1
    BY <1>0, <2>1, FreshId DEF RowInv, IsLive
  <2>3. id = made + 1 /\ made + 1 \in Id
    BY <1>0, <1>3, <2>1, NextId DEF CommitRotation, TypeOK, IsLive
  <2>4. rows'[old] = [rows[old] EXCEPT !.revoked = TRUE]
    BY <1>0, <1>3, <2>1, <2>2 DEF CommitRotation, TypeOK
  <2>5. rows'[id] = [rows[old] EXCEPT !.revoked = FALSE]
    BY <1>0, <1>3, <2>1, <2>3 DEF CommitRotation, TypeOK
  <2>6. ~ IsLive(old)'
    BY <2>2, <2>4, RevokedRow DEF IsLive
  <2>7. rows'[id].family = rows[old].family /\ rows'[id].user = rows[old].user
    BY <2>2, <2>5 DEF Row
  <2> QED BY <2>1, <2>6, <2>7 DEF TakesAPlace
<1>4. CASE Apply(k)
  <2>1. id \notin call[k].found
    BY <1>4 DEF Apply, IInv, SweepInv, FoundMade
  <2>2. rows'[id] = rows[id]
    BY <1>4, <2>1 DEF Apply, Revoked
  <2> QED BY <2>2
<1> QED BY <1>1, <1>2, <1>3, <1>4, RowsWritten DEF WritesRows

(* A refresh token is good for one exchange: whatever calls present it and   *)
(* whatever revokes its family meanwhile, a token that was rotated or        *)
(* revoked is never live again, and every token a rotation hands out ended   *)
(* one live token of that family and account in the same step.               *)
THEOREM TokensSpentOnce ==
  Spec => [][\A id \in Id : IF rows[id] # None THEN KeptForGood(id)
                            ELSE rows'[id] # None => TakesAPlace(id)]_vars
<1> DEFINE Spent(id) == IF rows[id] # None THEN KeptForGood(id)
                        ELSE rows'[id] # None => TakesAPlace(id)
<1>1. IInv /\ [Next]_vars => [\A id \in Id : Spent(id)]_vars
  <2> SUFFICES ASSUME IInv, Next, NEW id \in Id PROVE Spent(id)
    OBVIOUS
  <2>1. PICK k \in Call : Moves(k)
    BY DEF Next, Moves
  <2>2. CASE rows[id] # None
    <3>1. TypeOK /\ RowsMade /\ LocksLive /\ FoundMade
      BY DEF IInv, RowInv, SweepInv
    <3>2. KeptForGood(id)
      BY <2>1, <2>2, <3>1, RowsStay DEF KeptForGood
    <3> QED BY <2>2, <3>2
  <2>3. CASE rows[id] = None
    BY <2>1, <2>3, NewRow
  <2> QED BY <2>2, <2>3
<1> QED BY <1>1, Invariance, PTL DEF Spec
=============================================================================
