------------------------------ MODULE Sessions ------------------------------
(* Who may act on the server: accounts, their refresh tokens and reading     *)
(* sessions, and the administrators who change roles and suspend accounts    *)
(* (AuthService, ReaderSessionService, AdminUsersService).  Each call runs   *)
(* statement by statement against the database, at READ COMMITTED; only the  *)
(* administrators' transactions are serializable.                            *)
(*                                                                           *)
(* Nothing expires here: an expired token is the last of its family, and its *)
(* presentation revokes that family, which has no other live token.          *)
EXTENDS Naturals

CONSTANTS
  User,     \* e-mail addresses
  Admins,   \* accounts that exist at first, all of them administrators
  Call,     \* calls to the server; each is made once
  MaxRows,  \* bound: tokens and reading sessions ever made
  None

ASSUME SessionsAssumption ==
  /\ Admins \subseteq User /\ Admins # {}
  /\ MaxRows \in Nat

VARIABLES
  users,    \* User: the account of each address, or None
  linked,   \* Identity: the addresses with a provider identity
  rows,     \* RefreshToken, ReadingSession: the row of each id, or None
  made,     \* ids given out
  call,     \* what each call holds, by the step it is at
  barred,   \* history: who has been suspended ever since each call began
  ended     \* history: whom each call suspended, nothing being minted for them since

vars == <<users, linked, rows, made, call, barred, ended>>
accounts == <<users, linked>>
tokens == <<rows, made>>
history == <<barred, ended>>

Role == {"MEMBER", "ADMIN"}           \* a moderator is a member here
Status == {"ACTIVE", "SUSPENDED"}
Id == 1..MaxRows

Account == [role : Role, status : Status, password : BOOLEAN]

(* A refresh token has the family of the login it descends from: the id of   *)
(* that login's token.                                                       *)
Row == [kind : {"REFRESH", "READER"}, user : User, family : Id, revoked : BOOLEAN]

ASSUME NoneAssumption == None \notin Account \cup Row

(* What an updateMany is to revoke, and the rest of the call after it.       *)
Sweep == [kind : {"REFRESH", "READER"}, users : SUBSET User, families : SUBSET Id,
          ok : BOOLEAN]

Held ==
  [pc : {"new"}]
    \cup [pc : {"match", "enroll", "link"}, user : User, verified : BOOLEAN]
    \cup [pc : {"mint", "open"}, user : User]
    \cup [pc : {"rotate", "rotating"}, row : Id]
    \cup [pc : {"begin"}, user : User, change : Role \cup Status, retries : 0..1]
    \cup [pc : {"decide"}, user : User, change : Role \cup Status, retries : 0..1,
          snap : [User -> Account \cup {None}]]
    \cup [pc : {"scan"}, sweep : Sweep]
    \cup [pc : {"apply"}, sweep : Sweep, found : SUBSET Id]
    \cup [pc : {"done"}, ok : BOOLEAN]

IsActive(account) == account # None /\ account.status = "ACTIVE"
IsActiveAdmin(account) == IsActive(account) /\ account.role = "ADMIN"

IsLive(id) == rows[id] # None /\ ~rows[id].revoked

(* A row an open transaction has updated is locked until it ends.            *)
IsLocked(id) == \E k \in Call : call[k].pc = "rotating" /\ call[k].row = id

Init ==
  /\ users = [u \in User |->
       IF u \in Admins THEN [role |-> "ADMIN", status |-> "ACTIVE", password |-> TRUE]
                       ELSE None]
  /\ linked = {}
  /\ rows = [id \in Id |-> None]
  /\ made = 0
  /\ call = [k \in Call |-> [pc |-> "new"]]
  /\ barred = [k \in Call |-> {}]
  /\ ended = [k \in Call |-> {}]

----
At(k, pc) == call[k].pc = pc
Goto(k, step) == call' = [call EXCEPT ![k] = step]
Reply(k, ok) == Goto(k, [pc |-> "done", ok |-> ok])

Suspended == {u \in User : users[u] # None /\ ~IsActive(users[u])}

(* A call begins: who is suspended now is barred until reactivated.          *)
Begin(k) ==
  /\ At(k, "new")
  /\ barred' = [barred EXCEPT ![k] = Suspended]
  /\ UNCHANGED ended

(* registerLocal: the unique address decides; the tokens come after.         *)
Register(k, u) ==
  /\ Begin(k)
  /\ IF users[u] = None
     THEN /\ users' = [users EXCEPT ![u] =
               [role |-> "MEMBER", status |-> "ACTIVE", password |-> TRUE]]
          /\ Goto(k, [pc |-> "mint", user |-> u])
     ELSE UNCHANGED users /\ Reply(k, FALSE)
  /\ UNCHANGED <<linked, tokens>>

(* Mutant: whoever has the password may sign in.                             *)
MayEnter_Anyone(account) == account # None

MayEnter(account) == IsActive(account)

(* loginLocal, with the right password.                                      *)
Login(k, u) ==
  /\ Begin(k)
  /\ users[u] # None => users[u].password
  /\ IF MayEnter(users[u]) THEN Goto(k, [pc |-> "mint", user |-> u]) ELSE Reply(k, FALSE)
  /\ UNCHANGED <<accounts, tokens>>

(* findOrCreateOAuthUser: a known identity signs in...                       *)
Identify(k, u, verified) ==
  /\ Begin(k)
  /\ IF u \notin linked
       THEN Goto(k, [pc |-> "match", user |-> u, verified |-> verified])
     ELSE IF MayEnter(users[u]) THEN Goto(k, [pc |-> "mint", user |-> u])
     ELSE Reply(k, FALSE)
  /\ UNCHANGED <<accounts, tokens>>

(* ...an unknown one is bound to the account of its address...               *)
Match(k) ==
  /\ At(k, "match")
  /\ LET u == call[k].user
         account == users[u]
     IN  IF account = None
           THEN Goto(k, [call[k] EXCEPT !.pc = "enroll"])
         ELSE IF MayEnter(account) /\ (account.password => call[k].verified)
           THEN Goto(k, [call[k] EXCEPT !.pc = "link"])
         ELSE Reply(k, FALSE)
  /\ UNCHANGED <<accounts, tokens, history>>

(* ...which is created first where there is none; the unique address fails   *)
(* the second of two.                                                        *)
Enroll(k) ==
  /\ At(k, "enroll")
  /\ IF users[call[k].user] = None
     THEN /\ users' = [users EXCEPT ![call[k].user] =
               [role |-> "MEMBER", status |-> "ACTIVE", password |-> FALSE]]
          /\ Goto(k, [call[k] EXCEPT !.pc = "link"])
     ELSE UNCHANGED users /\ Reply(k, FALSE)
  /\ UNCHANGED <<linked, tokens, history>>

Link(k) ==
  /\ At(k, "link")
  /\ IF call[k].user \notin linked
     THEN /\ linked' = linked \cup {call[k].user}
          /\ Goto(k, [pc |-> "mint", user |-> call[k].user])
     ELSE UNCHANGED linked /\ Reply(k, FALSE)
  /\ UNCHANGED <<users, tokens, history>>

MintedFor(u) ==
  /\ ended' = [c \in Call |-> ended[c] \ {u}]
  /\ UNCHANGED barred

(* generateTokens: a row of a new family.                                    *)
Mint(k) ==
  /\ At(k, "mint")
  /\ made < MaxRows
  /\ made' = made + 1
  /\ rows' = [rows EXCEPT ![made'] =
       [kind |-> "REFRESH", user |-> call[k].user, family |-> made', revoked |-> FALSE]]
  /\ Reply(k, TRUE)
  /\ MintedFor(call[k].user)
  /\ UNCHANGED accounts

----
(* updateMany: the statement sees the rows that are committed when it        *)
(* starts, waits for those that are locked, and revokes those still live.    *)
SweepOf(kind, them, families, ok) ==
  [pc |-> "scan", sweep |-> [kind |-> kind, users |-> them, families |-> families, ok |-> ok]]

Found(sweep) ==
  {id \in Id :
     /\ IsLive(id)
     /\ rows[id].kind = sweep.kind
     /\ rows[id].user \in sweep.users \/ rows[id].family \in sweep.families}

Scan(k) ==
  /\ At(k, "scan")
  /\ Goto(k, [pc |-> "apply", sweep |-> call[k].sweep, found |-> Found(call[k].sweep)])
  /\ UNCHANGED <<accounts, tokens, history>>

Revoked(found) ==
  [id \in Id |-> IF id \in found THEN [rows[id] EXCEPT !.revoked = TRUE] ELSE rows[id]]

(* A suspension sweeps the refresh tokens, then the reading sessions.        *)
AfterSweep(sweep) ==
  IF sweep.users # {} /\ sweep.kind = "REFRESH"
  THEN SweepOf("READER", sweep.users, {}, sweep.ok)
  ELSE [pc |-> "done", ok |-> sweep.ok]

Apply(k) ==
  /\ At(k, "apply")
  /\ \A id \in call[k].found : ~IsLocked(id)
  /\ rows' = Revoked(call[k].found)
  /\ Goto(k, AfterSweep(call[k].sweep))
  /\ UNCHANGED <<accounts, made, history>>

(* Mutant: the failed revocation is swallowed.                               *)
FailedSweep_Swallowed(sweep) == [pc |-> "done", ok |-> sweep.ok]

FailedSweep(sweep) == [pc |-> "done", ok |-> FALSE]

SweepFails(k) ==
  /\ At(k, "apply")
  /\ Goto(k, FailedSweep(call[k].sweep))
  /\ UNCHANGED <<accounts, tokens, history>>

----
(* refreshTokens, of any token that was ever given out.  A revoked one was   *)
(* used before: its whole family goes.                                       *)
Refresh(k, id) ==
  /\ Begin(k)
  /\ rows[id] # None /\ rows[id].kind = "REFRESH"
  /\ IF rows[id].revoked
       THEN Goto(k, SweepOf("REFRESH", {}, {rows[id].family}, FALSE))
     ELSE IF MayEnter(users[rows[id].user]) THEN Goto(k, [pc |-> "rotate", row |-> id])
     ELSE Reply(k, FALSE)
  /\ UNCHANGED <<accounts, tokens>>

(* Mutant: the update is not conditional on the token being live.            *)
MayRotate_Anyway(id) == TRUE

MayRotate(id) == ~rows[id].revoked

(* The guarded update of the transaction waits for the row...                *)
Claim(k) ==
  /\ At(k, "rotate")
  /\ ~IsLocked(call[k].row)
  /\ IF MayRotate(call[k].row) THEN Goto(k, [call[k] EXCEPT !.pc = "rotating"])
                               ELSE Reply(k, FALSE)
  /\ UNCHANGED <<accounts, tokens, history>>

(* ...and its commit shows the new token together with the old one's end.    *)
CommitRotation(k) ==
  LET old == rows[call[k].row]
  IN  /\ At(k, "rotating")
      /\ made < MaxRows
      /\ made' = made + 1
      /\ rows' = [rows EXCEPT ![call[k].row] = [old EXCEPT !.revoked = TRUE],
                              ![made'] = [old EXCEPT !.revoked = FALSE]]
      /\ Reply(k, TRUE)
      /\ MintedFor(old.user)
      /\ UNCHANGED accounts

RotationFails(k) ==
  /\ At(k, "rotating")
  /\ Reply(k, FALSE)
  /\ UNCHANGED <<accounts, tokens, history>>

(* logout, with the cookie of any token that was ever given out.             *)
Logout(k, id) ==
  /\ Begin(k)
  /\ rows[id] # None /\ rows[id].kind = "REFRESH"
  /\ Goto(k, SweepOf("REFRESH", {}, {rows[id].family}, TRUE))
  /\ UNCHANGED <<accounts, tokens>>

(* createSession of a reader: the bearer is validated, the row comes later.  *)
OpenBook(k, u) ==
  /\ Begin(k)
  /\ IF MayEnter(users[u]) THEN Goto(k, [pc |-> "open", user |-> u]) ELSE Reply(k, FALSE)
  /\ UNCHANGED <<accounts, tokens>>

CreateSession(k) ==
  /\ At(k, "open")
  /\ made < MaxRows
  /\ made' = made + 1
  /\ rows' = [rows EXCEPT ![made'] =
       [kind |-> "READER", user |-> call[k].user, family |-> made', revoked |-> FALSE]]
  /\ Reply(k, TRUE)
  /\ MintedFor(call[k].user)
  /\ UNCHANGED accounts

----
(* setRole and setStatus, by an administrator the guards let through.        *)
Administer(k, u, change) ==
  /\ Begin(k)
  /\ \E actor \in User : IsActiveAdmin(users[actor])
  /\ Goto(k, [pc |-> "begin", user |-> u, change |-> change, retries |-> 0])
  /\ UNCHANGED <<accounts, tokens>>

(* The transaction's reads are of one snapshot.                              *)
TakeSnapshot(k) ==
  /\ At(k, "begin")
  /\ IF users[call[k].user] = None THEN Reply(k, FALSE)
     ELSE Goto(k, [pc |-> "decide", user |-> call[k].user, change |-> call[k].change,
                   retries |-> call[k].retries, snap |-> users])
  /\ UNCHANGED <<accounts, tokens, history>>

(* assertNotLastActiveAdmin is asked of a demotion and of a suspension.      *)
TakesAnAdmin(snap, u, change) ==
  IsActiveAdmin(snap[u]) /\ change \in {"MEMBER", "SUSPENDED"}

OthersRemain(snap, u) == \E other \in User \ {u} : IsActiveAdmin(snap[other])

(* Mutant: the transaction runs at READ COMMITTED.                           *)
Serializes_Never(snap, u, change) == TRUE

(* A serializable transaction commits only if nobody changed the row it      *)
(* writes, nor, if it counted the administrators, took one of them.          *)
Serializes(snap, u, change) ==
  /\ users[u] = snap[u]
  /\ TakesAnAdmin(snap, u, change) =>
       \A other \in User : IsActiveAdmin(snap[other]) => IsActiveAdmin(users[other])

Changed(account, change) ==
  IF change \in Role THEN [account EXCEPT !.role = change]
                     ELSE [account EXCEPT !.status = change]

(* Only a suspension revokes, after the commit.                              *)
CommitChange(k) ==
  LET u == call[k].user
      change == call[k].change
      snap == call[k].snap
  IN  /\ At(k, "decide")
      /\ TakesAnAdmin(snap, u, change) => OthersRemain(snap, u)
      /\ Serializes(snap, u, change)
      /\ users' = [users EXCEPT ![u] = Changed(@, change)]
      /\ barred' = [c \in Call |-> IF change = "ACTIVE" THEN barred[c] \ {u} ELSE barred[c]]
      /\ IF change = "SUSPENDED"
         THEN /\ Goto(k, SweepOf("REFRESH", {u}, {}, TRUE))
              /\ ended' = [ended EXCEPT ![k] = {u}]
         ELSE Reply(k, TRUE) /\ UNCHANGED ended
      /\ UNCHANGED <<linked, tokens>>

RefuseChange(k) ==
  LET u == call[k].user
      change == call[k].change
      snap == call[k].snap
  IN  /\ At(k, "decide")
      /\ TakesAnAdmin(snap, u, change) /\ ~OthersRemain(snap, u)
      /\ Reply(k, FALSE)
      /\ UNCHANGED <<accounts, tokens, history>>

(* P2034, which may come of a conflict or of nothing this model sees (a      *)
(* sign-in writes the account's row): retried once, on a new snapshot.       *)
AbortChange(k) ==
  /\ At(k, "decide")
  /\ IF call[k].retries < 1
     THEN Goto(k, [pc |-> "begin", user |-> call[k].user, change |-> call[k].change,
                   retries |-> call[k].retries + 1])
     ELSE Reply(k, FALSE)
  /\ UNCHANGED <<accounts, tokens, history>>

(* The process dies, and with it the call and its open transaction.          *)
Die(k) ==
  /\ call[k].pc \notin {"new", "done"}
  /\ Reply(k, FALSE)
  /\ UNCHANGED <<accounts, tokens, history>>

----
Enter(k) ==
  \/ \E u \in User : Register(k, u) \/ Login(k, u) \/ OpenBook(k, u)
  \/ \E u \in User, verified \in BOOLEAN : Identify(k, u, verified)
  \/ \E id \in Id : Refresh(k, id) \/ Logout(k, id)
  \/ \E u \in User, change \in Role \cup Status : Administer(k, u, change)

Proceed(k) ==
  \/ Match(k) \/ Enroll(k) \/ Link(k) \/ Mint(k) \/ CreateSession(k)
  \/ Claim(k) \/ CommitRotation(k) \/ RotationFails(k)
  \/ TakeSnapshot(k) \/ CommitChange(k) \/ RefuseChange(k) \/ AbortChange(k)
  \/ Scan(k) \/ Apply(k) \/ SweepFails(k)

Next == \E k \in Call : Enter(k) \/ Proceed(k) \/ Die(k)

Spec == Init /\ [][Next]_vars

----
(* Every variable has its type.                                              *)
TypeOK ==
  /\ users \in [User -> Account \cup {None}]
  /\ linked \subseteq User
  /\ rows \in [Id -> Row \cup {None}]
  /\ made \in 0..MaxRows
  /\ call \in [Call -> Held]
  /\ barred \in [Call -> SUBSET User]
  /\ ended \in [Call -> SUBSET User]

(* However many calls present one token at once, and whatever revokes its    *)
(* family meanwhile: a family has at most one live token (refreshTokens,     *)
(* "two concurrent requests holding the same still-valid token cannot both   *)
(* win").                                                                    *)
OneLivePerFamily ==
  \A one, other \in Id :
    IsLive(one) /\ IsLive(other) /\ rows[one].family = rows[other].family => one = other

(* Whatever administrators do to each other at once: one of them stays       *)
(* active ("so the platform can never lose its final administrator").        *)
AdminRemains == \E u \in User : IsActiveAdmin(users[u])

(* No token and no reading session is minted for an account that has been    *)
(* suspended ever since the call began, by whichever way in (loginLocal,     *)
(* findOrCreateOAuthUser, refreshTokens, createSession).                     *)
BarredMintNothing ==
  \A k \in Call :
    /\ call[k].pc \in {"mint", "open"} => call[k].user \notin barred[k]
    /\ call[k].pc \in {"rotate", "rotating"} => rows[call[k].row].user \notin barred[k]

(* A suspension that reports success has left the account no live token and *)
(* no reading session, of any family, unless a call minted one after the    *)
(* suspension was committed; a revocation that failed is reported           *)
(* (setStatus, "never silently swallowed, which would leave a suspended     *)
(* user with live sessions while reporting success").                       *)
SuccessMeansRevoked ==
  \A k \in Call : call[k].pc = "done" /\ call[k].ok =>
    \A id \in Id : IsLive(id) => rows[id].user \notin ended[k]

----
(* What the comments say and the code does not do.                           *)

(* setStatus: a suspension "revokes every refresh family ... for the user":  *)
(* once it has revoked the tokens it found, none of their families is live.  *)
SuspendedFamiliesEnd ==
  [][\A k \in Call :
       Apply(k) /\ call[k].sweep.users # {} =>
         \A id \in Id, old \in call[k].found :
           IsLive(id)' => rows[id].family # rows[old].family]_vars

(* What the comment of logout says of a sign-out that reported success: no   *)
(* token of the family can be rotated afterwards.                            *)
LoggedOutStaysOut ==
  [][\A k \in Call :
       Apply(k) /\ call[k].sweep.users = {} /\ call[k].sweep.ok =>
         \A id \in Id : IsLive(id)' => rows[id].family \notin call[k].sweep.families]_vars
=============================================================================
