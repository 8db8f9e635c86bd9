------------------------------ MODULE Account ------------------------------
(***************************************************************************)
(* Accounts and tokens: concurrent web requests that log in, log out, or   *)
(* carry a token and add, change or delete an account (AccountController,  *)
(* AccountService, TokenService, LoginSuccessHandler,                      *)
(* JsonLogoutSuccessHandler, TokenAuthenticationProvider).                 *)
(*                                                                         *)
(* No request runs in a transaction.  Both ways to change an account read  *)
(* its row, change it in memory and write the whole row back.  A token is  *)
(* renewed by each request that carries it; whatever deletes a token also  *)
(* deletes those that have expired.                                        *)
(*                                                                         *)
(* Each request is issued once, which bounds the tokens, and MaxTime       *)
(* bounds the clock.                                                       *)
(***************************************************************************)
EXTENDS Naturals, Sequences

CONSTANTS
  Requests,   \* the web requests
  Accounts,   \* account names
  Passwords,
  Roles,      \* tb_role
  RoleIds,    \* the role ids that requests submit, those of no role included
  Known,      \* the accounts there are at first, with their rows
  LoggedIn,   \* which of them have logged in before, a token each
  MaxAge,     \* authTokenMaxAge
  MaxTime,    \* bound of the clock
  Null

UNMODIFIEDPWD == 1
NORMAL        == 2

AccountRow == [pwd : Passwords, role : RoleIds, status : {UNMODIFIEDPWD, NORMAL}]
Token      == [token : Nat, value : Accounts, expire : Nat]

ASSUME KnownAssumption ==
  /\ Known \in [Accounts -> AccountRow \union {Null}]
  /\ \A a \in Accounts : Known[a] # Null => Known[a].status = UNMODIFIEDPWD
  /\ Null \notin AccountRow /\ Null \notin Accounts

ASSUME RolesAssumption == Roles \subseteq RoleIds

ASSUME LoggedInAssumption ==
  /\ LoggedIn \in Seq(Accounts)
  /\ \A i, j \in DOMAIN LoggedIn : LoggedIn[i] = LoggedIn[j] => i = j

ASSUME TimeAssumption == MaxAge \in Nat \ {0} /\ MaxTime \in Nat

VARIABLES
  accounts,   \* tb_account_info
  tokens,     \* tb_token
  nextToken,  \* tokens are drawn at random: this one has not been drawn yet
  now,
  pc,
  who,        \* the account that logs in, or whose token a request carries
  held,       \* the token it carries
  target,     \* the account it changes
  read,       \* the row it has read of it
  input,      \* the password and role submitted
  askedPwd, askedRole,   \* history: by account, what was last asked for with success
  chosen,     \* history: the passwords that owners have submitted for themselves
  overlapped, \* history: accounts that two requests changed at the same time
  doubled,    \* history: accounts that logged in twice at the same time
  given,      \* history: by account, the token of the last login, or 0
  dead        \* history: tokens logged out, or found to have expired

locals  == <<who, held, target, read, input>>
asked   == <<askedPwd, askedRole>>
ofUsers == <<askedPwd, askedRole, chosen, overlapped>>
ofLogin == <<doubled, given, dead>>
vars    == <<accounts, tokens, nextToken, now, pc, who, held, target, read, input,
             askedPwd, askedRole, chosen, overlapped, doubled, given, dead>>

Input == [pwd : Passwords, role : RoleIds \union {Null}]

\* Where a request is that is about to write the account's row.
Altering == {"insert", "update", "password", "delete"}

TypeOK ==
  /\ accounts \in [Accounts -> AccountRow \union {Null}]
  /\ tokens \in SUBSET Token
  /\ nextToken \in Nat \ {0}
  /\ now \in 0..MaxTime
  /\ pc \in [Requests -> {"idle", "drop", "create", "renew", "expired", "load",
                          "ready", "current", "done"} \union Altering]
  /\ who \in [Requests -> Accounts \union {Null}]
  /\ held \in [Requests -> Nat]
  /\ target \in [Requests -> Accounts \union {Null}]
  /\ read \in [Requests -> AccountRow \union {Null}]
  /\ input \in [Requests -> Input \union {Null}]
  /\ \A r \in Requests :
       /\ pc[r] \notin {"idle", "done"} => who[r] \in Accounts
       /\ pc[r] \in Altering => target[r] \in Accounts
       /\ pc[r] \in {"insert", "update", "password"} => input[r] \in Input
       /\ pc[r] = "insert" => input[r].role \in Roles
       /\ pc[r] = "update" => input[r].role \in RoleIds
       /\ pc[r] \in {"update", "password"} => read[r] \in AccountRow
  /\ askedPwd \in [Accounts -> Passwords \union {Null}]
  /\ askedRole \in [Accounts -> RoleIds \union {Null}]
  /\ chosen \in SUBSET (Accounts \X Passwords)
  /\ overlapped \in SUBSET Accounts
  /\ doubled \in SUBSET Accounts
  /\ given \in [Accounts -> Nat]
  /\ dead \in SUBSET Nat

\* The accounts of webase-dml.sql and those added since, before any of them has
\* changed its password.
Init ==
  /\ accounts = Known
  /\ tokens = { [token |-> i, value |-> LoggedIn[i], expire |-> MaxAge] :
                  i \in DOMAIN LoggedIn }
  /\ nextToken = Len(LoggedIn) + 1
  /\ now = 0
  /\ pc = [r \in Requests |-> "idle"]
  /\ who = [r \in Requests |-> Null]
  /\ held = [r \in Requests |-> 0]
  /\ target = [r \in Requests |-> Null]
  /\ read = [r \in Requests |-> Null]
  /\ input = [r \in Requests |-> Null]
  /\ askedPwd = [a \in Accounts |-> IF Known[a] = Null THEN Null ELSE Known[a].pwd]
  /\ askedRole = [a \in Accounts |-> IF Known[a] = Null THEN Null ELSE Known[a].role]
  /\ chosen = {} /\ overlapped = {} /\ doubled = {}
  /\ given = [a \in Accounts |-> 0]
  /\ dead = {}

Goto(r, label) == pc' = [pc EXCEPT ![r] = label]
End(r) == Goto(r, "done")

Running(r) == pc[r] \notin {"idle", "done"}

-----------------------------------------------------------------------------
(* The statements on tb_token.                                             *)

Expired == { t \in tokens : t.expire <= now }

Numbers(some) == { t.token : t \in some }

\* TokenMapper.delete: what has expired goes as well.
DeleteToken(number, account) ==
  /\ tokens' = { t \in tokens \ Expired : t.token # number /\ t.value # account }
  /\ dead' = dead \union Numbers(Expired) \union {number}

-----------------------------------------------------------------------------
(* Logging in and out.                                                     *)

\* The password is right (DaoAuthenticationProvider).
Login(r, a) ==
  /\ pc[r] = "idle"
  /\ accounts[a] # Null
  /\ who' = [who EXCEPT ![r] = a]
  /\ Goto(r, "drop")
  /\ doubled' = IF \E s \in Requests : pc[s] \in {"drop", "create"} /\ who[s] = a
                THEN doubled \union {a} ELSE doubled
  /\ UNCHANGED <<accounts, tokens, nextToken, now, held, target, read, input,
                 ofUsers, given, dead>>

\* Mutant: the old token is kept.
DropTokens_Kept(r) ==
  /\ pc[r] = "drop"
  /\ DeleteToken(0, Null)
  /\ given' = [given EXCEPT ![who[r]] = 0]
  /\ Goto(r, "create")
  /\ UNCHANGED <<accounts, nextToken, now, locals, ofUsers, doubled>>

\* "delete old token", of the account.
DropTokens(r) ==
  /\ pc[r] = "drop"
  /\ DeleteToken(0, who[r])
  /\ given' = [given EXCEPT ![who[r]] = 0]
  /\ Goto(r, "create")
  /\ UNCHANGED <<accounts, nextToken, now, locals, ofUsers, doubled>>

\* Mutant: the tokens of the account are deleted when the new one is there.
CreateToken_ThenDrop(r) ==
  /\ pc[r] = "create"
  /\ DeleteToken(0, who[r])
  /\ nextToken' = nextToken + 1
  /\ given' = [given EXCEPT ![who[r]] = nextToken]
  /\ End(r)
  /\ UNCHANGED <<accounts, now, locals, ofUsers, doubled>>

\* "and save new".
CreateToken(r) ==
  /\ pc[r] = "create"
  /\ tokens' = tokens \union {[token |-> nextToken, value |-> who[r],
                               expire |-> now + MaxAge]}
  /\ nextToken' = nextToken + 1
  /\ given' = [given EXCEPT ![who[r]] = nextToken]
  /\ End(r)
  /\ UNCHANGED <<accounts, now, locals, ofUsers, doubled, dead>>

\* The logout filter comes before the one that looks at tokens.
Logout(r, number) ==
  /\ pc[r] = "idle"
  /\ DeleteToken(number, Null)
  /\ End(r)
  /\ UNCHANGED <<accounts, nextToken, now, locals, ofUsers, doubled, given>>

-----------------------------------------------------------------------------
(* A request that carries a token.                                         *)

\* What getValueFromToken finds.
Value(t, label) == IF now > t.expire THEN "expired" ELSE label

Authenticate(r, t) ==
  /\ pc[r] = "idle"
  /\ held' = [held EXCEPT ![r] = t.token]
  /\ who' = [who EXCEPT ![r] = t.value]
  /\ Goto(r, Value(t, "renew"))
  /\ UNCHANGED <<accounts, tokens, nextToken, now, target, read, input,
                 ofUsers, ofLogin>>

\* The rest of getValueFromToken.
DropExpired(r) ==
  /\ pc[r] = "expired"
  /\ DeleteToken(held[r], Null)
  /\ End(r)
  /\ UNCHANGED <<accounts, nextToken, now, locals, ofUsers, doubled, given>>

\* It does nothing if the token is gone by now.
UpdateExpireTime(r) ==
  /\ pc[r] = "renew"
  /\ tokens' = { IF t.token = held[r] THEN [t EXCEPT !.expire = now + MaxAge] ELSE t :
                   t \in tokens }
  /\ Goto(r, "load")
  /\ UNCHANGED <<accounts, nextToken, now, locals, ofUsers, ofLogin>>

\* buildAuthentication; it throws when there is no such account any more.
LoadAccount(r) ==
  /\ pc[r] = "load"
  /\ accounts[who[r]] # Null
  /\ Goto(r, "ready")
  /\ UNCHANGED <<accounts, tokens, nextToken, now, locals, ofUsers, ofLogin>>

\* getCurrentAccount asks for the value of the token a second time.
CurrentAccount(r) ==
  /\ pc[r] = "ready"
  /\ \E t \in tokens : t.token = held[r] /\ Goto(r, Value(t, "current"))
  /\ UNCHANGED <<accounts, tokens, nextToken, now, locals, ofUsers, ofLogin>>

-----------------------------------------------------------------------------
(* Changes of an account.                                                  *)

\* Request r begins to change account a.
Change(r, a, label) ==
  /\ target' = [target EXCEPT ![r] = a]
  /\ Goto(r, label)
  /\ overlapped' = IF \E s \in Requests : pc[s] \in Altering /\ target[s] = a
                   THEN overlapped \union {a} ELSE overlapped

\* The checks of addAccountRow.
AddAccountRow(r, a, p, role) ==
  /\ pc[r] = "ready"
  /\ accounts[a] = Null
  /\ role \in Roles
  /\ Change(r, a, "insert")
  /\ input' = [input EXCEPT ![r] = [pwd |-> p, role |-> role]]
  /\ UNCHANGED <<accounts, tokens, nextToken, now, who, held, read,
                 asked, chosen, ofLogin>>

InsertAccountRow(r) ==
  /\ pc[r] = "insert"
  /\ accounts[target[r]] = Null
  /\ accounts' = [accounts EXCEPT ![target[r]] =
       [pwd |-> input[r].pwd, role |-> input[r].role, status |-> UNMODIFIEDPWD]]
  /\ askedPwd' = [askedPwd EXCEPT ![target[r]] = input[r].pwd]
  /\ askedRole' = [askedRole EXCEPT ![target[r]] = input[r].role]
  /\ End(r)
  /\ UNCHANGED <<tokens, nextToken, now, locals, chosen, overlapped, ofLogin>>

\* Mutant: it is not checked that the account exists.
UpdateAccountRow_Unchecked(r, a, p, role) ==
  /\ pc[r] = "current"
  /\ Change(r, a, "update")
  /\ read' = [read EXCEPT ![r] = accounts[a]]
  /\ input' = [input EXCEPT ![r] = [pwd |-> p, role |-> role]]
  /\ chosen' = IF who[r] = a THEN chosen \union {<<a, p>>} ELSE chosen
  /\ UNCHANGED <<accounts, tokens, nextToken, now, who, held, asked, ofLogin>>

\* updateAccountRow up to the query of the row.  It does not check the role.
UpdateAccountRow(r, a, p, role) ==
  /\ pc[r] = "current"
  /\ accounts[a] # Null
  /\ Change(r, a, "update")
  /\ read' = [read EXCEPT ![r] = accounts[a]]
  /\ input' = [input EXCEPT ![r] = [pwd |-> p, role |-> role]]
  /\ chosen' = IF who[r] = a THEN chosen \union {<<a, p>>} ELSE chosen
  /\ UNCHANGED <<accounts, tokens, nextToken, now, who, held, asked, ofLogin>>

\* Mutant: the status is not set.
UpdatedRow_StatusKept(r) ==
  [read[r] EXCEPT !.pwd = input[r].pwd, !.role = input[r].role]

\* Mutant: the role is not set.
UpdatedRow_RoleKept(r) ==
  [read[r] EXCEPT !.pwd = input[r].pwd,
                  !.status = IF who[r] = target[r] THEN @ ELSE UNMODIFIEDPWD]

\* Somebody else's password has to be changed by its owner.
UpdatedRow(r) ==
  [read[r] EXCEPT !.pwd = input[r].pwd, !.role = input[r].role,
                  !.status = IF who[r] = target[r] THEN @ ELSE UNMODIFIEDPWD]

SaveUpdate(r) ==
  /\ pc[r] = "update"
  /\ accounts[target[r]] # Null
  /\ accounts' = [accounts EXCEPT ![target[r]] = UpdatedRow(r)]
  /\ askedPwd' = [askedPwd EXCEPT ![target[r]] = input[r].pwd]
  /\ askedRole' = [askedRole EXCEPT ![target[r]] = input[r].role]
  /\ End(r)
  /\ UNCHANGED <<tokens, nextToken, now, locals, chosen, overlapped, ofLogin>>

\* updatePassword up to its checks: the old password is right and not the new
\* one.
UpdatePassword(r, p) ==
  /\ pc[r] = "current"
  /\ accounts[who[r]] # Null /\ accounts[who[r]].pwd # p
  /\ Change(r, who[r], "password")
  /\ read' = [read EXCEPT ![r] = accounts[who[r]]]
  /\ input' = [input EXCEPT ![r] = [pwd |-> p, role |-> Null]]
  /\ chosen' = chosen \union {<<who[r], p>>}
  /\ UNCHANGED <<accounts, tokens, nextToken, now, who, held, asked, ofLogin>>

\* The row that was read, with the new password.
SavePassword(r) ==
  /\ pc[r] = "password"
  /\ accounts[target[r]] # Null
  /\ accounts' = [accounts EXCEPT ![target[r]] =
       [read[r] EXCEPT !.pwd = input[r].pwd, !.status = NORMAL]]
  /\ askedPwd' = [askedPwd EXCEPT ![target[r]] = input[r].pwd]
  /\ End(r)
  /\ UNCHANGED <<tokens, nextToken, now, locals, askedRole, chosen, overlapped, ofLogin>>

DeleteAccountRow(r, a) ==
  /\ pc[r] = "ready"
  /\ accounts[a] # Null
  /\ Change(r, a, "delete")
  /\ UNCHANGED <<accounts, tokens, nextToken, now, who, held, read, input,
                 asked, chosen, ofLogin>>

\* The tokens of the account stay.
RemoveAccountRow(r) ==
  /\ pc[r] = "delete"
  /\ accounts[target[r]] # Null
  /\ accounts' = [accounts EXCEPT ![target[r]] = Null]
  /\ End(r)
  /\ UNCHANGED <<tokens, nextToken, now, locals, ofUsers, ofLogin>>

-----------------------------------------------------------------------------

Tick ==
  /\ now < MaxTime
  /\ now' = now + 1
  /\ UNCHANGED <<accounts, tokens, nextToken, pc, locals, ofUsers, ofLogin>>

\* A check rejects the request, a write finds no row or one that is there
\* already, or a statement fails.
Fail(r) ==
  /\ Running(r)
  /\ End(r)
  /\ UNCHANGED <<accounts, tokens, nextToken, now, locals, ofUsers, ofLogin>>

\* The process dies and is restarted.
Crash ==
  /\ \E r \in Requests : Running(r)
  /\ pc' = [r \in Requests |-> IF Running(r) THEN "done" ELSE pc[r]]
  /\ UNCHANGED <<accounts, tokens, nextToken, now, locals, ofUsers, ofLogin>>

LogIn(r) ==
  \/ \E a \in Accounts : Login(r, a)
  \/ DropTokens(r) \/ CreateToken(r)

CarryToken(r) ==
  \/ \E t \in tokens : Authenticate(r, t)
  \/ DropExpired(r) \/ UpdateExpireTime(r) \/ LoadAccount(r) \/ CurrentAccount(r)

ChangeAccount(r) ==
  \/ \E a \in Accounts, p \in Passwords, role \in RoleIds :
       AddAccountRow(r, a, p, role) \/ UpdateAccountRow(r, a, p, role)
  \/ \E p \in Passwords : UpdatePassword(r, p)
  \/ \E a \in Accounts : DeleteAccountRow(r, a)
  \/ InsertAccountRow(r) \/ SaveUpdate(r) \/ SavePassword(r) \/ RemoveAccountRow(r)

Next ==
  \/ \E r \in Requests :
       \/ LogIn(r) \/ \E number \in 1..(nextToken - 1) : Logout(r, number)
       \/ CarryToken(r) \/ ChangeAccount(r) \/ Fail(r)
  \/ Crash
  \/ Tick

Spec == Init /\ [][Next]_vars

-----------------------------------------------------------------------------
(* Safety.                                                                 *)

\* Status 2 says that the owner has chosen the password.  Rows are written whole
\* and out of date, but with the status that goes with their password.
NormalMeansOwnPassword ==
  \A a \in Accounts : accounts[a] # Null /\ accounts[a].status = NORMAL =>
    <<a, accounts[a].pwd>> \in chosen

\* An account shows the password and the role that were last set with success,
\* unless two requests changed it at the same time: only then does the row that
\* one writes back undo what the other wrote.
ChangesLostOnlyByOverlap ==
  \A a \in Accounts \ overlapped : accounts[a] # Null =>
    /\ accounts[a].pwd = askedPwd[a]
    /\ accounts[a].role = askedRole[a]

\* An account has one token, the last login's, unless it logged in twice at the
\* same time: tb_token has no key for the account.
OneTokenUnlessOverlap ==
  \A t, u \in tokens : t # u /\ t.value = u.value => t.value \in doubled

\* The token that a login has answered is there until it was logged out or found
\* to have expired, or the account logs in again.
LoginTokenWorks ==
  \A a \in Accounts : given[a] # 0 /\ given[a] \notin dead =>
    \E t \in tokens : t.token = given[a] /\ t.value = a

=============================================================================
