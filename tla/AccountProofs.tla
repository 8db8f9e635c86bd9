--------------------------- MODULE AccountProofs ---------------------------
(***************************************************************************)
(* Proofs about Account, for any requests, accounts, passwords and roles.  *)
(*                                                                         *)
(* The invariant says what the row that a request has read is worth: its   *)
(* status goes with its password, and unless another request changes the   *)
(* account at the same time it is still the row of the table.              *)
(***************************************************************************)
EXTENDS Account, TLAPS

\* What is known of the password a request is about to write, and of the row
\* it has read.
Owned(r) ==
  /\ pc[r] \in {"update", "password"} /\ read[r].status = NORMAL =>
       <<target[r], read[r].pwd>> \in chosen
  /\ pc[r] = "password" => <<target[r], input[r].pwd>> \in chosen
  /\ pc[r] = "update" /\ who[r] = target[r] => <<target[r], input[r].pwd>> \in chosen

\* Only one request changes an account, and the row it has read is the row.
Fresh(r) ==
  pc[r] \in Altering /\ target[r] \notin overlapped =>
    /\ \A s \in Requests \ {r} : target[s] = target[r] => pc[s] \notin Altering
    /\ pc[r] \in {"update", "password"} => read[r] = accounts[target[r]]

\* Numbers identify tokens.
TokensDiffer ==
  /\ \A t \in tokens : t.token < nextToken
  /\ \A t, u \in tokens : t.token = u.token => t = u

\* The only login of an account has deleted its token before it creates another.
LoginAlone(r) ==
  pc[r] \in {"drop", "create"} /\ who[r] \notin doubled =>
    /\ \A s \in Requests \ {r} : who[s] = who[r] => pc[s] \notin {"drop", "create"}
    /\ pc[r] = "create" => \A t \in tokens : t.value # who[r]

RowsInv == NormalMeansOwnPassword /\ \A r \in Requests : Owned(r)

FreshInv == ChangesLostOnlyByOverlap /\ \A r \in Requests : Fresh(r)

TokensInv ==
  /\ TokensDiffer
  /\ OneTokenUnlessOverlap
  /\ LoginTokenWorks
  /\ \A r \in Requests : LoginAlone(r)

-----------------------------------------------------------------------------
(* Type correctness.                                                       *)

LEMMA InitType == Init => TypeOK
<1> SUFFICES ASSUME Init PROVE TypeOK
  OBVIOUS
<1>1. tokens \in SUBSET Token
  BY LoggedInAssumption, TimeAssumption DEF Init, Token
<1>2. accounts \in [Accounts -> AccountRow \union {Null}]
  BY KnownAssumption DEF Init
<1>3. /\ askedPwd \in [Accounts -> Passwords \union {Null}]
      /\ askedRole \in [Accounts -> RoleIds \union {Null}]
  BY KnownAssumption DEF Init, AccountRow
<1>4. nextToken \in Nat \ {0} /\ now \in 0..MaxTime
  BY LoggedInAssumption, TimeAssumption DEF Init
<1> QED BY <1>1, <1>2, <1>3, <1>4 DEF Init, TypeOK, Altering

\* The three statements on tb_token.
LEMMA DeleteTokenType ==
  ASSUME TypeOK, NEW number \in Nat, NEW account, DeleteToken(number, account)
  PROVE  tokens' \in SUBSET Token /\ dead' \in SUBSET Nat
BY DEF TypeOK, DeleteToken, Numbers, Expired, Token

LEMMA LogInType ==
  ASSUME TypeOK, NEW r \in Requests, LogIn(r)
  PROVE  TypeOK'
<1> USE DEF TypeOK, Goto, End, locals, ofUsers, ofLogin, asked, Altering
<1> HIDE DEF Token, AccountRow, Input
<1>1. ASSUME NEW a \in Accounts, Login(r, a) PROVE TypeOK'
  BY <1>1 DEF Login
<1>2. CASE DropTokens(r)
  <2>1. tokens' \in SUBSET Token /\ dead' \in SUBSET Nat
    BY <1>2, DeleteTokenType DEF DropTokens
  <2> QED BY <1>2, <2>1 DEF DropTokens
<1>3. CASE CreateToken(r)
  <2>1. tokens' \in SUBSET Token
    BY <1>3, TimeAssumption DEF CreateToken, Token
  <2> QED BY <1>3, <2>1 DEF CreateToken
<1> QED BY <1>1, <1>2, <1>3 DEF LogIn

LEMMA CarryTokenType ==
  ASSUME TypeOK, NEW r \in Requests, CarryToken(r)
  PROVE  TypeOK'
<1> USE DEF TypeOK, Goto, End, locals, ofUsers, ofLogin, asked, Altering, Value
<1> HIDE DEF Token, AccountRow, Input
<1>1. ASSUME NEW t \in tokens, Authenticate(r, t) PROVE TypeOK'
  <2>1. t.token \in Nat /\ t.value \in Accounts
    BY DEF Token
  <2> QED BY <1>1, <2>1 DEF Authenticate
<1>2. CASE DropExpired(r)
  <2>1. tokens' \in SUBSET Token /\ dead' \in SUBSET Nat
    BY <1>2, DeleteTokenType DEF DropExpired
  <2> QED BY <1>2, <2>1 DEF DropExpired
<1>3. CASE UpdateExpireTime(r)
  <2>1. tokens' \in SUBSET Token
    BY <1>3, TimeAssumption DEF UpdateExpireTime, Token
  <2> QED BY <1>3, <2>1 DEF UpdateExpireTime
<1>4. CASE LoadAccount(r)
  BY <1>4 DEF LoadAccount
<1>5. CASE CurrentAccount(r)
  BY <1>5 DEF CurrentAccount
<1> QED BY <1>1, <1>2, <1>3, <1>4, <1>5 DEF CarryToken

LEMMA UpdatedType ==
  ASSUME NEW r \in Requests, read[r] \in AccountRow, input[r] \in Input,
         input[r].role \in RoleIds
  PROVE  /\ UpdatedRow(r) \in AccountRow
         /\ UpdatedRow(r).pwd = input[r].pwd /\ UpdatedRow(r).role = input[r].role
         /\ UpdatedRow(r).status = IF who[r] = target[r] THEN read[r].status
                                   ELSE UNMODIFIEDPWD
BY DEF UpdatedRow, AccountRow, Input

LEMMA ChangeAccountType ==
  ASSUME TypeOK, NEW r \in Requests, ChangeAccount(r)
  PROVE  TypeOK'
<1> USE DEF TypeOK, Goto, End, Change, locals, ofUsers, ofLogin, asked, Altering
<1> HIDE DEF Token, AccountRow, Input
<1>1. ASSUME NEW a \in Accounts, NEW p \in Passwords, NEW role \in RoleIds,
             AddAccountRow(r, a, p, role)
      PROVE  TypeOK'
  <2>1. [pwd |-> p, role |-> role] \in Input
    BY DEF Input
  <2> QED BY <1>1, <2>1 DEF AddAccountRow
<1>2. ASSUME NEW a \in Accounts, NEW p \in Passwords, NEW role \in RoleIds,
             UpdateAccountRow(r, a, p, role)
      PROVE  TypeOK'
  <2>1. [pwd |-> p, role |-> role] \in Input
    BY DEF Input
  <2> QED BY <1>2, <2>1 DEF UpdateAccountRow
<1>3. ASSUME NEW p \in Passwords, UpdatePassword(r, p) PROVE TypeOK'
  <2>1. [pwd |-> p, role |-> Null] \in Input
    BY DEF Input
  <2>2. who[r] \in Accounts
    BY <1>3 DEF UpdatePassword
  <2> QED BY <1>3, <2>1, <2>2 DEF UpdatePassword
<1>4. ASSUME NEW a \in Accounts, DeleteAccountRow(r, a) PROVE TypeOK'
  BY <1>4 DEF DeleteAccountRow
<1>5. CASE InsertAccountRow(r)
  <2>1. /\ input[r].pwd \in Passwords /\ input[r].role \in RoleIds
        /\ [pwd |-> input[r].pwd, role |-> input[r].role, status |-> UNMODIFIEDPWD]
             \in AccountRow
    BY <1>5, RolesAssumption DEF InsertAccountRow, Input, AccountRow
  <2> QED BY <1>5, <2>1 DEF InsertAccountRow
<1>6. CASE SaveUpdate(r)
  <2>1. UpdatedRow(r) \in AccountRow /\ input[r].pwd \in Passwords /\ input[r].role \in RoleIds
    BY <1>6, UpdatedType DEF SaveUpdate, Input
  <2> QED BY <1>6, <2>1 DEF SaveUpdate
<1>7. CASE SavePassword(r)
  <2>1. /\ [read[r] EXCEPT !.pwd = input[r].pwd, !.status = NORMAL] \in AccountRow
        /\ input[r].pwd \in Passwords
    BY <1>7 DEF SavePassword, Input, AccountRow
  <2> QED BY <1>7, <2>1 DEF SavePassword
<1>8. CASE RemoveAccountRow(r)
  BY <1>8 DEF RemoveAccountRow
<1> QED BY <1>1, <1>2, <1>3, <1>4, <1>5, <1>6, <1>7, <1>8 DEF ChangeAccount

LEMMA TypeNext == TypeOK /\ [Next]_vars => TypeOK'
<1> SUFFICES ASSUME TypeOK, [Next]_vars PROVE TypeOK'
  OBVIOUS
<1> USE DEF TypeOK, Goto, End, locals, ofUsers, ofLogin, asked, Altering
<1> HIDE DEF Token, AccountRow, Input
<1>1. ASSUME NEW r \in Requests, NEW number \in 1..(nextToken - 1), Logout(r, number)
      PROVE  TypeOK'
  <2>1. tokens' \in SUBSET Token /\ dead' \in SUBSET Nat
    BY <1>1, DeleteTokenType DEF Logout
  <2> QED BY <1>1, <2>1 DEF Logout
<1>2. ASSUME NEW r \in Requests, Fail(r) PROVE TypeOK'
  BY <1>2 DEF Fail
<1>3. CASE Crash
  BY <1>3 DEF Crash, Running
<1>4. CASE Tick
  BY <1>4, TimeAssumption DEF Tick
<1>5. CASE UNCHANGED vars
  BY <1>5 DEF vars
<1> QED BY <1>1, <1>2, <1>3, <1>4, <1>5, LogInType, CarryTokenType,
           ChangeAccountType DEF Next

-----------------------------------------------------------------------------
(* Steps that change no account, and steps that are no login.              *)

\* Request s has left these places, or has not moved.
Stays(s, places) ==
  \/ pc'[s] \notin places
  \/ /\ pc'[s] = pc[s] /\ who'[s] = who[s] /\ target'[s] = target[s]
     /\ read'[s] = read[s] /\ input'[s] = input[s]

SameRows ==
  /\ UNCHANGED <<accounts, asked, chosen, overlapped>>
  /\ \A s \in Requests : Stays(s, Altering)

LEMMA NoChange ==
  ASSUME TypeOK, [Next]_vars, ~ \E r \in Requests : ChangeAccount(r)
  PROVE  SameRows
<1> USE DEF TypeOK, SameRows, Stays, Goto, End, locals, ofUsers, ofLogin, asked, Altering
<1> HIDE DEF Token, AccountRow, Input
<1>1. ASSUME NEW r \in Requests, LogIn(r) PROVE SameRows
  BY <1>1 DEF LogIn, Login, DropTokens, CreateToken
<1>2. ASSUME NEW r \in Requests, NEW number, Logout(r, number) PROVE SameRows
  BY <1>2 DEF Logout
<1>3. ASSUME NEW r \in Requests, CarryToken(r) PROVE SameRows
  BY <1>3 DEF CarryToken, Authenticate, DropExpired, UpdateExpireTime, LoadAccount,
              CurrentAccount, Value
<1>4. ASSUME NEW r \in Requests, Fail(r) PROVE SameRows
  BY <1>4 DEF Fail
<1>5. CASE Crash
  BY <1>5 DEF Crash, Running
<1>6. CASE Tick
  BY <1>6 DEF Tick
<1>7. CASE UNCHANGED vars
  BY <1>7 DEF vars
<1> QED BY <1>1, <1>2, <1>3, <1>4, <1>5, <1>6, <1>7 DEF Next

-----------------------------------------------------------------------------
(* The status goes with the password.                                      *)

LEMMA OwnedStays ==
  ASSUME NEW s \in Requests, Owned(s), Stays(s, Altering), chosen \subseteq chosen'
  PROVE  Owned(s)'
BY DEF Owned, Stays, Altering

\* What a row that is written has to show.
LEMMA RowWritten ==
  ASSUME TypeOK, NormalMeansOwnPassword, NEW a \in Accounts, NEW row,
         accounts' = [accounts EXCEPT ![a] = row], chosen' = chosen,
         row.status = NORMAL => <<a, row.pwd>> \in chosen
  PROVE  NormalMeansOwnPassword'
BY DEF TypeOK, NormalMeansOwnPassword

LEMMA RowsChange ==
  ASSUME TypeOK, RowsInv, NEW r \in Requests, ChangeAccount(r)
  PROVE  RowsInv'
<1> USE DEF TypeOK, Goto, End, Change, locals, ofUsers, ofLogin, asked
<1> HIDE DEF Token, AccountRow, Input
<1>1. ASSUME NEW s \in Requests \ {r} PROVE Owned(s)'
  <2>1. Stays(s, Altering) /\ chosen \subseteq chosen'
    BY <1>1 DEF Stays, ChangeAccount, AddAccountRow, UpdateAccountRow, UpdatePassword,
                DeleteAccountRow, InsertAccountRow, SaveUpdate, SavePassword, RemoveAccountRow
  <2> QED BY <2>1, OwnedStays DEF RowsInv
<1>2. ASSUME NEW a \in Accounts, NEW p \in Passwords, NEW role \in RoleIds,
             AddAccountRow(r, a, p, role)
      PROVE  RowsInv'
  <2>1. Owned(r)'
    BY <1>2 DEF AddAccountRow, Owned
  <2> QED BY <1>1, <1>2, <2>1 DEF AddAccountRow, RowsInv, NormalMeansOwnPassword
<1>3. ASSUME NEW a \in Accounts, NEW p \in Passwords, NEW role \in RoleIds,
             UpdateAccountRow(r, a, p, role)
      PROVE  RowsInv'
  <2>1. Owned(r)'
    BY <1>3 DEF UpdateAccountRow, Owned, RowsInv, NormalMeansOwnPassword
  <2> QED BY <1>1, <1>3, <2>1 DEF UpdateAccountRow, RowsInv, NormalMeansOwnPassword
<1>4. ASSUME NEW p \in Passwords, UpdatePassword(r, p) PROVE RowsInv'
  <2>1. Owned(r)'
    BY <1>4 DEF UpdatePassword, Owned, RowsInv, NormalMeansOwnPassword
  <2> QED BY <1>1, <1>4, <2>1 DEF UpdatePassword, RowsInv, NormalMeansOwnPassword
<1>5. ASSUME NEW a \in Accounts, DeleteAccountRow(r, a) PROVE RowsInv'
  <2>1. Owned(r)'
    BY <1>5 DEF DeleteAccountRow, Owned
  <2> QED BY <1>1, <1>5, <2>1 DEF DeleteAccountRow, RowsInv, NormalMeansOwnPassword
<1>6. CASE InsertAccountRow(r)
  <2>1. Owned(r)'
    BY <1>6 DEF InsertAccountRow, Owned
  <2>2. NormalMeansOwnPassword'
    BY <1>6 DEF InsertAccountRow, RowsInv, NormalMeansOwnPassword, NORMAL, UNMODIFIEDPWD
  <2> QED BY <1>1, <2>1, <2>2 DEF RowsInv
<1>7. CASE SaveUpdate(r)
  <2>1. Owned(r)'
    BY <1>7 DEF SaveUpdate, Owned
  <2>2. /\ UpdatedRow(r).pwd = input[r].pwd
        /\ UpdatedRow(r).status = IF who[r] = target[r] THEN read[r].status
                                  ELSE UNMODIFIEDPWD
    BY <1>7, UpdatedType DEF SaveUpdate, Altering
  <2>3. target[r] \in Accounts
    BY <1>7 DEF SaveUpdate, Altering
  <2> HIDE DEF TypeOK
  <2>4. UpdatedRow(r).status = NORMAL => <<target[r], UpdatedRow(r).pwd>> \in chosen
    <3>1. pc[r] = "update" /\ Owned(r)
      BY <1>7 DEF SaveUpdate, RowsInv
    <3> QED BY <2>2, <3>1 DEF Owned, NORMAL, UNMODIFIEDPWD
  <2>5. accounts' = [accounts EXCEPT ![target[r]] = UpdatedRow(r)] /\ chosen' = chosen
    BY <1>7 DEF SaveUpdate
  <2>6. NormalMeansOwnPassword'
    BY <2>4, <2>3, <2>5, RowWritten DEF RowsInv
  <2> QED BY <1>1, <2>1, <2>6 DEF RowsInv
<1>8. CASE SavePassword(r)
  <2>1. Owned(r)'
    BY <1>8 DEF SavePassword, Owned
  <2> DEFINE row == [read[r] EXCEPT !.pwd = input[r].pwd, !.status = NORMAL]
  <2>2. row.pwd = input[r].pwd
    BY <1>8 DEF SavePassword, AccountRow
  <2>3. <<target[r], row.pwd>> \in chosen
    BY <1>8, <2>2 DEF SavePassword, RowsInv, Owned
  <2>4. accounts' = [accounts EXCEPT ![target[r]] = row] /\ chosen' = chosen
        /\ target[r] \in Accounts
    BY <1>8 DEF SavePassword, Altering
  <2> HIDE DEF row
  <2>5. NormalMeansOwnPassword'
    BY <2>3, <2>4, RowWritten DEF RowsInv
  <2> QED BY <1>1, <2>1, <2>5 DEF RowsInv
<1>9. CASE RemoveAccountRow(r)
  <2>1. Owned(r)'
    BY <1>9 DEF RemoveAccountRow, Owned
  <2> QED BY <1>1, <1>9, <2>1 DEF RemoveAccountRow, RowsInv, NormalMeansOwnPassword
<1> QED BY <1>2, <1>3, <1>4, <1>5, <1>6, <1>7, <1>8, <1>9 DEF ChangeAccount

LEMMA RowsNext == TypeOK /\ RowsInv /\ [Next]_vars => RowsInv'
<1> SUFFICES ASSUME TypeOK, RowsInv, [Next]_vars PROVE RowsInv'
  OBVIOUS
<1>1. ASSUME SameRows PROVE RowsInv'
  <2>1. \A s \in Requests : Owned(s)'
    BY <1>1, OwnedStays DEF SameRows, RowsInv
  <2> QED BY <1>1, <2>1 DEF SameRows, RowsInv, NormalMeansOwnPassword
<1> QED BY <1>1, RowsChange, NoChange

-----------------------------------------------------------------------------
(* Changes are lost only by overlapping.                                   *)

LEMMA FreshStays ==
  ASSUME SameRows, FreshInv
  PROVE  FreshInv'
<1>1. ChangesLostOnlyByOverlap'
  BY DEF SameRows, FreshInv, ChangesLostOnlyByOverlap, asked
<1>2. ASSUME NEW s \in Requests PROVE Fresh(s)'
  BY <1>2 DEF SameRows, FreshInv, Fresh, Stays
<1> QED BY <1>1, <1>2 DEF FreshInv

\* A request that begins to change an account: either another one is at it, or
\* it is the only one.
LEMMA FreshBegins ==
  ASSUME TypeOK, FreshInv, NEW r \in Requests, NEW a \in Accounts,
         NEW label \in Altering, pc[r] \notin Altering,
         Change(r, a, label), UNCHANGED <<accounts, asked>>,
         \A s \in Requests \ {r} : read'[s] = read[s],
         label \in {"update", "password"} => read'[r] = accounts[a]
  PROVE  FreshInv'
<1> USE DEF TypeOK, Change, Goto, asked
<1> HIDE DEF Token, AccountRow, Input, Altering
<1>1. ChangesLostOnlyByOverlap'
  BY DEF FreshInv, ChangesLostOnlyByOverlap
<1>2. ASSUME NEW s \in Requests, s # r PROVE Fresh(s)'
  BY <1>2 DEF FreshInv, Fresh
<1>3. Fresh(r)'
  BY DEF FreshInv, Fresh
<1> QED BY <1>1, <1>2, <1>3 DEF FreshInv

\* A request that ends by writing the row, or removing it.
LEMMA FreshEnds ==
  ASSUME TypeOK, FreshInv, NEW r \in Requests, pc[r] \in Altering, End(r),
         NEW row, accounts' = [accounts EXCEPT ![target[r]] = row],
         UNCHANGED <<target, read, overlapped>>,
         \A a \in Accounts \ {target[r]} :
           askedPwd'[a] = askedPwd[a] /\ askedRole'[a] = askedRole[a],
         target[r] \notin overlapped /\ row # Null =>
           row.pwd = askedPwd'[target[r]] /\ row.role = askedRole'[target[r]]
  PROVE  FreshInv'
<1> USE DEF TypeOK, Goto, End
<1> HIDE DEF Token, AccountRow, Input
<1>1. target[r] \in Accounts
  OBVIOUS
<1>2. ChangesLostOnlyByOverlap'
  BY <1>1 DEF FreshInv, ChangesLostOnlyByOverlap
<1>3. ASSUME NEW s \in Requests, s # r PROVE Fresh(s)'
  BY <1>1, <1>3 DEF FreshInv, Fresh, Altering
<1>4. Fresh(r)'
  BY DEF FreshInv, Fresh, Altering
<1> QED BY <1>2, <1>3, <1>4 DEF FreshInv

LEMMA FreshChange ==
  ASSUME TypeOK, FreshInv, NEW r \in Requests, ChangeAccount(r)
  PROVE  FreshInv'
<1> USE DEF locals, ofUsers, ofLogin, asked
<1>1. ASSUME NEW a \in Accounts, NEW p \in Passwords, NEW role \in RoleIds,
             AddAccountRow(r, a, p, role)
      PROVE  FreshInv'
  BY <1>1, FreshBegins DEF AddAccountRow, Altering
<1>2. ASSUME NEW a \in Accounts, NEW p \in Passwords, NEW role \in RoleIds,
             UpdateAccountRow(r, a, p, role)
      PROVE  FreshInv'
  <2>1. /\ read' = [read EXCEPT ![r] = accounts[a]]
        /\ pc[r] \notin Altering /\ "update" \in Altering
        /\ Change(r, a, "update") /\ UNCHANGED <<accounts, asked>>
    BY <1>2 DEF UpdateAccountRow, Altering
  <2>2. \A s \in Requests \ {r} : read'[s] = read[s]
    BY <2>1 DEF TypeOK
  <2>3. read'[r] = accounts[a]
    BY <2>1 DEF TypeOK
  <2> QED BY <2>1, <2>2, <2>3, FreshBegins
<1>3. ASSUME NEW p \in Passwords, UpdatePassword(r, p) PROVE FreshInv'
  <2>1. /\ read' = [read EXCEPT ![r] = accounts[who[r]]]
        /\ pc[r] \notin Altering /\ "password" \in Altering
        /\ Change(r, who[r], "password") /\ UNCHANGED <<accounts, asked>>
        /\ who[r] \in Accounts
    BY <1>3 DEF UpdatePassword, Altering, TypeOK
  <2>2. \A s \in Requests \ {r} : read'[s] = read[s]
    BY <2>1 DEF TypeOK
  <2>3. read'[r] = accounts[who[r]]
    BY <2>1 DEF TypeOK
  <2> QED BY <2>1, <2>2, <2>3, FreshBegins
<1>4. ASSUME NEW a \in Accounts, DeleteAccountRow(r, a) PROVE FreshInv'
  BY <1>4, FreshBegins DEF DeleteAccountRow, Altering
<1>5. CASE InsertAccountRow(r)
  <2> DEFINE row == [pwd |-> input[r].pwd, role |-> input[r].role,
                     status |-> UNMODIFIEDPWD]
  <2>1. /\ accounts' = [accounts EXCEPT ![target[r]] = row]
        /\ askedPwd' = [askedPwd EXCEPT ![target[r]] = input[r].pwd]
        /\ askedRole' = [askedRole EXCEPT ![target[r]] = input[r].role]
        /\ End(r) /\ UNCHANGED <<target, read, overlapped>>
        /\ pc[r] \in Altering /\ target[r] \in Accounts
        /\ row.pwd = input[r].pwd /\ row.role = input[r].role
    BY <1>5 DEF InsertAccountRow, Altering, TypeOK
  <2> HIDE DEF row
  <2>2. /\ \A a \in Accounts \ {target[r]} :
             askedPwd'[a] = askedPwd[a] /\ askedRole'[a] = askedRole[a]
        /\ askedPwd'[target[r]] = input[r].pwd /\ askedRole'[target[r]] = input[r].role
    BY <2>1 DEF TypeOK
  <2> QED BY <2>1, <2>2, FreshEnds
<1>6. CASE SaveUpdate(r)
  <2>1. /\ accounts' = [accounts EXCEPT ![target[r]] = UpdatedRow(r)]
        /\ askedPwd' = [askedPwd EXCEPT ![target[r]] = input[r].pwd]
        /\ askedRole' = [askedRole EXCEPT ![target[r]] = input[r].role]
        /\ End(r) /\ UNCHANGED <<target, read, overlapped>>
        /\ pc[r] \in Altering /\ target[r] \in Accounts
    BY <1>6 DEF SaveUpdate, Altering, TypeOK
  <2>2. UpdatedRow(r).pwd = input[r].pwd /\ UpdatedRow(r).role = input[r].role
    BY <1>6, UpdatedType DEF SaveUpdate, Altering, TypeOK
  <2>3. /\ \A a \in Accounts \ {target[r]} :
             askedPwd'[a] = askedPwd[a] /\ askedRole'[a] = askedRole[a]
        /\ askedPwd'[target[r]] = input[r].pwd /\ askedRole'[target[r]] = input[r].role
    BY <2>1 DEF TypeOK
  <2> QED BY <2>1, <2>2, <2>3, FreshEnds
<1>7. CASE SavePassword(r)
  <2> DEFINE row == [read[r] EXCEPT !.pwd = input[r].pwd, !.status = NORMAL]
  <2>1. /\ accounts' = [accounts EXCEPT ![target[r]] = row]
        /\ askedPwd' = [askedPwd EXCEPT ![target[r]] = input[r].pwd]
        /\ askedRole' = askedRole
        /\ End(r) /\ UNCHANGED <<target, read, overlapped>>
        /\ pc[r] \in {"update", "password"} /\ pc[r] \in Altering
        /\ target[r] \in Accounts /\ accounts[target[r]] # Null
    BY <1>7 DEF SavePassword, Altering, TypeOK
  <2>2. row.pwd = input[r].pwd /\ row.role = read[r].role
    BY <1>7 DEF SavePassword, AccountRow, TypeOK
  <2> HIDE DEF row
  <2>3. /\ \A a \in Accounts \ {target[r]} :
             askedPwd'[a] = askedPwd[a] /\ askedRole'[a] = askedRole[a]
        /\ askedPwd'[target[r]] = input[r].pwd
    BY <2>1 DEF TypeOK
  <2>4. target[r] \notin overlapped => read[r].role = askedRole[target[r]]
    BY <2>1 DEF FreshInv, Fresh, ChangesLostOnlyByOverlap
  <2> QED BY <2>1, <2>2, <2>3, <2>4, FreshEnds
<1>8. CASE RemoveAccountRow(r)
  <2>1. /\ accounts' = [accounts EXCEPT ![target[r]] = Null]
        /\ UNCHANGED <<askedPwd, askedRole, target, read, overlapped>>
        /\ End(r) /\ pc[r] \in Altering
    BY <1>8 DEF RemoveAccountRow, Altering
  <2> QED BY <2>1, FreshEnds
<1> QED BY <1>1, <1>2, <1>3, <1>4, <1>5, <1>6, <1>7, <1>8 DEF ChangeAccount

LEMMA FreshNext == TypeOK /\ FreshInv /\ [Next]_vars => FreshInv'
BY FreshStays, FreshChange, NoChange

-----------------------------------------------------------------------------
(* Tokens.                                                                 *)

LoggingIn == {"drop", "create"}

\* Steps that leave the tokens and the logins alone.
SameTokens ==
  /\ UNCHANGED <<tokens, nextToken, doubled, given, dead>>
  /\ \A s \in Requests : Stays(s, LoggingIn)

LEMMA TokensStay ==
  ASSUME SameTokens, TokensInv
  PROVE  TokensInv'
<1>1. (TokensDiffer /\ OneTokenUnlessOverlap /\ LoginTokenWorks)'
  BY DEF SameTokens, TokensInv, TokensDiffer, OneTokenUnlessOverlap, LoginTokenWorks
<1>2. ASSUME NEW s \in Requests PROVE LoginAlone(s)'
  BY <1>2 DEF SameTokens, LoggingIn, TokensInv, LoginAlone, Stays
<1> QED BY <1>1, <1>2 DEF TokensInv

\* Deleting tokens, as long as the login whose token it deletes is forgotten.
LEMMA TokensDeleted ==
  ASSUME TypeOK, TokensInv, NEW number, NEW account, DeleteToken(number, account),
         UNCHANGED <<nextToken, doubled>>,
         \A a \in Accounts : given'[a] = IF a = account THEN 0 ELSE given[a]
  PROVE  (TokensDiffer /\ OneTokenUnlessOverlap /\ LoginTokenWorks)'
<1>1. tokens' \subseteq tokens
  BY DEF DeleteToken
<1>2. (TokensDiffer /\ OneTokenUnlessOverlap)'
  BY <1>1 DEF TokensInv, TokensDiffer, OneTokenUnlessOverlap
<1>3. ASSUME NEW a \in Accounts, given'[a] # 0, given'[a] \notin dead'
      PROVE  \E t \in tokens' : t.token = given'[a] /\ t.value = a
  <2>1. a # account /\ given'[a] = given[a] /\ given[a] # 0 /\ given[a] \notin dead
    BY <1>3 DEF DeleteToken
  <2>2. PICK t \in tokens : t.token = given[a] /\ t.value = a
    BY <2>1 DEF TokensInv, LoginTokenWorks
  <2>3. t.token \notin Numbers(Expired) /\ t.token # number
    BY <1>3, <2>1, <2>2 DEF DeleteToken
  <2>4. t \notin Expired
    BY <2>3 DEF Numbers
  <2>5. t \in tokens'
    BY <2>1, <2>2, <2>3, <2>4 DEF DeleteToken
  <2> QED BY <2>1, <2>2, <2>5
<1> QED BY <1>2, <1>3 DEF LoginTokenWorks

\* A request that deletes tokens and is no login.
LEMMA TokensDeletedByOther ==
  ASSUME TypeOK, TokensInv, NEW r \in Requests, NEW number,
         DeleteToken(number, Null), End(r), pc[r] \notin LoggingIn,
         UNCHANGED <<nextToken, who, doubled, given>>
  PROVE  TokensInv'
<1>1. (TokensDiffer /\ OneTokenUnlessOverlap /\ LoginTokenWorks)'
  BY TokensDeleted, KnownAssumption
<1>2. tokens' \subseteq tokens
  BY DEF DeleteToken
<1>3. ASSUME NEW s \in Requests PROVE LoginAlone(s)'
  BY <1>2, <1>3 DEF TypeOK, End, Goto, LoggingIn, TokensInv, LoginAlone
<1> QED BY <1>1, <1>3 DEF TokensInv

LEMMA TokensLogin ==
  ASSUME TypeOK, TokensInv, NEW r \in Requests, NEW a \in Accounts, Login(r, a)
  PROVE  TokensInv'
<1> USE DEF Login, Goto
<1>1. (TokensDiffer /\ OneTokenUnlessOverlap /\ LoginTokenWorks)'
  BY DEF TokensInv, TokensDiffer, OneTokenUnlessOverlap, LoginTokenWorks, ofLogin
<1>2. ASSUME NEW s \in Requests, s # r PROVE LoginAlone(s)'
  BY <1>2 DEF TypeOK, TokensInv, LoginAlone, ofLogin
<1>3. LoginAlone(r)'
  BY DEF TypeOK, TokensInv, LoginAlone, ofLogin
<1> QED BY <1>1, <1>2, <1>3 DEF TokensInv

LEMMA TokensDrop ==
  ASSUME TypeOK, TokensInv, NEW r \in Requests, DropTokens(r)
  PROVE  TokensInv'
<1> USE DEF DropTokens, Goto, locals
<1>1. who[r] \in Accounts
  BY DEF TypeOK
<1>2. (TokensDiffer /\ OneTokenUnlessOverlap /\ LoginTokenWorks)'
  <2>1. \A a \in Accounts : given'[a] = IF a = who[r] THEN 0 ELSE given[a]
    BY DEF TypeOK
  <2> QED BY <2>1, TokensDeleted
<1>3. tokens' \subseteq tokens /\ \A t \in tokens' : t.value # who[r]
  BY DEF DeleteToken
<1>4. ASSUME NEW s \in Requests PROVE LoginAlone(s)'
  BY <1>1, <1>3, <1>4 DEF TypeOK, TokensInv, LoginAlone
<1> QED BY <1>2, <1>4 DEF TokensInv

LEMMA TokensCreate ==
  ASSUME TypeOK, TokensInv, NEW r \in Requests, CreateToken(r)
  PROVE  TokensInv'
<1> USE DEF CreateToken, End, Goto, locals
<1> DEFINE new == [token |-> nextToken, value |-> who[r], expire |-> now + MaxAge]
<1>1. who[r] \in Accounts
  BY DEF TypeOK
<1>2. tokens' = tokens \union {new} /\ new.token = nextToken /\ new.value = who[r]
  OBVIOUS
<1> HIDE DEF new
<1>3. nextToken \in Nat /\ \A t \in tokens : t.token \in Nat /\ t.token < nextToken
  BY DEF TypeOK, TokensInv, TokensDiffer, Token
<1>4. TokensDiffer'
  <2>1. \A t \in tokens' : t.token < nextToken'
    BY <1>2, <1>3
  <2>2. \A t, u \in tokens' : t.token = u.token => t = u
    BY <1>2, <1>3 DEF TokensInv, TokensDiffer
  <2> QED BY <2>1, <2>2 DEF TokensDiffer
<1>5. OneTokenUnlessOverlap'
  <2>1. who[r] \notin doubled => \A t \in tokens : t.value # who[r]
    BY DEF TokensInv, LoginAlone
  <2> QED BY <1>2, <2>1 DEF TokensInv, OneTokenUnlessOverlap
<1>6. LoginTokenWorks'
  BY <1>1, <1>2 DEF TypeOK, TokensInv, LoginTokenWorks
<1>7. ASSUME NEW s \in Requests PROVE LoginAlone(s)'
  BY <1>1, <1>2, <1>7 DEF TypeOK, TokensInv, LoginAlone
<1> QED BY <1>4, <1>5, <1>6, <1>7 DEF TokensInv

LEMMA TokensRenewed ==
  ASSUME TypeOK, TokensInv, NEW r \in Requests, UpdateExpireTime(r)
  PROVE  TokensInv'
<1> USE DEF UpdateExpireTime, Goto, locals, ofLogin
<1> DEFINE Renewed(t) == IF t.token = held[r] THEN [t EXCEPT !.expire = now + MaxAge]
                         ELSE t
<1>1. tokens' = {Renewed(t) : t \in tokens} /\ nextToken' = nextToken
  OBVIOUS
<1>2. \A t \in tokens : Renewed(t).token = t.token /\ Renewed(t).value = t.value
  BY DEF TypeOK, Token
<1> HIDE DEF Renewed
<1>3. TokensDiffer'
  BY <1>1, <1>2 DEF TokensInv, TokensDiffer
<1>4. OneTokenUnlessOverlap'
  BY <1>1, <1>2 DEF TokensInv, OneTokenUnlessOverlap
<1>5. LoginTokenWorks'
  BY <1>1, <1>2 DEF TokensInv, LoginTokenWorks
<1>6. ASSUME NEW s \in Requests PROVE LoginAlone(s)'
  BY <1>1, <1>2, <1>6 DEF TypeOK, TokensInv, LoginAlone
<1> QED BY <1>3, <1>4, <1>5, <1>6 DEF TokensInv

LEMMA TokensNext == TypeOK /\ TokensInv /\ [Next]_vars => TokensInv'
<1> SUFFICES ASSUME TypeOK, TokensInv, [Next]_vars PROVE TokensInv'
  OBVIOUS
<1>1. ASSUME NEW r \in Requests, LogIn(r) PROVE TokensInv'
  BY <1>1, TokensLogin, TokensDrop, TokensCreate DEF LogIn
<1>2. ASSUME NEW r \in Requests, NEW number, Logout(r, number) PROVE TokensInv'
  BY <1>2, TokensDeletedByOther DEF Logout, locals, LoggingIn
<1>3. ASSUME NEW r \in Requests, CarryToken(r) PROVE TokensInv'
  <2>1. ASSUME NEW t \in tokens, Authenticate(r, t) PROVE SameTokens
    BY <1>3, <2>1 DEF Authenticate, Goto, Value, TypeOK, SameTokens, Stays, LoggingIn, ofLogin
  <2>2. CASE DropExpired(r)
    BY <1>3, <2>2, TokensDeletedByOther DEF DropExpired, locals, LoggingIn
  <2>3. CASE LoadAccount(r) \/ CurrentAccount(r)
    <3>1. SameTokens
      BY <1>3, <2>3 DEF LoadAccount, CurrentAccount, Goto, Value, TypeOK, SameTokens, Stays,
                        LoggingIn, ofLogin, locals
    <3> QED BY <3>1, TokensStay
  <2> QED BY <1>3, <2>1, <2>2, <2>3, TokensStay, TokensRenewed DEF CarryToken
<1>4. ASSUME NEW r \in Requests, ChangeAccount(r) PROVE SameTokens
  BY <1>4 DEF ChangeAccount, AddAccountRow, UpdateAccountRow, UpdatePassword,
              DeleteAccountRow, InsertAccountRow, SaveUpdate, SavePassword,
              RemoveAccountRow, Change, End, Goto, TypeOK, SameTokens, Stays,
              LoggingIn, ofLogin, locals
<1>5. ASSUME NEW r \in Requests, Fail(r) PROVE SameTokens
  BY <1>5 DEF Fail, End, Goto, TypeOK, SameTokens, Stays, LoggingIn, ofLogin, locals
<1>6. CASE Crash
  BY <1>6, TokensStay DEF Crash, Running, TypeOK, SameTokens, Stays, LoggingIn, ofLogin, locals
<1>7. CASE Tick \/ UNCHANGED vars
  BY <1>7, TokensStay DEF Tick, vars, SameTokens, Stays, ofLogin, locals
<1> QED BY <1>1, <1>2, <1>3, <1>4, <1>5, <1>6, <1>7, TokensStay DEF Next

-----------------------------------------------------------------------------
(* The theorems.                                                           *)

Inv == TypeOK /\ RowsInv /\ FreshInv /\ TokensInv

LEMMA InitInv == Init => Inv
<1> SUFFICES ASSUME Init PROVE Inv
  OBVIOUS
<1>1. RowsInv
  BY KnownAssumption DEF Init, RowsInv, NormalMeansOwnPassword, Owned, UNMODIFIEDPWD, NORMAL
<1>2. FreshInv
  BY DEF Init, FreshInv, ChangesLostOnlyByOverlap, Fresh, Altering
<1>3. TokensInv
  <2>1. /\ \A t \in tokens : \E i \in DOMAIN LoggedIn :
              t = [token |-> i, value |-> LoggedIn[i], expire |-> MaxAge]
        /\ DOMAIN LoggedIn = 1..Len(LoggedIn) /\ Len(LoggedIn) \in Nat
    BY LoggedInAssumption DEF Init
  <2>2. TokensDiffer
    BY <2>1 DEF Init, TokensDiffer
  <2>3. OneTokenUnlessOverlap
    BY <2>1, LoggedInAssumption DEF OneTokenUnlessOverlap
  <2>4. LoginTokenWorks /\ \A r \in Requests : LoginAlone(r)
    BY DEF Init, LoginTokenWorks, LoginAlone
  <2> QED BY <2>2, <2>3, <2>4 DEF TokensInv
<1> QED BY <1>1, <1>2, <1>3, InitType DEF Inv

LEMMA NextInv == Inv /\ [Next]_vars => Inv'
BY TypeNext, RowsNext, FreshNext, TokensNext DEF Inv

LEMMA Invariance == Spec => []Inv
BY InitInv, NextInv, PTL DEF Spec

\* The tables, the requests and what is remembered of them keep their types; a
\* request that is to write a row of an account has the row and the input it needs.
THEOREM AccountTypeCorrect == Spec => []TypeOK
BY Invariance, PTL DEF Inv

\* An account has the status of a password chosen by its owner only if its owner
\* chose the password it has, whatever requests write back rows read before.
THEOREM OwnPassword == Spec => []NormalMeansOwnPassword
BY Invariance, PTL DEF Inv, RowsInv

\* What was asked for with success is in the row, unless requests that change the
\* account overlap.
THEOREM ChangesKept == Spec => []ChangesLostOnlyByOverlap
BY Invariance, PTL DEF Inv, FreshInv

\* An account whose logins do not overlap has one token.
THEOREM OneToken == Spec => []OneTokenUnlessOverlap
BY Invariance, PTL DEF Inv, TokensInv

\* Nothing but a logout, an expiry or another login takes away the token of a
\* login.
THEOREM LoginWorks == Spec => []LoginTokenWorks
BY Invariance, PTL DEF Inv, TokensInv

=============================================================================
