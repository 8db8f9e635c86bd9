-------------------------- MODULE ChainCodeProofs --------------------------
(***************************************************************************)
(* Proofs about ChainCode, for any requests, codes, fronts and retries.    *)
(*                                                                         *)
(* What a deployment wrote can only be touched by a request that checked   *)
(* the row before.  The invariant says so: while a request deploys a row,  *)
(* and for ever after it has succeeded, no other request that may write    *)
(* the row is under way, unless one of them overlapped it.                 *)
(***************************************************************************)
EXTENDS ChainCode, TLAPS

\* Where a request is that has checked a row and will write it.
Altering  == {"updateName", "update", "remove", "deployName", "deploy", "save"}
Deploying == {"deployName", "deploy", "save"}

\* chain_code_pk identifies a row.
PkUnique ==
  /\ \A row \in rows : row.pk < nextPk
  /\ \A row, other \in rows : row.pk = other.pk => row = other

\* What is known of a request from where it is.
Stage(r) ==
  /\ pc[r] = "idle" =>
       /\ carried[r] = 0
       /\ \A s \in Requests : <<r, s>> \notin together /\ <<s, r>> \notin together
  /\ r \in deployed => pc[r] = "done"
  /\ pc[r] = "save" => carried[r] > 0
  /\ pc[r] \in {"updateName", "update"} => read[r].status = NOTDEPLOYED

\* Nobody else is about to write the row that r deploys or has deployed, and the
\* row r deploys is there.
Alone(r) ==
  r \in deployed \/ pc[r] \in Deploying =>
    \/ Disturbed(r)
    \/ /\ \A s \in Requests \ {r} : target[s] = target[r] => pc[s] \notin Altering
       /\ \E row \in rows : row.pk = target[r]

IInv ==
  /\ TypeOK
  /\ PkUnique
  /\ \A r \in Requests : Stage(r) /\ Alone(r)
  /\ DeployedRowOnChain
  /\ DeploymentStays
  /\ DeployedOnce

-----------------------------------------------------------------------------
(* Type correctness.                                                       *)

LEMMA InitType == Init => TypeOK
BY SavedAssumption, FrontsAssumption DEF Init, TypeOK, Row, NoRow

LEMMA UpdatedType ==
  ASSUME NEW r \in Requests, NEW row \in Row, read[r] \in Row, code[r] \in Codes
  PROVE  Updated(r, row) \in Row /\ Updated(r, row).pk = row.pk
BY DEF Updated, Row

LEMMA DeployedType ==
  ASSUME NEW r \in Requests, NEW row \in Row, code[r] \in Codes
  PROVE  /\ Deployed(r, row) \in Row /\ Deployed(r, row).pk = row.pk
         /\ Deployed(r, row).code = code[r] /\ Deployed(r, row).status = DEPLOYED
BY CodesAssumption DEF Deployed, Row

\* The requests that arrive.
LEMMA ArriveType ==
  ASSUME TypeOK, NEW r \in Requests, Arrive(r)
  PROVE  TypeOK'
<1> USE DEF TypeOK, Begin, Goto, table, inputs, posted
<1>0. ASSUME NEW label \in {"add", "updateName", "remove", "deployName", "send"},
             Begin(r, label)
      PROVE  together' \in SUBSET (Requests \X Requests)
  BY <1>0
<1>1. ASSUME NEW c \in Codes, NewChainCode(r, c) PROVE TypeOK'
  <2>1. together' \in SUBSET (Requests \X Requests)
    BY <1>0, <1>1 DEF NewChainCode
  <2> QED BY <1>1, <2>1 DEF NewChainCode
<1>2. ASSUME NEW row \in rows, NEW c \in Codes, UpdateChainCode(r, row, c)
      PROVE  TypeOK'
  <2>1. together' \in SUBSET (Requests \X Requests)
    BY <1>0, <1>2 DEF UpdateChainCode
  <2>2. row.pk \in Nat
    BY DEF Row
  <2> QED BY <1>2, <2>1, <2>2 DEF UpdateChainCode
<1>3. ASSUME NEW row \in rows, NEW c \in Codes, DeployChainCode(r, row, c)
      PROVE  TypeOK'
  <2>1. together' \in SUBSET (Requests \X Requests)
    BY <1>0, <1>3 DEF DeployChainCode
  <2>2. row.pk \in Nat
    BY DEF Row
  <2> QED BY <1>3, <2>1, <2>2 DEF DeployChainCode
<1>4. ASSUME NEW row \in rows, DeleteChainCode(r, row) PROVE TypeOK'
  <2>1. together' \in SUBSET (Requests \X Requests)
    BY <1>0, <1>4 DEF DeleteChainCode
  <2>2. row.pk \in Nat
    BY DEF Row
  <2> QED BY <1>4, <2>1, <2>2 DEF DeleteChainCode
<1>5. ASSUME NEW row \in rows, SendTransaction(r, row) PROVE TypeOK'
  <2>1. together' \in SUBSET (Requests \X Requests)
    BY <1>0, <1>5 DEF SendTransaction
  <2>2. row.pk \in Nat
    BY DEF Row
  <2> QED BY <1>5, <2>1, <2>2, FrontsAssumption DEF SendTransaction, TryFront
<1> QED BY <1>1, <1>2, <1>3, <1>4, <1>5 DEF Arrive

\* The writes, and what leads to them.
LEMMA WriteType ==
  ASSUME TypeOK, NEW r \in Requests,
         \/ AddRow(r) \/ UpdateName(r) \/ UpdateRow(r) \/ RemoveRow(r)
         \/ DeployName(r) \/ SaveDeployed(r) \/ Rejected(r) \/ Fail(r)
  PROVE  TypeOK'
<1> USE DEF TypeOK, End, Goto, table, inputs, posted
<1>1. CASE AddRow(r)
  BY <1>1 DEF AddRow, Row
<1>2. CASE UpdateName(r)
  BY <1>2 DEF UpdateName
<1>3. CASE UpdateRow(r)
  <2>1. rows' \in SUBSET Row
    BY <1>3, UpdatedType DEF UpdateRow
  <2> QED BY <1>3, <2>1 DEF UpdateRow
<1>4. CASE RemoveRow(r)
  BY <1>4 DEF RemoveRow
<1>5. CASE DeployName(r)
  BY <1>5, FrontsAssumption DEF DeployName, TryFront
<1>6. CASE SaveDeployed(r)
  <2>1. rows' \in SUBSET Row
    BY <1>6, DeployedType DEF SaveDeployed
  <2> QED BY <1>6, <2>1 DEF SaveDeployed
<1>7. CASE Rejected(r)
  BY <1>7 DEF Rejected
<1>8. CASE Fail(r)
  BY <1>8 DEF Fail, CarryOut
<1> QED BY <1>1, <1>2, <1>3, <1>4, <1>5, <1>6, <1>7, <1>8

\* The rounds of a POST.
LEMMA PostType ==
  ASSUME TypeOK, NEW r \in Requests,
         Answered(r) \/ SentAgain(r) \/ NextFront(r) \/ NoneLeft(r)
  PROVE  TypeOK'
<1> USE DEF TypeOK, End, Goto, table, inputs, CarryOut
<1>1. CASE Answered(r)
  BY <1>1 DEF Answered
<1>2. CASE SentAgain(r)
  BY <1>2, FrontsAssumption DEF SentAgain
<1>3. CASE NextFront(r)
  BY <1>3, FrontsAssumption DEF NextFront, TryFront
<1>4. CASE NoneLeft(r)
  BY <1>4 DEF NoneLeft
<1> QED BY <1>1, <1>2, <1>3, <1>4

LEMMA TypeNext == TypeOK /\ [Next]_vars => TypeOK'
<1> SUFFICES ASSUME TypeOK, [Next]_vars PROVE TypeOK'
  OBVIOUS
<1>1. CASE Crash
  BY <1>1 DEF Crash, Running, TypeOK, table, inputs, posted
<1>2. CASE UNCHANGED vars
  BY <1>2 DEF vars, TypeOK
<1> QED BY <1>1, <1>2, ArriveType, WriteType, PostType DEF Next, Proceed

-----------------------------------------------------------------------------
(* What the steps of a request change.                                     *)

\* The steps of a request that is under way.
Step(r) == Proceed(r) \/ Answered(r) \/ SentAgain(r) \/ Fail(r)

\* An arriving request writes nothing; one that will write has seen the row, and
\* seen it not deployed.
LEMMA ArriveStep ==
  ASSUME TypeOK, NEW r \in Requests, Arrive(r)
  PROVE  /\ pc[r] = "idle"
         /\ pc'[r] \in {"add", "updateName", "remove", "deployName", "send"}
         /\ \A s \in Requests \ {r} :
              /\ pc'[s] = pc[s] /\ target'[s] = target[s]
              /\ code'[s] = code[s] /\ read'[s] = read[s]
         /\ rows' = rows /\ nextPk' = nextPk
         /\ carried' = carried /\ deployed' = deployed
         /\ pc'[r] \in Altering =>
              \E row \in rows : row.pk = target'[r] /\ row.status = NOTDEPLOYED
         /\ pc'[r] = "updateName" => read'[r].status = NOTDEPLOYED
<1> USE DEF TypeOK, Begin, Goto, table, inputs, posted, Altering
<1> HIDE DEF Row
<1>1. ASSUME NEW row \in rows, NotDeployed(row) PROVE row.status = NOTDEPLOYED
  BY <1>1 DEF NotDeployed, Row
<1>2. ASSUME NEW c \in Codes, NewChainCode(r, c)
      PROVE  pc' = [pc EXCEPT ![r] = "add"] /\ target' = target /\ read' = read
  BY <1>2 DEF NewChainCode
<1>3. CASE \E c \in Codes : NewChainCode(r, c)
  BY <1>3, <1>2 DEF NewChainCode
<1>4. CASE \E row \in rows, c \in Codes : UpdateChainCode(r, row, c)
  BY <1>4, <1>1 DEF UpdateChainCode
<1>5. CASE \E row \in rows, c \in Codes : DeployChainCode(r, row, c)
  BY <1>5, <1>1 DEF DeployChainCode
<1>6. CASE \E row \in rows : DeleteChainCode(r, row)
  BY <1>6, <1>1 DEF DeleteChainCode
<1>7. CASE \E row \in rows : SendTransaction(r, row)
  BY <1>7 DEF SendTransaction
<1> QED BY <1>3, <1>4, <1>5, <1>6, <1>7 DEF Arrive

\* It overlaps every request that is under way.
LEMMA ArriveTogether ==
  ASSUME TypeOK, NEW r \in Requests, Arrive(r)
  PROVE  together' = together \union ({r} \X { s \in Requests : Running(s) })
                              \union ({ s \in Requests : Running(s) } \X {r})
BY DEF Arrive, NewChainCode, UpdateChainCode, DeployChainCode, DeleteChainCode,
       SendTransaction, Begin

\* A step of a request goes forward and does not change what was submitted.
LEMMA StepKept ==
  ASSUME TypeOK, NEW r \in Requests, Step(r)
  PROVE  /\ Running(r) /\ pc[r] # "idle" /\ pc'[r] # "idle"
         /\ \A s \in Requests \ {r} : pc'[s] = pc[s]
         /\ target' = target /\ code' = code /\ read' = read
         /\ together' = together
         /\ \A s \in Requests : carried'[s] \in Nat /\ carried'[s] >= carried[s]
         /\ pc'[r] \in Altering => pc[r] \in Altering
         /\ pc'[r] \in Deploying => pc[r] \in Deploying
         /\ pc'[r] \in {"updateName", "update"} => pc[r] = "updateName"
         /\ pc'[r] = "save" => carried'[r] > 0
<1> USE DEF TypeOK, End, Goto, table, inputs, posted, Altering, Deploying,
            Running, CarryOut, TryFront
<1>1. CASE AddRow(r) \/ UpdateName(r) \/ UpdateRow(r) \/ RemoveRow(r)
  BY <1>1 DEF AddRow, UpdateName, UpdateRow, RemoveRow
<1>2. CASE DeployName(r) \/ SaveDeployed(r)
  BY <1>2 DEF DeployName, SaveDeployed
<1>3. CASE Rejected(r)
  BY <1>3 DEF Rejected
<1>4. CASE Fail(r)
  BY <1>4 DEF Fail
<1>5. CASE Answered(r)
  BY <1>5 DEF Answered
<1>6. CASE SentAgain(r)
  BY <1>6 DEF SentAgain
<1>7. CASE NextFront(r)
  BY <1>7 DEF NextFront
<1>8. CASE NoneLeft(r)
  BY <1>8 DEF NoneLeft
<1> QED BY <1>1, <1>2, <1>3, <1>4, <1>5, <1>6, <1>7, <1>8 DEF Step, Proceed

\* The steps that do not write the table.
LEMMA StepQuiet ==
  ASSUME NEW r \in Requests, Step(r),
         ~ AddRow(r), ~ UpdateRow(r), ~ RemoveRow(r), ~ SaveDeployed(r)
  PROVE  rows' = rows /\ nextPk' = nextPk /\ deployed' = deployed
BY DEF Step, Proceed, UpdateName, DeployName, NextFront, NoneLeft, Rejected,
       Answered, SentAgain, Fail, table

\* A request that has arrived keeps what it submitted.
LEMMA Kept ==
  ASSUME TypeOK, [Next]_vars
  PROVE  /\ \A s \in Requests : pc[s] # "idle" =>
              /\ pc'[s] # "idle" /\ target'[s] = target[s] /\ code'[s] = code[s]
              /\ carried'[s] \in Nat /\ carried'[s] >= carried[s]
         /\ together \subseteq together'
<1>1. ASSUME NEW r \in Requests, Arrive(r)
      PROVE  /\ \A s \in Requests : pc[s] # "idle" =>
                  /\ pc'[s] # "idle" /\ target'[s] = target[s] /\ code'[s] = code[s]
                  /\ carried'[s] \in Nat /\ carried'[s] >= carried[s]
             /\ together \subseteq together'
  BY <1>1, ArriveStep, ArriveTogether DEF TypeOK
<1>2. ASSUME NEW r \in Requests, Step(r)
      PROVE  /\ \A s \in Requests : pc[s] # "idle" =>
                  /\ pc'[s] # "idle" /\ target'[s] = target[s] /\ code'[s] = code[s]
                  /\ carried'[s] \in Nat /\ carried'[s] >= carried[s]
             /\ together \subseteq together'
  BY <1>2, StepKept
<1>3. CASE Crash
  BY <1>3 DEF Crash, Running, TypeOK, table, inputs, posted
<1>4. CASE UNCHANGED vars
  BY <1>4 DEF vars, TypeOK
<1> QED BY <1>1, <1>2, <1>3, <1>4 DEF Next, Step

-----------------------------------------------------------------------------
(* The invariant is kept, part by part.                                    *)

\* A request once overlapped stays so: both requests have arrived.
LEMMA DisturbedStays ==
  ASSUME IInv, [Next]_vars, NEW r \in Requests, Disturbed(r)
  PROVE  Disturbed(r)'
<1>1. PICK s \in Requests \ {r} : target[s] = target[r] /\ <<r, s>> \in together
  BY DEF Disturbed
<1>2. pc[r] # "idle" /\ pc[s] # "idle"
  BY <1>1 DEF IInv, Stage
<1>3. target'[s] = target'[r] /\ <<r, s>> \in together'
  BY <1>1, <1>2, Kept DEF IInv
<1> QED BY <1>1, <1>3 DEF Disturbed

LEMMA PkUniqueNext ==
  ASSUME TypeOK, PkUnique, [Next]_vars
  PROVE  PkUnique'
<1> USE DEF TypeOK, PkUnique
<1> HIDE DEF Row
<1>0. \A row \in rows : row.pk \in Nat
  BY DEF Row
<1>1. ASSUME NEW r \in Requests, AddRow(r) PROVE PkUnique'
  BY <1>0, <1>1 DEF AddRow
<1>2. ASSUME NEW r \in Requests, UpdateRow(r) PROVE PkUnique'
  <2>1. \A row \in rows : Updated(r, row).pk = row.pk
    BY <1>2, UpdatedType DEF UpdateRow
  <2> QED BY <1>2, <2>1 DEF UpdateRow
<1>3. ASSUME NEW r \in Requests, RemoveRow(r) PROVE PkUnique'
  BY <1>3 DEF RemoveRow
<1>4. ASSUME NEW r \in Requests, SaveDeployed(r) PROVE PkUnique'
  <2>1. \A row \in rows : Deployed(r, row).pk = row.pk
    BY <1>4, DeployedType DEF SaveDeployed
  <2> QED BY <1>4, <2>1 DEF SaveDeployed
<1>5. ASSUME NEW r \in Requests, Arrive(r) PROVE PkUnique'
  BY <1>5, ArriveStep
<1>6. CASE Crash \/ UNCHANGED vars
  BY <1>6 DEF Crash, vars, table
<1> QED BY <1>1, <1>2, <1>3, <1>4, <1>5, <1>6, StepQuiet DEF Next, Step

\* Only saving a deployment adds to deployed.
LEMMA DeployedGrows ==
  ASSUME NEW r \in Requests, Step(r)
  PROVE  \/ deployed' = deployed
         \/ SaveDeployed(r) /\ deployed' = deployed \union {r}
<1>1. CASE AddRow(r) \/ UpdateRow(r) \/ RemoveRow(r)
  BY <1>1 DEF AddRow, UpdateRow, RemoveRow
<1>2. CASE SaveDeployed(r)
  BY <1>2 DEF SaveDeployed
<1> QED BY <1>1, <1>2, StepQuiet

LEMMA StageNext ==
  ASSUME IInv, [Next]_vars, NEW t \in Requests
  PROVE  Stage(t)'
<1>0. TypeOK /\ Stage(t)
  BY DEF IInv
<1>1. ASSUME NEW r \in Requests, Arrive(r) PROVE Stage(t)'
  <2>1. pc'[t] = "idle" =>
          \A s \in Requests : <<t, s>> \notin together' /\ <<s, t>> \notin together'
    <3> SUFFICES ASSUME pc'[t] = "idle", NEW s \in Requests
                 PROVE  <<t, s>> \notin together' /\ <<s, t>> \notin together'
      OBVIOUS
    <3>1. t # r /\ pc[t] = "idle"
      BY <1>0, <1>1, ArriveStep
    <3> QED BY <1>0, <1>1, <3>1, ArriveTogether DEF Running, Stage
  <2>2. /\ t = r \/ (t # r /\ pc'[t] = pc[t] /\ read'[t] = read[t])
        /\ carried' = carried /\ deployed' = deployed
        /\ pc[r] = "idle" /\ pc'[r] \notin {"idle", "save", "update", "done"}
        /\ pc'[r] = "updateName" => read'[r].status = NOTDEPLOYED
    BY <1>0, <1>1, ArriveStep
  <2> QED BY <1>0, <2>1, <2>2 DEF Stage
<1>2. ASSUME NEW r \in Requests, Step(r) PROVE Stage(t)'
  <2>1. /\ pc[r] # "idle" /\ pc'[r] # "idle" /\ Running(r)
        /\ t = r \/ (t # r /\ pc'[t] = pc[t])
        /\ read' = read /\ together' = together
        /\ carried'[t] \in Nat /\ carried'[t] >= carried[t]
        /\ pc'[r] \in {"updateName", "update"} => pc[r] = "updateName"
        /\ pc'[r] = "save" => carried'[r] > 0
    BY <1>0, <1>2, StepKept
  <2>2. t \in deployed' => pc'[t] = "done"
    <3>1. CASE deployed' = deployed
      BY <1>0, <2>1, <3>1 DEF Stage, Running
    <3>2. CASE SaveDeployed(r) /\ deployed' = deployed \union {r}
      BY <1>0, <2>1, <3>2 DEF Stage, Running, SaveDeployed, End, Goto, TypeOK
    <3> QED BY <3>1, <3>2, <1>2, DeployedGrows
  <2>3. pc'[t] = "idle" => carried'[t] = 0
    <3> SUFFICES ASSUME pc'[t] = "idle" PROVE carried'[t] = carried[t]
      BY <1>0, <2>1 DEF Stage
    <3> QED BY <1>0, <1>2, <2>1 DEF Step, Proceed, AddRow, UpdateName, UpdateRow,
              RemoveRow, DeployName, SaveDeployed, Rejected, Fail, Answered,
              SentAgain, NextFront, NoneLeft, posted, CarryOut, TypeOK
  <2>4. carried[t] > 0 => carried'[t] > 0
    BY <1>0, <2>1 DEF TypeOK
  <2> QED BY <1>0, <2>1, <2>2, <2>3, <2>4 DEF Stage
<1>3. CASE Crash
  BY <1>0, <1>3 DEF Crash, Stage, Running, TypeOK, table, inputs, posted
<1>4. CASE UNCHANGED vars
  BY <1>0, <1>4 DEF vars, Stage
<1> QED BY <1>1, <1>2, <1>3, <1>4 DEF Next, Step

\* A step of a request leaves the rows it did not ask for; it removes or changes
\* the one it did ask for only from where it may.
LEMMA StepRows ==
  ASSUME TypeOK, NEW r \in Requests, Step(r), NEW row \in rows
  PROVE  /\ row.pk # target[r] => row \in rows'
         /\ pc[r] \notin Altering => row \in rows'
         /\ pc[r] # "remove" => \E other \in rows' : other.pk = row.pk
<1> USE DEF Altering
<1> HIDE DEF Row
<1>1. CASE AddRow(r)
  BY <1>1 DEF AddRow
<1>2. CASE UpdateRow(r)
  <2>1. Updated(r, row).pk = row.pk
    BY <1>2, UpdatedType DEF UpdateRow, TypeOK
  <2> QED BY <1>2, <2>1 DEF UpdateRow
<1>3. CASE RemoveRow(r)
  BY <1>3 DEF RemoveRow
<1>4. CASE SaveDeployed(r)
  <2>1. Deployed(r, row).pk = row.pk
    BY <1>4, DeployedType DEF SaveDeployed, TypeOK
  <2> QED BY <1>4, <2>1 DEF SaveDeployed
<1> QED BY <1>1, <1>2, <1>3, <1>4, StepQuiet

LEMMA AloneNext ==
  ASSUME IInv, [Next]_vars, NEW t \in Requests
  PROVE  Alone(t)'
<1>0. TypeOK /\ PkUnique /\ Stage(t) /\ Alone(t)
  BY DEF IInv
<1> SUFFICES ASSUME ~ Disturbed(t)', t \in deployed' \/ pc'[t] \in Deploying
             PROVE  /\ \A s \in Requests \ {t} :
                         target'[s] = target'[t] => pc'[s] \notin Altering
                    /\ \E row \in rows' : row.pk = target'[t]
  BY DEF Alone
<1>1. ~ Disturbed(t)
  BY DisturbedStays
<1>2. ASSUME NEW r \in Requests, Arrive(r), r = t
      PROVE  /\ \A s \in Requests \ {t} :
                  target'[s] = target'[t] => pc'[s] \notin Altering
             /\ \E row \in rows' : row.pk = target'[t]
  <2>1. /\ pc[t] = "idle" /\ deployed' = deployed /\ rows' = rows
        /\ pc'[t] \in Altering => \E row \in rows : row.pk = target'[t]
        /\ \A s \in Requests \ {t} : pc'[s] = pc[s]
    BY <1>0, <1>2, ArriveStep
  <2>2. pc'[t] \in Deploying
    BY <1>0, <2>1 DEF Stage
  <2>3. ASSUME NEW s \in Requests \ {t}, target'[s] = target'[t], pc'[s] \in Altering
        PROVE  FALSE
    <3>1. Running(s)
      BY <2>1, <2>3 DEF Altering, Running
    <3>2. <<t, s>> \in together'
      BY <1>0, <1>2, <3>1, ArriveTogether
    <3> QED BY <2>3, <3>2 DEF Disturbed
  <2> QED BY <2>1, <2>2, <2>3 DEF Altering, Deploying
<1>3. ASSUME NEW r \in Requests, Arrive(r), r # t
      PROVE  /\ \A s \in Requests \ {t} :
                  target'[s] = target'[t] => pc'[s] \notin Altering
             /\ \E row \in rows' : row.pk = target'[t]
  <2>1. /\ deployed' = deployed /\ rows' = rows
        /\ pc'[r] \in Altering =>
             \E row \in rows : row.pk = target'[r] /\ row.status = NOTDEPLOYED
        /\ \A s \in Requests \ {r} : pc'[s] = pc[s] /\ target'[s] = target[s]
    BY <1>0, <1>3, ArriveStep
  <2>2. /\ \A s \in Requests \ {t} : target[s] = target[t] => pc[s] \notin Altering
        /\ \E row \in rows : row.pk = target[t]
    BY <1>0, <1>1, <1>3, <2>1 DEF Alone
  <2>3. ASSUME target'[r] = target'[t], pc'[r] \in Altering
        PROVE  FALSE
    <3>1. CASE t \in deployed
      <4>1. PICK row \in rows : row.pk = target[t] /\ row.status = DEPLOYED
        BY <1>1, <3>1 DEF IInv, DeploymentStays
      <4>2. PICK other \in rows : other.pk = target[t] /\ other.status = NOTDEPLOYED
        BY <1>3, <2>1, <2>3
      <4> QED BY <1>0, <4>1, <4>2 DEF PkUnique, DEPLOYED, NOTDEPLOYED
    <3>2. CASE pc[t] \in Deploying
      <4>1. Running(t)
        BY <3>2 DEF Deploying, Running
      <4>2. <<t, r>> \in together'
        BY <1>0, <1>3, <4>1, ArriveTogether
      <4> QED BY <1>3, <2>3, <4>2 DEF Disturbed
    <3> QED BY <1>3, <2>1, <3>1, <3>2
  <2> QED BY <1>3, <2>1, <2>2, <2>3
<1>4. ASSUME NEW r \in Requests, Step(r)
      PROVE  /\ \A s \in Requests \ {t} :
                  target'[s] = target'[t] => pc'[s] \notin Altering
             /\ \E row \in rows' : row.pk = target'[t]
  <2>1. /\ \A s \in Requests \ {r} : pc'[s] = pc[s]
        /\ target' = target /\ Running(r)
        /\ pc'[r] \in Altering => pc[r] \in Altering
        /\ pc'[r] \in Deploying => pc[r] \in Deploying
    BY <1>0, <1>4, StepKept
  <2>2. t \in deployed \/ pc[t] \in Deploying
    <3>1. CASE SaveDeployed(r) /\ deployed' = deployed \union {r}
      BY <2>1, <3>1 DEF SaveDeployed, Deploying
    <3>2. CASE deployed' = deployed
      BY <2>1, <3>2
    <3> QED BY <1>4, <3>1, <3>2, DeployedGrows
  <2>3. /\ \A s \in Requests \ {t} : target[s] = target[t] => pc[s] \notin Altering
        /\ \E row \in rows : row.pk = target[t]
    BY <1>0, <1>1, <2>2 DEF Alone
  <2>4. PICK row \in rows : row.pk = target[t]
    BY <2>3
  <2>5. \E other \in rows' : other.pk = target[t]
    <3>1. CASE r = t
      <4>1. pc[t] # "remove"
        BY <1>0, <2>1, <2>2, <3>1 DEF Stage, Deploying, Running
      <4> QED BY <1>0, <1>4, <2>4, <3>1, <4>1, StepRows
    <3>2. CASE r # t
      BY <1>0, <1>4, <2>3, <2>4, <3>2, StepRows
    <3> QED BY <3>1, <3>2
  <2> QED BY <2>1, <2>3, <2>5
<1>5. CASE Crash
  BY <1>0, <1>1, <1>5 DEF Crash, Alone, Running, Altering, Deploying, TypeOK,
                          table, inputs, posted
<1>6. CASE UNCHANGED vars
  BY <1>0, <1>1, <1>6 DEF vars, Alone
<1> QED BY <1>2, <1>3, <1>4, <1>5, <1>6 DEF Next, Step

LEMMA StaysNext ==
  ASSUME IInv, [Next]_vars
  PROVE  DeploymentStays'
<1>0. TypeOK /\ PkUnique /\ DeploymentStays
  BY DEF IInv
<1> SUFFICES ASSUME NEW t \in Requests, t \in deployed', ~ Disturbed(t)'
             PROVE  \E row \in rows' : /\ row.pk = target'[t] /\ row.code = code'[t]
                                       /\ row.status = DEPLOYED
  <2>1. deployed' \subseteq Requests
    BY <1>0, TypeNext DEF TypeOK
  <2> QED BY <2>1 DEF DeploymentStays
<1>1. ~ Disturbed(t)
  BY DisturbedStays
<1>2. ASSUME t \in deployed
      PROVE  /\ \E row \in rows : /\ row.pk = target[t] /\ row.code = code[t]
                                  /\ row.status = DEPLOYED
             /\ pc[t] = "done" /\ target'[t] = target[t] /\ code'[t] = code[t]
             /\ \A s \in Requests \ {t} : target[s] = target[t] => pc[s] \notin Altering
  <2>1. pc[t] = "done"
    BY <1>2 DEF IInv, Stage
  <2> QED BY <1>0, <1>1, <1>2, <2>1, Kept DEF IInv, Alone, DeploymentStays
<1>3. ASSUME NEW r \in Requests, Arrive(r)
      PROVE  \E row \in rows' : /\ row.pk = target'[t] /\ row.code = code'[t]
                                /\ row.status = DEPLOYED
  BY <1>0, <1>2, <1>3, ArriveStep
<1>4. ASSUME NEW r \in Requests, Step(r), t \in deployed
      PROVE  \E row \in rows' : /\ row.pk = target'[t] /\ row.code = code'[t]
                                /\ row.status = DEPLOYED
  <2>1. r # t
    BY <1>0, <1>2, <1>4, StepKept DEF Running
  <2>2. PICK row \in rows : /\ row.pk = target[t] /\ row.code = code[t]
                            /\ row.status = DEPLOYED
    BY <1>2, <1>4
  <2>3. row \in rows'
    BY <1>0, <1>2, <1>4, <2>1, <2>2, StepRows
  <2> QED BY <1>2, <1>4, <2>2, <2>3
<1>5. ASSUME NEW r \in Requests, Step(r), t \notin deployed
      PROVE  \E row \in rows' : /\ row.pk = target'[t] /\ row.code = code'[t]
                                /\ row.status = DEPLOYED
  <2>1. SaveDeployed(r) /\ r = t
    BY <1>5, DeployedGrows
  <2>2. pc[t] \in Deploying
    BY <2>1 DEF SaveDeployed, Deploying
  <2>3. PICK row \in rows : row.pk = target[t]
    BY <1>1, <2>2 DEF IInv, Alone
  <2>4. Deployed(t, row) \in rows' /\ target' = target /\ code' = code
    BY <2>1, <2>3 DEF SaveDeployed, inputs
  <2>5. /\ Deployed(t, row).pk = row.pk /\ Deployed(t, row).code = code[t]
        /\ Deployed(t, row).status = DEPLOYED
    BY <1>0, <2>1, DeployedType DEF SaveDeployed, TypeOK
  <2> QED BY <2>3, <2>4, <2>5
<1>6. CASE Crash
  BY <1>2, <1>6 DEF Crash, table, inputs
<1>7. CASE UNCHANGED vars
  BY <1>2, <1>7 DEF vars
<1> QED BY <1>3, <1>4, <1>5, <1>6, <1>7 DEF Next, Step

LEMMA OnceNext ==
  ASSUME IInv, [Next]_vars
  PROVE  DeployedOnce'
<1>0. TypeOK /\ DeployedOnce
  BY DEF IInv
<1>1. ASSUME NEW t \in deployed
      PROVE  t \in Requests /\ target'[t] = target[t] /\ pc[t] = "done"
  <2>1. t \in Requests
    BY <1>0, <1>1 DEF TypeOK
  <2>2. pc[t] = "done"
    BY <1>1, <2>1 DEF IInv, Stage
  <2> QED BY <1>0, <2>1, <2>2, Kept
<1>2. CASE deployed' = deployed
  BY <1>0, <1>1, <1>2, DisturbedStays DEF DeployedOnce
<1>3. ASSUME NEW r \in Requests, SaveDeployed(r), deployed' = deployed \union {r}
      PROVE  DeployedOnce'
  <2>1. ASSUME NEW s \in deployed, s # r, target[s] = target[r] PROVE Disturbed(s)
    <3>1. r \in Requests \ {s} /\ pc[r] \in Altering
      BY <1>3, <2>1 DEF SaveDeployed, Altering
    <3> QED BY <1>1, <2>1, <3>1 DEF IInv, Alone
  <2>2. target' = target
    BY <1>3 DEF SaveDeployed, inputs
  <2>3. ASSUME NEW s \in deployed', NEW t \in deployed', s # t,
               target'[s] = target'[t], t = r
        PROVE  Disturbed(s)'
    <3>1. s \in deployed /\ target[s] = target[r]
      BY <1>3, <2>2, <2>3
    <3>2. Disturbed(s) /\ s \in Requests
      BY <1>1, <2>1, <2>3, <3>1
    <3> QED BY <3>2, DisturbedStays
  <2>4. ASSUME NEW s \in deployed, NEW t \in deployed, s # t,
               target'[s] = target'[t]
        PROVE  Disturbed(s)' \/ Disturbed(t)'
    BY <1>0, <1>1, <2>4, DisturbedStays DEF DeployedOnce
  <2> QED BY <1>3, <2>3, <2>4 DEF DeployedOnce
<1>4. ASSUME NEW r \in Requests, Arrive(r) PROVE deployed' = deployed
  BY <1>0, <1>4, ArriveStep
<1>5. CASE Crash \/ UNCHANGED vars
  BY <1>2, <1>5 DEF Crash, vars
<1> QED BY <1>2, <1>3, <1>4, <1>5, DeployedGrows DEF Next, Step

\* Only saving a deployment marks a row deployed: what an update writes is not,
\* since that was checked when the row was read.
LEMMA MarkedBySave ==
  ASSUME IInv, NEW r \in Requests, Step(r),
         NEW new \in rows', new \notin rows, new.status = DEPLOYED
  PROVE  SaveDeployed(r) /\ new.pk = target[r] /\ new.code = code[r]
<1>0. TypeOK
  BY DEF IInv
<1>1. CASE AddRow(r)
  BY <1>1 DEF AddRow, NOTDEPLOYED, DEPLOYED
<1>2. CASE UpdateRow(r)
  <2>1. PICK row \in rows : new = Updated(r, row)
    BY <1>2 DEF UpdateRow
  <2>2. new.status = read[r].status
    BY <1>0, <2>1 DEF Updated, TypeOK, Row
  <2>3. read[r].status = NOTDEPLOYED
    BY <1>2 DEF UpdateRow, IInv, Stage
  <2> QED BY <2>2, <2>3 DEF NOTDEPLOYED, DEPLOYED
<1>3. CASE RemoveRow(r)
  BY <1>3 DEF RemoveRow
<1>4. CASE SaveDeployed(r)
  <2>1. PICK row \in rows : row.pk = target[r] /\ new = Deployed(r, row)
    BY <1>4 DEF SaveDeployed
  <2>2. new.pk = target[r] /\ new.code = code[r]
    BY <1>0, <1>4, <2>1, DeployedType DEF SaveDeployed, TypeOK
  <2> QED BY <1>4, <2>2
<1> QED BY <1>1, <1>2, <1>3, <1>4, StepQuiet

\* What a deployment writes has been carried out.
LEMMA OnChainNext ==
  ASSUME IInv, [Next]_vars
  PROVE  DeployedRowOnChain'
<1>0. TypeOK /\ DeployedRowOnChain
  BY DEF IInv
<1> SUFFICES ASSUME NEW new \in rows', new.status = DEPLOYED
             PROVE  \E t \in Requests :
                      /\ target'[t] = new.pk /\ code'[t] = new.code
                      /\ carried'[t] > 0
  BY DEF DeployedRowOnChain
<1>1. CASE new \in rows
  <2>1. PICK t \in Requests : target[t] = new.pk /\ code[t] = new.code /\ carried[t] > 0
    BY <1>0, <1>1 DEF DeployedRowOnChain
  <2>2. pc[t] # "idle"
    BY <2>1 DEF IInv, Stage
  <2>3. /\ target'[t] = target[t] /\ code'[t] = code[t]
        /\ carried'[t] \in Nat /\ carried'[t] >= carried[t]
    BY <1>0, <2>2, Kept
  <2>4. carried'[t] > 0
    BY <1>0, <2>1, <2>3 DEF TypeOK
  <2> QED BY <2>1, <2>3, <2>4
<1>2. ASSUME NEW r \in Requests, Step(r), new \notin rows
      PROVE  \E t \in Requests :
               /\ target'[t] = new.pk /\ code'[t] = new.code /\ carried'[t] > 0
  <2>1. SaveDeployed(r) /\ new.pk = target[r] /\ new.code = code[r]
    BY <1>2, MarkedBySave
  <2>2. carried[r] > 0
    BY <2>1 DEF SaveDeployed, IInv, Stage
  <2>3. target' = target /\ code' = code /\ carried' = carried
    BY <2>1 DEF SaveDeployed, inputs, posted
  <2> QED BY <2>1, <2>2, <2>3
<1>3. ASSUME NEW r \in Requests, Arrive(r) PROVE new \in rows
  BY <1>0, <1>3, ArriveStep
<1>4. CASE Crash \/ UNCHANGED vars
  BY <1>1, <1>4 DEF Crash, vars, table
<1> QED BY <1>1, <1>2, <1>3, <1>4 DEF Next, Step

-----------------------------------------------------------------------------
(* The theorems.                                                           *)

LEMMA InitInv == Init => IInv
<1> SUFFICES ASSUME Init PROVE IInv
  OBVIOUS
<1>1. TypeOK
  BY InitType
<1>2. PkUnique
  BY SavedAssumption DEF Init, PkUnique
<1>3. ASSUME NEW r \in Requests PROVE Stage(r) /\ Alone(r)
  BY <1>3 DEF Init, Stage, Alone, Deploying
<1>4. DeployedRowOnChain
  BY DEF Init, DeployedRowOnChain, NOTDEPLOYED, DEPLOYED
<1>5. DeploymentStays /\ DeployedOnce
  BY DEF Init, DeploymentStays, DeployedOnce
<1> QED BY <1>1, <1>2, <1>3, <1>4, <1>5 DEF IInv

LEMMA NextInv == IInv /\ [Next]_vars => IInv'
<1> SUFFICES ASSUME IInv, [Next]_vars PROVE IInv'
  OBVIOUS
<1>1. TypeOK' /\ PkUnique'
  BY TypeNext, PkUniqueNext DEF IInv
<1>2. ASSUME NEW r \in Requests PROVE Stage(r)' /\ Alone(r)'
  BY <1>2, StageNext, AloneNext
<1>3. DeployedRowOnChain' /\ DeploymentStays' /\ DeployedOnce'
  BY OnChainNext, StaysNext, OnceNext
<1> QED BY <1>1, <1>2, <1>3 DEF IInv

\* Every variable of ChainCodeService's requests and of tb_chain_code keeps its type.
THEOREM ChainCodeTypeCorrect == Spec => []TypeOK
BY InitType, TypeNext, PTL DEF Spec

\* The invariant that makes the chain codes safe.
THEOREM ChainCodeInvariant == Spec => []IInv
BY InitInv, NextInv, PTL DEF Spec

\* A row of tb_chain_code that deployChainCode marked deployed shows a code some
\* front has carried out the deployment of.
THEOREM MarkedRowsDeployed == Spec => []DeployedRowOnChain
<1>1. IInv => DeployedRowOnChain
  BY DEF IInv
<1> QED BY <1>1, ChainCodeInvariant, PTL

\* No request changes or removes what a deployment wrote, unless it overlapped
\* the deployment.
THEOREM DeploymentsStay == Spec => []DeploymentStays
<1>1. IInv => DeploymentStays
  BY DEF IInv
<1> QED BY <1>1, ChainCodeInvariant, PTL

\* verifyChainCodePktDeploy lets two deployments of a row succeed only if one of
\* them was overlapped.
THEOREM DeploymentsOnce == Spec => []DeployedOnce
<1>1. IInv => DeployedOnce
  BY DEF IInv
<1> QED BY <1>1, ChainCodeInvariant, PTL

-----------------------------------------------------------------------------
(* Who touches a deployed row.                                             *)

\* together is complete.
RunTogether ==
  \A r \in Requests : \A s \in Requests \ {r} :
    Running(r) /\ Running(s) => <<r, s>> \in together

\* A request about to write a row has checked that it is not deployed: if it is
\* now, the deployment overlapped the request.
Raced(s) ==
  pc[s] \in Altering =>
    \A row \in rows : row.pk = target[s] /\ row.status = DEPLOYED =>
      \E d \in deployed \ {s} : target[d] = target[s] /\ <<s, d>> \in together

RaceInv == RunTogether /\ \A s \in Requests : Raced(s)

LEMMA RunTogetherNext ==
  ASSUME TypeOK, RunTogether, [Next]_vars
  PROVE  RunTogether'
<1> SUFFICES ASSUME NEW t \in Requests, NEW s \in Requests \ {t}, Running(t)', Running(s)'
             PROVE  <<t, s>> \in together'
  BY DEF RunTogether
<1>0. Running(t) /\ Running(s) => <<t, s>> \in together'
  BY Kept DEF RunTogether
<1>1. ASSUME NEW r \in Requests, Arrive(r) PROVE <<t, s>> \in together'
  <2>1. \A q \in Requests \ {r} : pc'[q] = pc[q]
    BY <1>1, ArriveStep
  <2> QED BY <1>0, <1>1, <2>1, ArriveTogether DEF Running
<1>2. ASSUME NEW r \in Requests, Step(r) PROVE <<t, s>> \in together'
  BY <1>0, <1>2, StepKept DEF Running
<1>3. CASE Crash
  BY <1>3 DEF Crash, Running
<1>4. CASE UNCHANGED vars
  BY <1>0, <1>4 DEF vars, Running
<1> QED BY <1>1, <1>2, <1>3, <1>4 DEF Next, Step

LEMMA RacedNext ==
  ASSUME IInv, RaceInv, [Next]_vars, NEW s \in Requests
  PROVE  Raced(s)'
<1> SUFFICES ASSUME pc'[s] \in Altering, NEW row \in rows', row.pk = target'[s],
                    row.status = DEPLOYED
             PROVE  \E d \in deployed' \ {s} : target'[d] = target'[s] /\ <<s, d>> \in together'
  BY DEF Raced
<1>0. TypeOK /\ PkUnique /\ Raced(s) /\ RunTogether
  BY DEF IInv, RaceInv
<1>1. ASSUME pc[s] \in Altering, row \in rows, deployed \subseteq deployed'
      PROVE  \E d \in deployed' \ {s} : target'[d] = target'[s] /\ <<s, d>> \in together'
  <2>1. pc[s] # "idle" /\ target'[s] = target[s] /\ together \subseteq together'
    BY <1>0, <1>1, Kept DEF Altering
  <2>2. PICK d \in deployed \ {s} : target[d] = target[s] /\ <<s, d>> \in together
    BY <1>0, <1>1, <2>1 DEF Raced
  <2>3. d \in Requests /\ pc[d] = "done"
    BY <1>0, <2>2 DEF TypeOK, IInv, Stage
  <2>4. target'[d] = target[d]
    BY <1>0, <2>3, Kept
  <2> QED BY <1>1, <2>1, <2>2, <2>4
<1>2. ASSUME NEW r \in Requests, Arrive(r)
      PROVE  \E d \in deployed' \ {s} : target'[d] = target'[s] /\ <<s, d>> \in together'
  <2>1. /\ rows' = rows /\ deployed' = deployed
        /\ \A q \in Requests \ {r} : pc'[q] = pc[q]
        /\ pc'[r] \in Altering =>
             \E other \in rows : other.pk = target'[r] /\ other.status = NOTDEPLOYED
    BY <1>0, <1>2, ArriveStep
  <2>2. r # s
    BY <1>0, <2>1 DEF PkUnique, NOTDEPLOYED, DEPLOYED
  <2> QED BY <1>1, <2>1, <2>2
<1>3. ASSUME NEW r \in Requests, Step(r)
      PROVE  \E d \in deployed' \ {s} : target'[d] = target'[s] /\ <<s, d>> \in together'
  <2>1. /\ target' = target /\ together' = together
        /\ Running(r) /\ (pc'[r] \in Altering => pc[r] \in Altering)
        /\ \A q \in Requests \ {r} : pc'[q] = pc[q]
    BY <1>0, <1>3, StepKept
  <2>2. pc[s] \in Altering
    BY <2>1
  <2>3. CASE row \in rows
    BY <1>1, <1>3, <2>2, <2>3, DeployedGrows
  <2>4. CASE row \notin rows
    <3>1. SaveDeployed(r) /\ row.pk = target[r]
      BY <1>3, <2>4, MarkedBySave
    <3>2. r # s
      BY <1>0, <3>1 DEF SaveDeployed, End, Goto, Altering, TypeOK
    <3>3. <<s, r>> \in together
      BY <1>0, <2>1, <2>2, <3>2 DEF RunTogether, Running, Altering
    <3>4. deployed' = deployed \union {r}
      BY <3>1 DEF SaveDeployed
    <3> QED BY <2>1, <3>1, <3>2, <3>3, <3>4
  <2> QED BY <2>3, <2>4
<1>4. CASE Crash
  BY <1>0, <1>4 DEF Crash, Running, Altering
<1>5. CASE UNCHANGED vars
  BY <1>1, <1>5 DEF vars
<1> QED BY <1>2, <1>3, <1>4, <1>5 DEF Next, Step

LEMMA RaceInit == Init => RaceInv
BY DEF Init, RaceInv, RunTogether, Raced, Running, Altering

\* "check not deploy" (verifyChainCodePktDeploy) fails only in a race: a request
\* that changes or removes a row marked deployed ran at the same time as one
\* that had deployed it.
THEOREM TouchedOnlyInRace ==
  Spec => [][\A row \in rows : row.status = DEPLOYED /\ row \notin rows' =>
               \E r \in Requests : \E d \in deployed \ {r} :
                 /\ Step(r)
                 /\ target[r] = row.pk /\ target[d] = row.pk
                 /\ <<r, d>> \in together]_vars
<1>1. IInv /\ RaceInv /\ [Next]_vars => RaceInv'
  BY RunTogetherNext, RacedNext DEF RaceInv, IInv
<1>2. ASSUME IInv, RaceInv, [Next]_vars, NEW row \in rows, row.status = DEPLOYED,
             row \notin rows'
      PROVE  \E r \in Requests : \E d \in deployed \ {r} :
               Step(r) /\ target[r] = row.pk /\ target[d] = row.pk /\ <<r, d>> \in together
  <2>0. TypeOK
    BY <1>2 DEF IInv
  <2>1. PICK r \in Requests : Step(r)
    <3>1. ASSUME NEW r \in Requests, Arrive(r) PROVE FALSE
      BY <1>2, <2>0, <3>1, ArriveStep
    <3>2. ~ Crash /\ vars' # vars
      BY <1>2 DEF Crash, vars, table
    <3> QED BY <1>2, <3>1, <3>2 DEF Next, Step
  <2>2. pc[r] \in Altering /\ target[r] = row.pk
    BY <1>2, <2>0, <2>1, StepRows
  <2> QED BY <1>2, <2>1, <2>2 DEF RaceInv, Raced
<1>3. IInv /\ RaceInv /\ [Next]_vars =>
        [\A row \in rows : row.status = DEPLOYED /\ row \notin rows' =>
           \E r \in Requests : \E d \in deployed \ {r} :
             /\ Step(r)
             /\ target[r] = row.pk /\ target[d] = row.pk
             /\ <<r, d>> \in together]_vars
  BY <1>2
<1> QED BY <1>1, <1>3, RaceInit, ChainCodeInvariant, PTL DEF Spec

-----------------------------------------------------------------------------
(* How often a POST is sent, and that every request comes to an end.       *)

\* How often the client of the RestTemplate sends a transaction to one front.
Sendings == RetryTimes + 1

\* The sendings a POST has still before it, the one under way included.
Budget(r) ==
  IF pc[r] = "send" THEN left[r] * Sendings + retries[r] + 1 ELSE left[r] + 1

\* What was carried out and what may still be add up to no more than the bound.
\* A request without a POST carries out nothing.
InBudget(r) ==
  /\ pc[r] = "idle" => code[r] = NoCode
  /\ pc[r] = "send" => code[r] = NoCode
  /\ pc[r] \in {"idle", "add", "updateName", "update", "remove", "deployName"} => carried[r] = 0
  /\ pc[r] = "send" => carried[r] + Budget(r) <= FrontCount * Sendings
  /\ pc[r] = "deploy" => carried[r] + Budget(r) <= FrontCount
  /\ pc[r] \in {"save", "done"} =>
       carried[r] <= IF code[r] = NoCode THEN FrontCount * Sendings ELSE FrontCount

AllInBudget == \A r \in Requests : InBudget(r)

\* The products of the budget.
LEMMA Products ==
  /\ Sendings \in Nat \ {0}
  /\ FrontCount * Sendings \in Nat
  /\ (FrontCount - 1) * Sendings + RetryTimes + 1 = FrontCount * Sendings
  /\ \A n \in 0..FrontCount :
       /\ n * Sendings \in Nat
       /\ n > 0 => (n - 1) * Sendings + RetryTimes + 1 = n * Sendings
<1>1. FrontCount \in Nat \ {0} /\ RetryTimes \in Nat
  BY FrontsAssumption
<1>2. \A p, q \in Nat : p * q \in Nat
  OBVIOUS
<1>3. \A p, q \in Nat : p > 0 => (p - 1) * q + q = p * q
  OBVIOUS
<1>4. Sendings \in Nat \ {0} /\ Sendings = RetryTimes + 1
  BY <1>1 DEF Sendings
<1>5. ASSUME NEW n \in Nat, n > 0
      PROVE  (n - 1) * Sendings + RetryTimes + 1 = n * Sendings
  <2>1. n - 1 \in Nat
    BY <1>4, <1>5
  <2>2. (n - 1) * Sendings \in Nat /\ (n - 1) * Sendings + Sendings = n * Sendings
    BY <1>2, <1>3, <1>4, <1>5, <2>1
  <2> QED BY <1>1, <1>4, <2>2
<1> QED BY <1>1, <1>2, <1>4, <1>5

\* The rest of the state a request has to itself.
Own(r) == <<pc[r], code[r], left[r], retries[r], carried[r]>>

\* A request's step leaves the others alone.
LEMMA OthersOwn ==
  ASSUME TypeOK, NEW r \in Requests, Arrive(r) \/ Step(r), NEW s \in Requests \ {r}
  PROVE  Own(s)' = Own(s)
<1> USE DEF Own, TypeOK, Begin, End, Goto, table, inputs, posted, TryFront, CarryOut
<1>1. CASE Arrive(r)
  BY <1>1 DEF Arrive, NewChainCode, UpdateChainCode, DeployChainCode, DeleteChainCode,
              SendTransaction
<1>2. CASE AddRow(r) \/ UpdateName(r) \/ UpdateRow(r) \/ RemoveRow(r)
  BY <1>2 DEF AddRow, UpdateName, UpdateRow, RemoveRow
<1>3. CASE DeployName(r) \/ SaveDeployed(r) \/ Rejected(r) \/ Fail(r)
  BY <1>3 DEF DeployName, SaveDeployed, Rejected, Fail
<1>4. CASE Answered(r) \/ SentAgain(r) \/ NextFront(r) \/ NoneLeft(r)
  BY <1>4 DEF Answered, SentAgain, NextFront, NoneLeft
<1> QED BY <1>1, <1>2, <1>3, <1>4 DEF Step, Proceed

LEMMA InBudgetStep ==
  ASSUME TypeOK, NEW r \in Requests, InBudget(r), Arrive(r) \/ Step(r)
  PROVE  InBudget(r)'
<1> USE DEF InBudget, Budget, End, Goto, table, inputs, posted, TryFront, CarryOut
<1>t. /\ left[r] \in 0..FrontCount /\ retries[r] \in 0..RetryTimes /\ carried[r] \in Nat
      /\ pc[r] \in {"add", "updateName", "update", "deployName", "deploy", "save"} =>
           code[r] # NoCode
      /\ pc \in [Requests -> {"idle", "add", "updateName", "update", "remove",
                              "deployName", "deploy", "save", "send", "done"}]
      /\ code \in [Requests -> Codes \union {NoCode}] /\ left \in [Requests -> 0..FrontCount]
      /\ retries \in [Requests -> 0..RetryTimes] /\ carried \in [Requests -> Nat]
      /\ FrontCount \in Nat \ {0} /\ RetryTimes \in Nat
  BY CodesAssumption, FrontsAssumption DEF TypeOK
<1>n. \A c \in Codes : c # NoCode
  BY CodesAssumption
<1>p. /\ Sendings \in Nat \ {0} /\ FrontCount * Sendings \in Nat
      /\ left[r] * Sendings \in Nat
  BY <1>t, Products
<1>1. CASE \E c \in Codes : NewChainCode(r, c)
  BY <1>t, <1>n, <1>1 DEF NewChainCode, Begin
<1>2. CASE \E row \in rows, c \in Codes : UpdateChainCode(r, row, c) \/ DeployChainCode(r, row, c)
  BY <1>t, <1>n, <1>2 DEF UpdateChainCode, DeployChainCode, Begin
<1>3. CASE \E row \in rows : DeleteChainCode(r, row)
  BY <1>t, <1>3 DEF DeleteChainCode, Begin
<1>4. CASE \E row \in rows : SendTransaction(r, row)
  <2>1. /\ pc[r] = "idle" /\ pc'[r] = "send" /\ code'[r] = code[r] /\ carried'[r] = carried[r]
        /\ left'[r] = FrontCount - 1 /\ retries'[r] = RetryTimes
    BY <1>t, <1>4 DEF SendTransaction, Begin
  <2>2. (FrontCount - 1) * Sendings + RetryTimes + 1 = FrontCount * Sendings
    BY Products
  <2>3. (FrontCount - 1) * Sendings \in Nat
    BY <1>t, Products
  <2> QED BY <1>t, <1>p, <2>1, <2>2, <2>3 DEF Sendings
<1>5. CASE AddRow(r) \/ UpdateName(r) \/ UpdateRow(r) \/ RemoveRow(r)
  BY <1>t, <1>p, <1>5 DEF AddRow, UpdateName, UpdateRow, RemoveRow
<1>6. CASE DeployName(r)
  BY <1>t, <1>6 DEF DeployName
<1>7. CASE SaveDeployed(r)
  BY <1>t, <1>7 DEF SaveDeployed
<1>8. CASE Rejected(r)
  BY <1>t, <1>p, <1>8 DEF Rejected
<1>9. ASSUME pc[r] \in {"deploy", "send"}, pc'[r] \in {"save", "done"},
             pc'[r] = "save" => pc[r] = "deploy",
             code'[r] = code[r], carried'[r] \in {carried[r], carried[r] + 1}
      PROVE  InBudget(r)'
  <2>1. CASE pc[r] = "deploy"
    BY <1>t, <1>9, <2>1
  <2>2. CASE pc[r] = "send"
    BY <1>t, <1>p, <1>9, <2>2
  <2> QED BY <1>9, <2>1, <2>2
<1>10. CASE Answered(r)
  BY <1>t, <1>9, <1>10 DEF Answered
<1>11. CASE NoneLeft(r)
  BY <1>t, <1>9, <1>11 DEF NoneLeft
<1>12. CASE Fail(r)
  <2>1. CASE pc[r] \in {"deploy", "send"}
    BY <1>t, <1>9, <1>12, <2>1 DEF Fail
  <2>2. CASE pc[r] \notin {"deploy", "send"}
    BY <1>t, <1>p, <1>12, <2>2 DEF Fail, Running
  <2> QED BY <2>1, <2>2
<1>13. CASE SentAgain(r)
  <2>1. /\ pc[r] = "send" /\ UNCHANGED <<pc, code, left>> /\ retries[r] > 0
        /\ retries'[r] = retries[r] - 1
        /\ carried'[r] \in {carried[r], carried[r] + 1}
    BY <1>t, <1>13 DEF SentAgain
  <2> QED BY <1>t, <1>p, <2>1 DEF Sendings
<1>14. CASE NextFront(r)
  <2>1. /\ pc[r] \in {"deploy", "send"} /\ UNCHANGED <<pc, code>> /\ left[r] > 0
        /\ left'[r] = left[r] - 1 /\ retries'[r] = RetryTimes
        /\ carried'[r] \in {carried[r], carried[r] + 1}
    BY <1>t, <1>14 DEF NextFront
  <2>2. /\ (left[r] - 1) * Sendings + RetryTimes + 1 = left[r] * Sendings
        /\ (left[r] - 1) * Sendings \in Nat
    BY <1>t, <2>1, Products
  <2>3. CASE pc[r] = "deploy"
    BY <1>t, <2>1, <2>3
  <2>4. CASE pc[r] = "send"
    BY <1>t, <1>p, <2>1, <2>2, <2>4 DEF Sendings
  <2> QED BY <2>1, <2>3, <2>4
<1> QED
  BY <1>1, <1>2, <1>3, <1>4, <1>5, <1>6, <1>7, <1>8, <1>10, <1>11, <1>12, <1>13, <1>14
     DEF Arrive, Step, Proceed

LEMMA InBudgetNext ==
  ASSUME TypeOK, AllInBudget, [Next]_vars
  PROVE  AllInBudget'
<1> SUFFICES ASSUME NEW t \in Requests PROVE InBudget(t)'
  BY DEF AllInBudget
<1>0. InBudget(t)
  BY DEF AllInBudget
<1>1. CASE Own(t)' = Own(t)
  BY <1>0, <1>1 DEF InBudget, Budget, Own
<1>2. ASSUME NEW r \in Requests, Arrive(r) \/ Step(r) PROVE InBudget(t)'
  BY <1>0, <1>1, <1>2, OthersOwn, InBudgetStep
<1>3. CASE Crash
  <2>1. CASE Running(t)
    <3>1. /\ pc'[t] = "done" /\ code'[t] = code[t] /\ carried'[t] = carried[t]
          /\ pc[t] \notin {"idle", "done"}
      BY <1>3, <2>1 DEF Crash, Running, inputs, posted
    <3>2. /\ left[t] \in 0..FrontCount /\ retries[t] \in 0..RetryTimes /\ carried[t] \in Nat
          /\ pc[t] \in {"add", "updateName", "update", "remove", "deployName", "deploy",
                        "save", "send"}
          /\ pc[t] = "deploy" => code[t] # NoCode
      BY <3>1, CodesAssumption DEF TypeOK
    <3>3. /\ FrontCount \in Nat /\ FrontCount * Sendings \in Nat
          /\ left[t] * Sendings \in Nat /\ RetryTimes \in Nat
      BY <3>2, Products, FrontsAssumption
    <3> QED BY <1>0, <3>1, <3>2, <3>3 DEF InBudget, Budget
  <2>2. CASE ~ Running(t)
    BY <1>1, <1>3, <2>2 DEF Crash, Own, inputs, posted, TypeOK
  <2> QED BY <2>1, <2>2
<1>4. CASE UNCHANGED vars
  BY <1>1, <1>4 DEF vars, Own
<1> QED BY <1>2, <1>3, <1>4 DEF Next, Step

LEMMA InBudgetInit == Init => AllInBudget
BY FrontsAssumption DEF Init, AllInBudget, InBudget, Budget

\* However fronts time out and connections break, restTemplateExchange has a
\* deployment carried out at most once on each front, and a transaction at most
\* once more than the retry handler sends it again.
THEOREM CarriedOutBounded == Spec => []CarriedOutAtMost
<1>1. TypeOK /\ AllInBudget => CarriedOutAtMost
  <2> SUFFICES ASSUME TypeOK, AllInBudget, NEW r \in Requests
               PROVE  carried[r] <= FrontCount * (IF code[r] = NoCode THEN RetryTimes + 1 ELSE 1)
    BY DEF CarriedOutAtMost
  <2>1. /\ FrontCount \in Nat /\ RetryTimes \in Nat /\ FrontCount * Sendings \in Nat
        /\ carried[r] \in Nat /\ left[r] \in Nat /\ retries[r] \in Nat
        /\ left[r] * Sendings \in Nat
    BY FrontsAssumption, Products DEF TypeOK
  <2>2. InBudget(r) /\ (pc[r] \in {"deploy", "save"} => code[r] # NoCode)
    BY CodesAssumption DEF AllInBudget, TypeOK
  <2>3. pc[r] \in {"idle", "add", "updateName", "update", "remove",
                  "deployName", "deploy", "save", "send", "done"}
    BY DEF TypeOK
  <2>4. carried[r] <= IF code[r] = NoCode THEN FrontCount * Sendings ELSE FrontCount
    BY <2>1, <2>2, <2>3 DEF InBudget, Budget
  <2>5. FrontCount * 1 = FrontCount
    BY <2>1
  <2>6. CASE code[r] = NoCode
    BY <2>4, <2>6 DEF Sendings
  <2>7. CASE code[r] # NoCode
    BY <2>4, <2>5, <2>7
  <2> QED BY <2>6, <2>7
<1>2. Init => TypeOK /\ AllInBudget
  BY InitType, InBudgetInit
<1>3. TypeOK /\ AllInBudget /\ [Next]_vars => TypeOK' /\ AllInBudget'
  BY TypeNext, InBudgetNext
<1> QED BY <1>1, <1>2, <1>3, PTL DEF Spec

\* The most steps a request may still take, every front and every retry counted.
Work(r) ==
  CASE pc[r] \in {"add", "update", "remove", "save"} -> 1
    [] pc[r] = "updateName" -> 2
    [] pc[r] = "deployName" -> FrontCount * Sendings + 2
    [] pc[r] \in {"deploy", "send"} -> left[r] * Sendings + retries[r] + 2
    [] OTHER -> 0

Shorter(r) ==
  /\ Work(r) \in Nat /\ Work(r)' \in Nat
  /\ Work(r)' < Work(r)

LEMMA StepShortens ==
  ASSUME TypeOK, NEW r \in Requests, Step(r)
  PROVE  Shorter(r)
<1> USE DEF Shorter, End, Goto, table, inputs, posted, TryFront, CarryOut
<1>t. /\ left[r] \in 0..FrontCount /\ retries[r] \in 0..RetryTimes
      /\ pc \in [Requests -> {"idle", "add", "updateName", "update", "remove",
                              "deployName", "deploy", "save", "send", "done"}]
      /\ left \in [Requests -> 0..FrontCount] /\ retries \in [Requests -> 0..RetryTimes]
      /\ FrontCount \in Nat \ {0} /\ RetryTimes \in Nat
  BY FrontsAssumption DEF TypeOK
<1>p. /\ Sendings \in Nat \ {0} /\ FrontCount * Sendings \in Nat
      /\ left[r] * Sendings \in Nat
  BY <1>t, Products
<1>n. Work(r) \in Nat /\ (Running(r) => Work(r) > 0)
  BY <1>t, <1>p DEF Work, Running
<1>1. ASSUME Running(r), pc'[r] = "done" PROVE Shorter(r)
  BY <1>n, <1>1 DEF Work
<1>2. CASE AddRow(r) \/ UpdateRow(r) \/ RemoveRow(r) \/ SaveDeployed(r)
  BY <1>t, <1>1, <1>2 DEF AddRow, UpdateRow, RemoveRow, SaveDeployed, Running
<1>3. CASE NoneLeft(r) \/ Rejected(r) \/ Fail(r)
  BY <1>t, <1>1, <1>3 DEF NoneLeft, Rejected, Fail, Running
<1>4. CASE UpdateName(r)
  BY <1>t, <1>4 DEF UpdateName, Work
<1>5. CASE DeployName(r)
  <2>1. /\ pc[r] = "deployName" /\ pc'[r] = "deploy"
        /\ left'[r] = FrontCount - 1 /\ retries'[r] = RetryTimes
    BY <1>t, <1>5 DEF DeployName
  <2>2. Work(r)' = (FrontCount - 1) * Sendings + RetryTimes + 2
    BY <2>1 DEF Work, Sendings
  <2>3. /\ (FrontCount - 1) * Sendings + RetryTimes + 1 = FrontCount * Sendings
        /\ (FrontCount - 1) * Sendings \in Nat
    BY <1>t, Products
  <2>4. Work(r) = FrontCount * Sendings + 2
    BY <2>1 DEF Work
  <2> QED BY <1>t, <1>p, <2>2, <2>3, <2>4
<1>6. CASE Answered(r)
  <2>1. pc[r] \in {"deploy", "send"} /\ pc'[r] \in {"save", "done"}
    BY <1>t, <1>6 DEF Answered
  <2> QED BY <1>t, <1>p, <2>1 DEF Work
<1>7. CASE SentAgain(r)
  <2>1. /\ pc[r] = "send" /\ UNCHANGED <<pc, left>> /\ retries[r] > 0
        /\ retries'[r] = retries[r] - 1
    BY <1>t, <1>7 DEF SentAgain
  <2>2. Work(r)' = left[r] * Sendings + (retries[r] - 1) + 2
    BY <2>1 DEF Work, Sendings
  <2>3. Work(r) = left[r] * Sendings + retries[r] + 2
    BY <2>1 DEF Work
  <2> QED BY <1>t, <1>p, <2>1, <2>2, <2>3
<1>8. CASE NextFront(r)
  <2>1. /\ pc[r] \in {"deploy", "send"} /\ UNCHANGED pc /\ left[r] > 0
        /\ left'[r] = left[r] - 1 /\ retries'[r] = RetryTimes
    BY <1>t, <1>8 DEF NextFront
  <2>2. Work(r)' = (left[r] - 1) * Sendings + RetryTimes + 2
    BY <2>1 DEF Work, Sendings
  <2>3. Work(r) = left[r] * Sendings + retries[r] + 2
    BY <2>1 DEF Work
  <2>4. /\ (left[r] - 1) * Sendings + RetryTimes + 1 = left[r] * Sendings
        /\ (left[r] - 1) * Sendings \in Nat
    BY <1>t, <2>1, Products
  <2> QED BY <1>t, <1>p, <2>2, <2>3, <2>4
<1> QED BY <1>2, <1>3, <1>4, <1>5, <1>6, <1>7, <1>8 DEF Step, Proceed

\* No step of anybody gives a request that is under way more to do.
LEMMA NeverLonger ==
  ASSUME TypeOK, [Next]_vars, NEW r \in Requests, Running(r)
  PROVE  Shorter(r) \/ Work(r)' = Work(r)
<1>1. CASE Own(r)' = Own(r)
  BY <1>1 DEF Own, Work, Sendings
<1>2. ASSUME NEW s \in Requests, Arrive(s) \/ Step(s) PROVE Shorter(r) \/ Work(r)' = Work(r)
  <2>1. CASE s # r
    BY <1>1, <1>2, <2>1, OthersOwn
  <2>2. CASE s = r
    <3>1. ~ Arrive(r)
      BY DEF Arrive, NewChainCode, UpdateChainCode, DeployChainCode, DeleteChainCode,
             SendTransaction, Begin, Running
    <3> QED BY <1>2, <2>2, <3>1, StepShortens
  <2> QED BY <2>1, <2>2
<1>3. CASE Crash
  <2>1. pc'[r] = "done"
    BY <1>3 DEF Crash
  <2>2. left[r] \in 0..FrontCount /\ retries[r] \in 0..RetryTimes
    BY DEF TypeOK
  <2>3. left[r] * Sendings \in Nat /\ FrontCount * Sendings \in Nat /\ RetryTimes \in Nat
    BY <2>2, Products, FrontsAssumption
  <2>4. Work(r) \in Nat /\ Work(r) > 0
    BY <2>2, <2>3 DEF Work, Running, TypeOK
  <2> QED BY <2>1, <2>4 DEF Shorter, Work
<1>4. CASE UNCHANGED vars
  BY <1>1, <1>4 DEF vars, Own
<1> QED BY <1>2, <1>3, <1>4 DEF Next, Step

\* Whatever others do, a request has a bounded number of steps before it, and
\* each step of its own, a POST to the next front or again to the same one
\* included, leaves fewer: restTemplateExchange does not go round the fronts.
THEOREM RequestsGetShorter ==
  Spec => [][\A r \in Requests :
               /\ Step(r) => Shorter(r)
               /\ Running(r) => Shorter(r) \/ Work(r)' = Work(r)]_vars
<1>1. TypeOK /\ [Next]_vars =>
        [\A r \in Requests :
           /\ Step(r) => Shorter(r)
           /\ Running(r) => Shorter(r) \/ Work(r)' = Work(r)]_vars
  BY StepShortens, NeverLonger
<1> QED BY <1>1, ChainCodeTypeCorrect, PTL DEF Spec

=============================================================================
