----------------------------- MODULE ChainCode -----------------------------
(***************************************************************************)
(* The chain codes of one channel: concurrent web requests that save,      *)
(* update, delete and deploy them or send them a transaction               *)
(* (ChainCodeService), and the POST that goes from front to front until    *)
(* one answers (FrontRestManager.restTemplateExchange).                    *)
(*                                                                         *)
(* No request runs in a transaction: between its checks, its POST and its  *)
(* write the others act.  A code is a name, a version and a source; its    *)
(* key is the name and the version.  A row of another channel is not found *)
(* by any check, so one channel is enough.                                 *)
(*                                                                         *)
(* Each request is issued once, which bounds chain_code_pk.                *)
(***************************************************************************)
EXTENDS Naturals, Sequences

CONSTANTS
  Requests,   \* the web requests
  FrontCount, \* the number of fronts of the channel
  RetryTimes, \* http-client.pool.retryTimes
  Codes,      \* what users submit
  Keys,       \* names with versions
  KeyOf,      \* the name and version of a code
  Saved,      \* the codes saved before, by chain_code_pk
  NoCode, NoId   \* null

ASSUME CodesAssumption ==
  /\ KeyOf \in [Codes -> Keys]
  /\ NoCode \notin Codes
  /\ NoId \notin Keys

ASSUME FrontsAssumption ==
  /\ FrontCount \in Nat \ {0}
  /\ RetryTimes \in Nat

ASSUME SavedAssumption ==
  /\ Saved \in Seq(Codes)
  /\ \A i, j \in DOMAIN Saved : KeyOf[Saved[i]] = KeyOf[Saved[j]] => i = j

VARIABLES
  rows,       \* tb_chain_code of the channel
  nextPk,     \* its next AUTO_INCREMENT value
  pc,
  target,     \* chainCodePk of each request
  code,       \* the code it submits
  read,       \* the row an update has read
  left,       \* how many fronts a POST may still be sent to
  retries,    \* how often it may still be sent again to the same front
  carried,    \* how often fronts have carried out a request
  together,   \* history: pairs of requests that ran at the same time
  deployed    \* history: the requests whose deployment succeeded

table  == <<rows, nextPk>>
inputs == <<target, code, read>>
posted == <<left, retries, carried>>
vars   == <<rows, nextPk, pc, target, code, read, left, retries,
            carried, together, deployed>>

NOTDEPLOYED == 1
DEPLOYED    == 2

Row == [pk : Nat, code : Codes, status : {NOTDEPLOYED, DEPLOYED},
        id : Keys \union {NoId}]

NoRow == [pk |-> 0]

Running(r) == pc[r] \notin {"idle", "done"}

TypeOK ==
  /\ rows \in SUBSET Row
  /\ nextPk \in Nat \ {0}
  /\ pc \in [Requests -> {"idle", "add", "updateName", "update", "remove",
                          "deployName", "deploy", "save", "send", "done"}]
  /\ target \in [Requests -> Nat]
  /\ code \in [Requests -> Codes \union {NoCode}]
  /\ \A r \in Requests :
       pc[r] \in {"add", "updateName", "update", "deployName", "deploy", "save"} =>
         code[r] \in Codes
  /\ read \in [Requests -> Row \union {NoRow}]
  /\ \A r \in Requests : pc[r] \in {"updateName", "update"} => read[r] \in Row
  /\ left \in [Requests -> 0..FrontCount]
  /\ retries \in [Requests -> 0..RetryTimes]
  /\ carried \in [Requests -> Nat]
  /\ together \in SUBSET (Requests \X Requests)
  /\ deployed \in SUBSET Requests

Init ==
  /\ rows = { [pk |-> i, code |-> Saved[i], status |-> NOTDEPLOYED, id |-> NoId] :
                i \in DOMAIN Saved }
  /\ nextPk = Len(Saved) + 1
  /\ pc = [r \in Requests |-> "idle"]
  /\ target = [r \in Requests |-> 0]
  /\ code = [r \in Requests |-> NoCode]
  /\ read = [r \in Requests |-> NoRow]
  /\ left = [r \in Requests |-> 0]
  /\ retries = [r \in Requests |-> 0]
  /\ carried = [r \in Requests |-> 0]
  /\ together = {} /\ deployed = {}

Goto(r, label) == pc' = [pc EXCEPT ![r] = label]
End(r) == Goto(r, "done")

\* A request arrives.
Begin(r, label) ==
  /\ pc[r] = "idle"
  /\ Goto(r, label)
  /\ together' = together \union ({r} \X { s \in Requests : Running(s) })
                          \union ({ s \in Requests : Running(s) } \X {r})

-----------------------------------------------------------------------------
(* What the table's keys, unique_name_version and unique_id, accept.       *)

HasKey(key) == \E row \in rows : KeyOf[row.code] = key

Fits(new) ==
  \A row \in rows : row.pk # new.pk =>
    /\ KeyOf[row.code] # KeyOf[new.code]
    /\ row.id = NoId \/ row.id # new.id

-----------------------------------------------------------------------------
(* saveChainCode and deleteChainCode.                                      *)

\* newChainCode, its check that no row has the name and version.
NewChainCode(r, c) ==
  /\ ~ HasKey(KeyOf[c])
  /\ Begin(r, "add")
  /\ code' = [code EXCEPT ![r] = c]
  /\ UNCHANGED <<table, target, read, posted, deployed>>

AddRow(r) ==
  /\ pc[r] = "add"
  /\ ~ HasKey(KeyOf[code[r]])
  /\ rows' = rows \union { [pk |-> nextPk, code |-> code[r],
                            status |-> NOTDEPLOYED, id |-> NoId] }
  /\ nextPk' = nextPk + 1
  /\ End(r)
  /\ UNCHANGED <<inputs, posted, together, deployed>>

\* verifyChainCodePktDeploy: the row is there and not deployed.
NotDeployed(row) == row \in rows /\ row.status # DEPLOYED

\* updateChainCode, its first check.
UpdateChainCode(r, row, c) ==
  /\ NotDeployed(row)
  /\ Begin(r, "updateName")
  /\ target' = [target EXCEPT ![r] = row.pk]
  /\ code' = [code EXCEPT ![r] = c]
  /\ read' = [read EXCEPT ![r] = row]
  /\ UNCHANGED <<table, posted, deployed>>

\* verifyChainCodeNameNotExist, of updateChainCode.
NameFree(r) ==
  \A row \in rows : KeyOf[row.code] = KeyOf[code[r]] => row.pk = target[r]

UpdateName(r) ==
  /\ pc[r] = "updateName"
  /\ NameFree(r)
  /\ Goto(r, "update")
  /\ UNCHANGED <<table, inputs, posted, together, deployed>>

\* Mutant: only the submitted columns are written.
Updated_Submitted(r, row) == [row EXCEPT !.code = code[r]]

\* The row that was read, with the submitted code, replaces the row; a null id
\* is not written.
Updated(r, row) ==
  [row EXCEPT !.code = code[r], !.status = read[r].status,
              !.id = IF read[r].id = NoId THEN row.id ELSE read[r].id]

\* It does nothing to a row that is gone.
UpdateRow(r) ==
  /\ pc[r] = "update"
  /\ \A row \in rows : row.pk = target[r] => Fits(Updated(r, row))
  /\ rows' = { IF row.pk = target[r] THEN Updated(r, row) ELSE row : row \in rows }
  /\ End(r)
  /\ UNCHANGED <<nextPk, inputs, posted, together, deployed>>

\* Mutant: deleting does not check that the chain code is not deployed.
DeleteChainCode_Any(r, row) ==
  /\ row \in rows
  /\ Begin(r, "remove")
  /\ target' = [target EXCEPT ![r] = row.pk]
  /\ UNCHANGED <<table, code, read, posted, deployed>>

DeleteChainCode(r, row) ==
  /\ NotDeployed(row)
  /\ Begin(r, "remove")
  /\ target' = [target EXCEPT ![r] = row.pk]
  /\ UNCHANGED <<table, code, read, posted, deployed>>

RemoveRow(r) ==
  /\ pc[r] = "remove"
  /\ rows' = { row \in rows : row.pk # target[r] }
  /\ End(r)
  /\ UNCHANGED <<nextPk, inputs, posted, together, deployed>>

-----------------------------------------------------------------------------
(* deployChainCode and sendTransaction.                                    *)

\* Mutant: deploying does not check that the chain code is not deployed.
DeployChainCode_Again(r, row, c) ==
  /\ row \in rows
  /\ Begin(r, "deployName")
  /\ target' = [target EXCEPT ![r] = row.pk]
  /\ code' = [code EXCEPT ![r] = c]
  /\ UNCHANGED <<table, read, posted, deployed>>

DeployChainCode(r, row, c) ==
  /\ NotDeployed(row)
  /\ Begin(r, "deployName")
  /\ target' = [target EXCEPT ![r] = row.pk]
  /\ code' = [code EXCEPT ![r] = c]
  /\ UNCHANGED <<table, read, posted, deployed>>

\* buildFrontUrl takes a front out of the list at random.
TryFront(r, n) ==
  /\ left' = [left EXCEPT ![r] = n - 1]
  /\ retries' = [retries EXCEPT ![r] = RetryTimes]

DeployName(r) ==
  /\ pc[r] = "deployName"
  /\ NameFree(r)
  /\ TryFront(r, FrontCount)
  /\ Goto(r, "deploy")
  /\ UNCHANGED <<table, inputs, carried, together, deployed>>

\* verifyChainCodeDeploy: the row is there and deployed.
SendTransaction(r, row) ==
  /\ row \in rows /\ row.status = DEPLOYED
  /\ Begin(r, "send")
  /\ target' = [target EXCEPT ![r] = row.pk]
  /\ TryFront(r, FrontCount)
  /\ UNCHANGED <<table, code, read, carried, deployed>>

CarryOut(r) == carried' = [carried EXCEPT ![r] = @ + 1]

\* The front carries out the request and answers.
Answered(r) ==
  /\ pc[r] \in {"deploy", "send"}
  /\ CarryOut(r)
  /\ Goto(r, IF pc[r] = "deploy" THEN "save" ELSE "done")
  /\ UNCHANGED <<table, inputs, left, retries, together, deployed>>

\* Mutant: the deployment's client has the retry handler too.
SentAgain_AnyPost(r) ==
  /\ pc[r] \in {"deploy", "send"}
  /\ retries[r] > 0
  /\ retries' = [retries EXCEPT ![r] = @ - 1]
  /\ CarryOut(r) \/ carried' = carried
  /\ UNCHANGED <<table, pc, inputs, left, together, deployed>>

\* The connection to the front breaks after a transaction was sent.  The retry
\* handler of httpClientTemplate sends it again, although it is a POST;
\* deployRestTemplate has a client of its own that does not.
SentAgain(r) ==
  /\ pc[r] = "send"
  /\ retries[r] > 0
  /\ retries' = [retries EXCEPT ![r] = @ - 1]
  /\ CarryOut(r) \/ carried' = carried
  /\ UNCHANGED <<table, pc, inputs, left, together, deployed>>

\* Mutant: the next front is tried although none is left.
NextFront_Unchecked(r) ==
  /\ pc[r] \in {"deploy", "send"}
  /\ TryFront(r, left[r])
  /\ CarryOut(r) \/ carried' = carried
  /\ UNCHANGED <<table, pc, inputs, together, deployed>>

\* ResourceAccessException: the front cannot be reached, or carries out the
\* request and its answer comes too late; the next one is tried.
NextFront(r) ==
  /\ pc[r] \in {"deploy", "send"}
  /\ left[r] > 0
  /\ TryFront(r, left[r])
  /\ CarryOut(r) \/ carried' = carried
  /\ UNCHANGED <<table, pc, inputs, together, deployed>>

\* Mutant: a deployment that no front answers waits.
NoneLeft_SendOnly(r) ==
  /\ pc[r] = "send"
  /\ left[r] = 0
  /\ CarryOut(r) \/ carried' = carried
  /\ End(r)
  /\ UNCHANGED <<table, inputs, left, retries, together, deployed>>

\* The same at the last front: restTemplateExchange returns null, which is
\* CHAIN_CODE_DEPLOY_FAIL, or the answer to a transaction.
NoneLeft(r) ==
  /\ pc[r] \in {"deploy", "send"}
  /\ left[r] = 0
  /\ CarryOut(r) \/ carried' = carried
  /\ End(r)
  /\ UNCHANGED <<table, inputs, left, retries, together, deployed>>

\* The row with what was deployed.
Deployed(r, row) ==
  [row EXCEPT !.code = code[r], !.status = DEPLOYED, !.id = KeyOf[code[r]]]

\* It is not checked that the row is still there.
SaveDeployed(r) ==
  /\ pc[r] = "save"
  /\ \A row \in rows : row.pk = target[r] => Fits(Deployed(r, row))
  /\ rows' = { IF row.pk = target[r] THEN Deployed(r, row) ELSE row : row \in rows }
  /\ deployed' = deployed \union {r}
  /\ End(r)
  /\ UNCHANGED <<nextPk, inputs, posted, together>>

-----------------------------------------------------------------------------
(* Errors.                                                                 *)

\* A check or a key of the table rejects the request.
Rejected(r) ==
  /\ \/ pc[r] = "add" /\ HasKey(KeyOf[code[r]])
     \/ pc[r] \in {"updateName", "deployName"} /\ ~ NameFree(r)
     \/ pc[r] = "update" /\ \E row \in rows : row.pk = target[r] /\ ~ Fits(Updated(r, row))
     \/ pc[r] = "save" /\ \E row \in rows : row.pk = target[r] /\ ~ Fits(Deployed(r, row))
  /\ End(r)
  /\ UNCHANGED <<table, inputs, posted, together, deployed>>

\* A statement fails, or a front answers with an error or without the id of the
\* chain code; it may have carried out the request.
Fail(r) ==
  /\ Running(r)
  /\ End(r)
  /\ \/ carried' = carried
     \/ pc[r] \in {"deploy", "send"} /\ CarryOut(r)
  /\ UNCHANGED <<table, inputs, left, retries, together, deployed>>

\* The process dies and is restarted.
Crash ==
  /\ \E r \in Requests : Running(r)
  /\ pc' = [r \in Requests |-> IF Running(r) THEN "done" ELSE pc[r]]
  /\ UNCHANGED <<table, inputs, posted, together, deployed>>

Arrive(r) ==
  \/ \E c \in Codes : NewChainCode(r, c)
  \/ \E row \in rows :
       \/ \E c \in Codes : UpdateChainCode(r, row, c) \/ DeployChainCode(r, row, c)
       \/ DeleteChainCode(r, row) \/ SendTransaction(r, row)

\* What a request does by itself: its statements, and giving up on a front when
\* the timeout of the RestTemplate has passed.
Proceed(r) ==
  \/ AddRow(r) \/ UpdateName(r) \/ UpdateRow(r) \/ RemoveRow(r)
  \/ DeployName(r) \/ NextFront(r) \/ NoneLeft(r) \/ SaveDeployed(r)
  \/ Rejected(r)

Next ==
  \/ \E r \in Requests :
       Arrive(r) \/ Proceed(r) \/ Answered(r) \/ SentAgain(r) \/ Fail(r)
  \/ Crash

\* No front need ever answer.
Spec == Init /\ [][Next]_vars /\ \A r \in Requests : WF_vars(Proceed(r))

-----------------------------------------------------------------------------
(* Safety.                                                                 *)

\* Another request for the same row ran at the same time.
Disturbed(r) ==
  \E s \in Requests \ {r} : target[s] = target[r] /\ <<r, s>> \in together

\* A row that is marked deployed shows the code that was deployed on chain for
\* it: an update that overlaps the deployment and changes the code takes the
\* mark away, since it writes the whole row it read.
DeployedRowOnChain ==
  \A row \in rows : row.status = DEPLOYED =>
    \E r \in Requests :
      target[r] = row.pk /\ code[r] = row.code /\ carried[r] > 0

\* What a successful deployment wrote stays as it is, whatever is requested
\* later, unless another request for the row overlapped it.
DeploymentStays ==
  \A r \in deployed : Disturbed(r) \/
    \E row \in rows : /\ row.pk = target[r] /\ row.code = code[r]
                      /\ row.status = DEPLOYED

\* Two requests succeed in deploying the same row only if one of them was
\* overlapped by another request for it.
DeployedOnce ==
  \A r, s \in deployed :
    r # s /\ target[r] = target[s] => Disturbed(r) \/ Disturbed(s)

\* However fronts time out and connections break, a deployment is carried out
\* at most once on each front of the channel, and a transaction, which the retry
\* handler sends again, at most RetryTimes + 1 times on each
\* (restTemplateExchange, HttpClientConfig).
CarriedOutAtMost ==
  \A r \in Requests :
    carried[r] <= FrontCount * (IF code[r] = NoCode THEN RetryTimes + 1 ELSE 1)

-----------------------------------------------------------------------------
(* Liveness.                                                               *)

\* A POST does not go round the fronts for ever or wait for the last of them:
\* every request is answered even if no front answers.
EveryRequestEnds == \A r \in Requests : Running(r) ~> pc[r] = "done"

-----------------------------------------------------------------------------
(* What the code's comment says and the code does not do.                  *)

\* "check not deploy" of updateChainCode, and CHAIN_CODE_HAS_BEAN_DEPLOYED: a
\* deployed chain code is not updated or deleted.
DeployedNotTouched ==
  [][\A row \in rows : row.status = DEPLOYED => row \in rows']_vars

=============================================================================
