---------------------------- MODULE CreditLedger ----------------------------
(***************************************************************************)
(* One account, from its signup (app/api/auth.py) to its removal: its      *)
(* credits, which sheets and resumes spend (app/api/ingest.py) and an      *)
(* operator grants or sets (app/api/billing.py, app/api/admin.py), and its *)
(* API key.  Each request loads the user row once, at authentication, and  *)
(* writes back an absolute value computed from what it loaded; requests    *)
(* interleave at their awaits.  `owed' is the balance the user is entitled *)
(* to: one credit per candidate that was really queued.                    *)
(***************************************************************************)
EXTENDS Integers, FiniteSets

CONSTANTS
  Request,        \* API requests in flight at once
  Ticket,         \* the CreditRequest rows that may be created
  SignupCredits,  \* settings.signup_free_credits
  Amounts,        \* what an operator may grant or set; no schema bounds it
  MaxRows,        \* bound: rows of a sheet
  Faults,         \* "redis": an enqueue fails; "api": a request is cut short
  MaxRequests     \* bound: requests in a behaviour

ASSUME SignupAssumption  == SignupCredits \in Nat
ASSUME AmountsAssumption == Amounts \subseteq Int
ASSUME BoundsAssumption  == MaxRows \in Nat /\ MaxRequests \in Nat

VARIABLES
  credits,   \* User.credits
  owed,      \* the balance the user is entitled to (not in the code)
  ticket,    \* CreditRequest.status of each row
  alive,     \* the user row exists
  key,       \* User.api_key_hash: which of the keys made so far, 0 before the first
  held,      \* AppState.api_key of the user's browser
  req,       \* the requests in flight
  nreq,      \* requests received so far
  clean,     \* no two requests overlapped, none was cut short (not in the code)
  inStep     \* so for the requests that make keys (not in the code)

keys == <<key, held, inStep>>
ledgerVars == <<credits, owed, ticket, alive, keys, req, nreq, clean>>

NoReq    == [op |-> "idle"]
Requests ==
  {NoReq} \cup
  [op : {"ingest", "upload"}, pc : {"charge", "enqueue"}, seen : Int, n : Nat, ok : Nat] \cup
  [op : {"grant", "set"}, seen : Int, amount : Int] \cup
  [op : {"remove", "signup", "key"}] \cup [op : {"answer"}, key : Nat]

LedgerTypeOK ==
  /\ credits \in Int
  /\ owed    \in Int
  /\ ticket  \in [Ticket -> {"none", "pending", "granted"}]
  /\ alive   \in BOOLEAN
  /\ req     \in [Request -> Requests]
  /\ nreq    \in Nat
  /\ clean   \in BOOLEAN /\ inStep \in BOOLEAN
  /\ key     \in Nat /\ held \in Nat

LedgerInit ==
  /\ credits = 0 /\ owed = 0
  /\ ticket  = [t \in Ticket |-> "none"]
  /\ alive   = FALSE /\ key = 0 /\ held = 0
  /\ req     = [r \in Request |-> NoReq]
  /\ nreq    = 0
  /\ clean   = TRUE /\ inStep = TRUE

Enters(r) ==
  /\ req[r] = NoReq
  /\ nreq < MaxRequests /\ nreq' = nreq + 1
  /\ clean' = (clean /\ \A q \in Request : req[q] = NoReq)
Arrives(r) == alive /\ Enters(r)

(* get_current_user: another key than the row's is refused (401).          *)
Authenticated == alive /\ held = key
At(r, op, pc) == req[r].op = op /\ req[r].pc = pc
Answers(r)  == req' = [req EXCEPT ![r] = NoReq]
Spends(op, pc, n) == [op |-> op, pc |-> pc, seen |-> credits, n |-> n, ok |-> 0]

-----------------------------------------------------------------------------
(* The account *)

(* signup looks the e-mail up, then inserts the row.  (Once the account is *)
(* removed a signup makes another one, which is not modelled.)             *)
SignupStart(r) ==
  /\ Enters(r)
  /\ key = 0
  /\ req' = [req EXCEPT ![r] = [op |-> "signup"]]
  /\ UNCHANGED <<credits, owed, ticket, alive, keys>>

InsertsUser(r) ==
  /\ credits' = SignupCredits /\ owed' = SignupCredits /\ alive' = TRUE
  /\ key' = key + 1
  /\ req' = [req EXCEPT ![r] = [op |-> "answer", key |-> key + 1]]

(* Wrong variant: the insert replaces a row with that e-mail.              *)
SignupUpserts(r) ==
  /\ req[r].op = "signup"
  /\ InsertsUser(r)
  /\ UNCHANGED <<ticket, held, inStep, nreq, clean>>

(* The unique index of users.email refuses a second row.                   *)
SignupInsert(r) ==
  /\ req[r].op = "signup"
  /\ \/ key = 0 /\ InsertsUser(r)
     \/ key # 0 /\ Answers(r) /\ UNCHANGED <<credits, owed, alive, key>>
  /\ UNCHANGED <<ticket, held, inStep, nreq, clean>>

MakesKey(q) == q.op \in {"key", "answer"}

(* rotate_key, which the user's key opens, and reset_api_key, which the    *)
(* operator calls.                                                         *)
KeyRead(r) ==
  /\ Arrives(r)
  /\ req' = [req EXCEPT ![r] = [op |-> "key"]]
  /\ inStep' = (inStep /\ \A q \in Request : ~MakesKey(req[q]))
  /\ UNCHANGED <<credits, owed, ticket, alive, key, held>>

KeyCommit(r) ==
  /\ req[r].op = "key"
  /\ \/ /\ alive
        /\ key' = key + 1
        /\ req' = [req EXCEPT ![r] = [op |-> "answer", key |-> key + 1]]
     \/ ~alive /\ Answers(r) /\ UNCHANGED key
  /\ UNCHANGED <<credits, owed, ticket, alive, held, inStep, nreq, clean>>

(* The browser keeps the key it is answered; the operator passes it on.    *)
KeyArrives(r) ==
  /\ req[r].op = "answer"
  /\ held' = req[r].key
  /\ Answers(r)
  /\ UNCHANGED <<credits, owed, ticket, alive, key, inStep, nreq, clean>>

-----------------------------------------------------------------------------
(* Spending *)

(* A sheet of n rows needs n credits (402 otherwise); its rows are         *)
(* inserted, then queued one by one, and charged last.                     *)
IngestStart(r, n) ==
  /\ Arrives(r) /\ Authenticated
  /\ n > 0 /\ credits >= n
  /\ req' = [req EXCEPT ![r] = Spends("ingest", "enqueue", n)]
  /\ UNCHANGED <<credits, owed, ticket, alive, keys>>

(* An uploaded resume needs one credit, and is charged before it is queued *)
UploadStart(r) ==
  /\ Arrives(r) /\ Authenticated
  /\ credits >= 1
  /\ req' = [req EXCEPT ![r] = Spends("upload", "charge", 1)]
  /\ UNCHANGED <<credits, owed, ticket, alive, keys>>

(* The UPDATE of a user row that is gone fails the request.                *)
UploadCharge(r) ==
  /\ At(r, "upload", "charge")
  /\ \/ /\ alive
        /\ credits' = req[r].seen - 1
        /\ req' = [req EXCEPT ![r].pc = "enqueue"]
     \/ /\ ~alive
        /\ Answers(r)
        /\ UNCHANGED credits
  /\ UNCHANGED <<owed, ticket, alive, nreq, clean, keys>>

Enqueuing(r) == req[r].op \in {"ingest", "upload"} /\ req[r].pc = "enqueue"

(* Wrong variant: the loop runs past the last id.                          *)
EnqueueTooMany(r) ==
  /\ Enqueuing(r)
  /\ req' = [req EXCEPT ![r].n = @ - 1, ![r].ok = @ + 1]
  /\ owed' = owed - 1
  /\ UNCHANGED <<credits, ticket, alive, nreq, clean, keys>>

(* _enqueue_candidates, one id at a time: Redis takes it, or it counts as  *)
(* failed.                                                                 *)
EnqueueOne(r) ==
  /\ Enqueuing(r) /\ req[r].n > 0
  /\ \/ /\ req' = [req EXCEPT ![r].n = @ - 1, ![r].ok = @ + 1]
        /\ owed' = owed - 1
     \/ /\ "redis" \in Faults
        /\ req' = [req EXCEPT ![r].n = @ - 1]
        /\ UNCHANGED owed
  /\ UNCHANGED <<credits, ticket, alive, nreq, clean, keys>>

Enqueued(r, op) == At(r, op, "enqueue") /\ req[r].n = 0

(* Wrong variant: UPDATE users SET credits = credits - ok.                 *)
IngestChargeInPlace(r) ==
  /\ Enqueued(r, "ingest")
  /\ credits' = credits - req[r].ok
  /\ Answers(r)
  /\ UNCHANGED <<owed, ticket, alive, nreq, clean, keys>>

(* credits = the loaded balance minus the ids queued; nothing is written   *)
(* when none was.                                                          *)
IngestCharge(r) ==
  /\ Enqueued(r, "ingest")
  /\ \/ alive /\ req[r].ok > 0 /\ credits' = req[r].seen - req[r].ok
     \/ (~alive \/ req[r].ok = 0) /\ UNCHANGED credits
  /\ Answers(r)
  /\ UNCHANGED <<owed, ticket, alive, nreq, clean, keys>>

(* Wrong variant: the refused upload stays charged.                        *)
UploadKeepsCharge(r) ==
  /\ Enqueued(r, "upload")
  /\ Answers(r)
  /\ UNCHANGED <<credits, owed, ticket, alive, nreq, clean, keys>>

(* An upload that could not be queued is refunded: the loaded balance is   *)
(* written back.                                                           *)
UploadFinish(r) ==
  /\ Enqueued(r, "upload")
  /\ \/ alive /\ req[r].ok = 0 /\ credits' = req[r].seen
     \/ (~alive \/ req[r].ok > 0) /\ UNCHANGED credits
  /\ Answers(r)
  /\ UNCHANGED <<owed, ticket, alive, nreq, clean, keys>>

-----------------------------------------------------------------------------
(* The operator *)

RequestCredits(t) ==
  /\ Authenticated /\ nreq < MaxRequests /\ nreq' = nreq + 1
  /\ ticket[t] = "none"
  /\ ticket' = [ticket EXCEPT ![t] = "pending"]
  /\ UNCHANGED <<credits, owed, alive, req, clean, keys>>

OperatorRead(r, op, a) ==
  /\ Arrives(r)
  /\ op \in {"grant", "set"}
  /\ req' = [req EXCEPT ![r] = [op |-> op, seen |-> credits, amount |-> a]]
  /\ UNCHANGED <<credits, owed, ticket, alive, keys>>

(* An unchanged balance is not written.  A grant resolves every open       *)
(* CreditRequest.  If the user row is gone the UPDATE of it fails and      *)
(* nothing is committed; without that UPDATE there is nothing to commit.   *)
GrantCommit(r) ==
  /\ req[r].op = "grant"
  /\ \/ /\ alive
        /\ credits' = IF req[r].amount = 0 THEN credits
                      ELSE req[r].seen + req[r].amount
        /\ owed' = owed + req[r].amount
        /\ ticket' = [t \in Ticket |-> IF ticket[t] = "pending" THEN "granted"
                                       ELSE ticket[t]]
     \/ ~alive /\ UNCHANGED <<credits, owed, ticket>>
  /\ Answers(r)
  /\ UNCHANGED <<alive, nreq, clean, keys>>

SetCommit(r) ==
  /\ req[r].op = "set"
  /\ \/ /\ alive
        /\ credits' = IF req[r].amount = req[r].seen THEN credits ELSE req[r].amount
        /\ owed' = req[r].amount
     \/ ~alive /\ UNCHANGED <<credits, owed>>
  /\ Answers(r)
  /\ UNCHANGED <<ticket, alive, nreq, clean, keys>>

RemoveRead(r) ==
  /\ Arrives(r)
  /\ req' = [req EXCEPT ![r] = [op |-> "remove"]]
  /\ UNCHANGED <<credits, owed, ticket, alive, keys>>

(* delete_user deletes jobs, candidates and evaluations, and then the user *)
(* row: a CreditRequest of the user breaks its foreign key (0004).         *)
RemoveCommit(r) ==
  /\ req[r].op = "remove"
  /\ \/ (\A t \in Ticket : ticket[t] = "none") /\ alive' = FALSE
     \/ (\E t \in Ticket : ticket[t] # "none") /\ UNCHANGED alive
  /\ Answers(r)
  /\ UNCHANGED <<credits, owed, ticket, nreq, clean, keys>>

(* The API process dies or a commit fails: the request stops where it is.  *)
CutShort(r) ==
  /\ "api" \in Faults /\ req[r] # NoReq
  /\ Answers(r)
  /\ clean' = FALSE /\ inStep' = (inStep /\ req[r].op # "answer")
  /\ UNCHANGED <<credits, owed, ticket, alive, key, held, nreq>>

-----------------------------------------------------------------------------
LedgerNext ==
  \/ \E r \in Request :
       \/ \E n \in 1..MaxRows : IngestStart(r, n)
       \/ UploadStart(r) \/ UploadCharge(r) \/ EnqueueOne(r)
       \/ IngestCharge(r) \/ UploadFinish(r)
       \/ \E op \in {"grant", "set"}, a \in Amounts : OperatorRead(r, op, a)
       \/ GrantCommit(r) \/ SetCommit(r)
       \/ SignupStart(r) \/ SignupInsert(r)
       \/ KeyRead(r) \/ KeyCommit(r) \/ KeyArrives(r)
       \/ RemoveRead(r) \/ RemoveCommit(r) \/ CutShort(r)
  \/ \E t \in Ticket : RequestCredits(t)

LedgerSpec == LedgerInit /\ [][LedgerNext]_ledgerVars
-----------------------------------------------------------------------------
(* The balance never goes below zero, although the check of the balance    *)
(* and the charge are separate steps and other requests spend in between:  *)
(* each write is derived from the balance that was checked.  Requires      *)
(* that the operator grants and sets no negative amount.                   *)
NeverOverdrawn == credits >= 0

(* The only ways the books go wrong are requests of one user that overlap  *)
(* and requests cut short: otherwise every credit charged is a candidate   *)
(* queued, with refused enqueues not charged or refunded.                  *)
BooksBalance == clean /\ (\A r \in Request : req[r] = NoReq) => credits = owed

(* Whoever was shown a key last can use the account, although signups race *)
(* for the row and charges write rows loaded before the key was changed:   *)
(* the key goes wrong only when the requests that make keys overlap or an  *)
(* answer is lost.                                                         *)
KeysInStep ==
  inStep /\ alive /\ (\A r \in Request : ~MakesKey(req[r])) => held = key

(* "the old key stops working immediately" and the new one is kept         *)
(* (auth.py:77, app_state.py:60): with nothing in flight, the user's key   *)
(* works.                                                                  *)
LastKeyWorks == alive /\ (\A r \in Request : req[r] = NoReq) => held = key

(* "1 credit = 1 candidate queued for evaluation" (models.py:49): between  *)
(* requests the balance is what was given minus what was queued.           *)
Balanced == (\A r \in Request : req[r] = NoReq) => credits = owed

(* Granting credits "marks the most recent open request granted"           *)
(* (models.py:149): one grant resolves one request.                        *)
GrantResolvesOne ==
  [][Cardinality({t \in Ticket : ticket'[t] = "granted" /\ ticket[t] # "granted"}) <= 1]_ledgerVars

(* "Delete a user and everything scoped under them" (admin.py:89): a       *)
(* delete_user request that runs to its end removes the user.              *)
RemovalSucceeds ==
  [][\A r \in Request :
       req[r].op = "remove" /\ req'[r] = NoReq => ~alive']_ledgerVars
=============================================================================
