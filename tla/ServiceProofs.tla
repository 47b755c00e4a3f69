--------------------------- MODULE ServiceProofs ---------------------------
(* What holds of the three small processes beside the pipeline, for any    *)
(* constants: the account and its credits, the parse of a job's            *)
(* description, and the throttle of LLM calls.  They share no variable;    *)
(* each theorem is about the specification of one.                         *)
EXTENDS CreditLedger, JdParse, LlmThrottle, FiniteSetTheorems, WellFoundedInduction, TLAPS

-----------------------------------------------------------------------------
(* CreditLedger, for any number of requests and rows                       *)

(* Every reachable state of the ledger is well typed.                      *)
THEOREM LedgerTypeCorrect == LedgerSpec => []LedgerTypeOK
<1>1. LedgerInit => LedgerTypeOK
  <2> SUFFICES ASSUME LedgerInit PROVE LedgerTypeOK
    OBVIOUS
  <2>1. NoReq \in Requests
    BY DEF Requests
  <2>2. req \in [Request -> Requests]
    BY <2>1 DEF LedgerInit
  <2>3. ticket \in [Ticket -> {"none", "pending", "granted"}]
    BY DEF LedgerInit
  <2>4. alive \in BOOLEAN /\ clean \in BOOLEAN /\ inStep \in BOOLEAN
    BY Zenon DEF LedgerInit
  <2>5. credits \in Int /\ owed \in Int /\ nreq \in Nat /\ key \in Nat /\ held \in Nat
    BY SMT DEF LedgerInit
  <2> QED
    BY <2>2, <2>3, <2>4, <2>5, Zenon DEF LedgerTypeOK
<1>2. LedgerTypeOK /\ [LedgerNext]_ledgerVars => LedgerTypeOK'
  <2> SUFFICES ASSUME LedgerTypeOK, [LedgerNext]_ledgerVars PROVE LedgerTypeOK'
    OBVIOUS
  <2> USE DEF LedgerTypeOK, Requests, NoReq, Enters, Arrives, Authenticated, keys, At, Answers, Spends, Enqueuing, Enqueued
  <2>1. CASE UNCHANGED ledgerVars
    BY <2>1 DEF ledgerVars
  <2>2. ASSUME NEW r \in Request, NEW n \in 1..MaxRows, IngestStart(r, n) PROVE LedgerTypeOK'
    BY <2>2, BoundsAssumption DEF IngestStart
  <2>3. ASSUME NEW r \in Request, UploadStart(r) PROVE LedgerTypeOK'
    BY <2>3 DEF UploadStart
  <2>4. ASSUME NEW r \in Request, UploadCharge(r) PROVE LedgerTypeOK'
    BY <2>4 DEF UploadCharge
  <2>5. ASSUME NEW r \in Request, EnqueueOne(r) PROVE LedgerTypeOK'
    BY <2>5 DEF EnqueueOne
  <2>6. ASSUME NEW r \in Request, IngestCharge(r) PROVE LedgerTypeOK'
    BY <2>6 DEF IngestCharge
  <2>7. ASSUME NEW r \in Request, UploadFinish(r) PROVE LedgerTypeOK'
    BY <2>7 DEF UploadFinish
  <2>8. ASSUME NEW r \in Request, NEW op \in {"grant", "set"}, NEW a \in Amounts,
               OperatorRead(r, op, a)
        PROVE  LedgerTypeOK'
    BY <2>8, AmountsAssumption DEF OperatorRead
  <2>9. ASSUME NEW r \in Request, GrantCommit(r) PROVE LedgerTypeOK'
    BY <2>9 DEF GrantCommit
  <2>10. ASSUME NEW r \in Request, SetCommit(r) PROVE LedgerTypeOK'
    BY <2>10 DEF SetCommit
  <2>11. ASSUME NEW r \in Request, RemoveRead(r) \/ RemoveCommit(r) \/ CutShort(r)
         PROVE  LedgerTypeOK'
    <3>1. CASE RemoveRead(r)
      BY <3>1 DEF RemoveRead
    <3>2. CASE RemoveCommit(r)
      BY <3>2 DEF RemoveCommit
    <3>3. CASE CutShort(r)
      BY <3>3 DEF CutShort
    <3> QED
      BY <2>11, <3>1, <3>2, <3>3
  <2>12. ASSUME NEW t \in Ticket, RequestCredits(t) PROVE LedgerTypeOK'
    BY <2>12 DEF RequestCredits
  <2>13. ASSUME NEW r \in Request, SignupStart(r) PROVE LedgerTypeOK'
    BY <2>13 DEF SignupStart
  <2>14. ASSUME NEW r \in Request, SignupInsert(r) PROVE LedgerTypeOK'
    <3>1. CASE InsertsUser(r)
      <4>1. [op |-> "answer", key |-> key + 1] \in Requests
        OBVIOUS
      <4>2. req' \in [Request -> Requests]
        BY <3>1, <4>1 DEF InsertsUser
      <4> QED
        BY <2>14, <3>1, <4>2, SignupAssumption DEF SignupInsert, InsertsUser
    <3>2. CASE ~InsertsUser(r)
      BY <2>14, <3>2 DEF SignupInsert
    <3> QED
      BY <3>1, <3>2
  <2>15. ASSUME NEW r \in Request, KeyRead(r) PROVE LedgerTypeOK'
    BY <2>15 DEF KeyRead
  <2>16. ASSUME NEW r \in Request, KeyCommit(r) PROVE LedgerTypeOK'
    BY <2>16 DEF KeyCommit
  <2>17. ASSUME NEW r \in Request, KeyArrives(r) PROVE LedgerTypeOK'
    BY <2>17 DEF KeyArrives
  <2> QED
    BY <2>1, <2>2, <2>3, <2>4, <2>5, <2>6, <2>7, <2>8, <2>9, <2>10, <2>11, <2>12,
       <2>13, <2>14, <2>15, <2>16, <2>17 DEF LedgerNext
<1> QED
  BY <1>1, <1>2, PTL DEF LedgerSpec

-----------------------------------------------------------------------------
(* What a request loaded covers all it may still spend.                    *)
Covered ==
  \A r \in Request :
    /\ req[r].op \in {"ingest", "upload"} => req[r].seen >= req[r].n + req[r].ok
    /\ req[r].op \in {"ingest", "upload"} /\ req[r].pc = "charge" => req[r].n = 1
    /\ req[r].op \in {"grant", "set"} => req[r].seen >= 0 /\ req[r].amount >= 0

(* However requests interleave and wherever they are cut short, the        *)
(* balance stays at or above zero, provided the operator grants and sets   *)
(* no negative amount.                                                     *)
THEOREM NoOverdraft ==
  ASSUME Amounts \subseteq Nat
  PROVE  LedgerSpec => []NeverOverdrawn
<1> DEFINE Inv == LedgerTypeOK /\ NeverOverdrawn /\ Covered
<1>1. LedgerInit => NeverOverdrawn /\ Covered
  BY SignupAssumption DEF LedgerInit, NeverOverdrawn, Covered, NoReq
<1>2. LedgerTypeOK /\ NeverOverdrawn /\ Covered /\ [LedgerNext]_ledgerVars
        => NeverOverdrawn' /\ Covered'
  <2> SUFFICES ASSUME LedgerTypeOK, NeverOverdrawn, Covered, [LedgerNext]_ledgerVars
               PROVE  NeverOverdrawn' /\ Covered'
    OBVIOUS
  <2> USE DEF LedgerTypeOK, Requests, NoReq, Enters, Arrives, Authenticated, keys, At, Answers, Spends, Enqueuing,
              Enqueued, NeverOverdrawn, Covered
  <2>1. CASE UNCHANGED ledgerVars
    BY <2>1 DEF ledgerVars
  <2>2. ASSUME NEW r \in Request, NEW n \in 1..MaxRows, IngestStart(r, n)
        PROVE  NeverOverdrawn' /\ Covered'
    BY <2>2, BoundsAssumption DEF IngestStart
  <2>3. ASSUME NEW r \in Request, UploadStart(r) PROVE NeverOverdrawn' /\ Covered'
    BY <2>3 DEF UploadStart
  <2>4. ASSUME NEW r \in Request, UploadCharge(r) PROVE NeverOverdrawn' /\ Covered'
    BY <2>4 DEF UploadCharge
  <2>5. ASSUME NEW r \in Request, EnqueueOne(r) PROVE NeverOverdrawn' /\ Covered'
    BY <2>5 DEF EnqueueOne
  <2>6. ASSUME NEW r \in Request, IngestCharge(r) PROVE NeverOverdrawn' /\ Covered'
    BY <2>6 DEF IngestCharge
  <2>7. ASSUME NEW r \in Request, UploadFinish(r) PROVE NeverOverdrawn' /\ Covered'
    BY <2>7 DEF UploadFinish
  <2>8. ASSUME NEW r \in Request, NEW op \in {"grant", "set"}, NEW a \in Amounts,
               OperatorRead(r, op, a)
        PROVE  NeverOverdrawn' /\ Covered'
    BY <2>8 DEF OperatorRead
  <2>9. ASSUME NEW r \in Request, GrantCommit(r) PROVE NeverOverdrawn' /\ Covered'
    BY <2>9 DEF GrantCommit
  <2>10. ASSUME NEW r \in Request, SetCommit(r) PROVE NeverOverdrawn' /\ Covered'
    BY <2>10 DEF SetCommit
  <2>11. ASSUME NEW r \in Request, RemoveRead(r) \/ RemoveCommit(r) \/ CutShort(r)
         PROVE  NeverOverdrawn' /\ Covered'
    BY <2>11 DEF RemoveRead, RemoveCommit, CutShort
  <2>12. ASSUME NEW t \in Ticket, RequestCredits(t) PROVE NeverOverdrawn' /\ Covered'
    BY <2>12 DEF RequestCredits
  <2>13. ASSUME NEW r \in Request, SignupStart(r) PROVE NeverOverdrawn' /\ Covered'
    BY <2>13 DEF SignupStart
  <2>14. ASSUME NEW r \in Request, SignupInsert(r) PROVE NeverOverdrawn' /\ Covered'
    BY <2>14, SignupAssumption DEF SignupInsert, InsertsUser
  <2>15. ASSUME NEW r \in Request, KeyRead(r) PROVE NeverOverdrawn' /\ Covered'
    BY <2>15 DEF KeyRead
  <2>16. ASSUME NEW r \in Request, KeyCommit(r) PROVE NeverOverdrawn' /\ Covered'
    BY <2>16 DEF KeyCommit
  <2>17. ASSUME NEW r \in Request, KeyArrives(r) PROVE NeverOverdrawn' /\ Covered'
    BY <2>17 DEF KeyArrives
  <2> QED
    BY <2>1, <2>2, <2>3, <2>4, <2>5, <2>6, <2>7, <2>8, <2>9, <2>10, <2>11, <2>12,
       <2>13, <2>14, <2>15, <2>16, <2>17 DEF LedgerNext
<1> QED
  BY <1>1, <1>2, LedgerTypeCorrect, PTL DEF LedgerSpec

-----------------------------------------------------------------------------
(* Where a request that is alone stands with the balance and the debt.     *)
Settling(q) ==
  CASE q.op = "idle" -> credits = owed
    [] q.op = "ingest" -> q.pc = "enqueue" /\ credits = q.seen /\ owed = q.seen - q.ok
    [] q.op = "upload" ->
         IF q.pc = "charge"
         THEN credits = q.seen /\ owed = q.seen /\ q.n = 1 /\ q.ok = 0
         ELSE credits = q.seen - 1 /\ owed = q.seen - q.ok /\ q.n + q.ok <= 1
    [] q.op \in {"grant", "set"} -> credits = q.seen /\ owed = q.seen
    [] OTHER -> credits = owed

(* While the books are clean at most one request is in flight, and it       *)
(* stands where Settling says.                                             *)
CleanBooks ==
  clean => /\ (\A r \in Request : req[r] = NoReq) => credits = owed
           /\ \A r \in Request : req[r] # NoReq =>
                /\ req[r].op = "signup" \/ alive
                /\ Settling(req[r])
                /\ \A q \in Request \ {r} : req[q] = NoReq

(* It is enough to look at one request if no other is in flight.           *)
LEMMA OneInFlight ==
  ASSUME NEW r \in Request,
         clean' => \A q \in Request \ {r} : req'[q] = NoReq,
         clean' /\ req'[r] # NoReq => (req'[r].op = "signup" \/ alive') /\ Settling(req[r])',
         clean' /\ req'[r] = NoReq => credits' = owed'
  PROVE  CleanBooks'
  BY DEF CleanBooks

(* For any number of requests and rows: unless requests overlapped or one  *)
(* was cut short, the balance is what was given minus what was queued.     *)
THEOREM LedgerBalance == LedgerSpec => []BooksBalance
<1>1. LedgerInit => CleanBooks
  BY DEF LedgerInit, CleanBooks, NoReq
<1>2. LedgerTypeOK /\ CleanBooks /\ [LedgerNext]_ledgerVars => CleanBooks'
  <2> SUFFICES ASSUME LedgerTypeOK, CleanBooks, [LedgerNext]_ledgerVars PROVE CleanBooks'
    OBVIOUS
  <2> USE DEF LedgerTypeOK, Requests, NoReq, Enters, Arrives, Authenticated, keys, At, Answers, Spends, Enqueuing,
              Enqueued, Settling, CleanBooks
  <2>1. CASE UNCHANGED ledgerVars
    BY <2>1 DEF ledgerVars
  <2>2. ASSUME NEW r \in Request, NEW n \in 1..MaxRows, IngestStart(r, n) PROVE CleanBooks'
    <3>1. clean' => \A q \in Request \ {r} : req'[q] = NoReq
      BY <2>2, BoundsAssumption DEF IngestStart
    <3>2. clean' /\ req'[r] # NoReq => alive' /\ Settling(req[r])'
      <4>1. clean' => credits' = owed'
        BY <2>2 DEF IngestStart
      <4>2. /\ req'[r] = Spends("ingest", "enqueue", n)
            /\ alive' /\ credits' = credits
        BY <2>2 DEF IngestStart
      <4> QED
        BY <4>1, <4>2
    <3>3. clean' /\ req'[r] = NoReq => credits' = owed'
      BY <2>2, BoundsAssumption DEF IngestStart
    <3> QED
      BY <3>1, <3>2, <3>3, OneInFlight
  <2>3. ASSUME NEW r \in Request, UploadStart(r) PROVE CleanBooks'
    <3>1. clean' => \A q \in Request \ {r} : req'[q] = NoReq
      BY <2>3 DEF UploadStart
    <3>2. clean' /\ req'[r] # NoReq => alive' /\ Settling(req[r])'
      BY <2>3 DEF UploadStart
    <3>3. clean' /\ req'[r] = NoReq => credits' = owed'
      BY <2>3 DEF UploadStart
    <3> QED
      BY <3>1, <3>2, <3>3, OneInFlight
  <2>4. ASSUME NEW r \in Request, UploadCharge(r) PROVE CleanBooks'
    <3>1. clean' => \A q \in Request \ {r} : req'[q] = NoReq
      BY <2>4 DEF UploadCharge
    <3>2. clean' /\ req'[r] # NoReq => alive' /\ Settling(req[r])'
      BY <2>4 DEF UploadCharge
    <3>3. clean' /\ req'[r] = NoReq => credits' = owed'
      BY <2>4 DEF UploadCharge
    <3> QED
      BY <3>1, <3>2, <3>3, OneInFlight
  <2>5. ASSUME NEW r \in Request, EnqueueOne(r) PROVE CleanBooks'
    <3>1. clean' => \A q \in Request \ {r} : req'[q] = NoReq
      BY <2>5 DEF EnqueueOne
    <3>2. clean' /\ req'[r] # NoReq => alive' /\ Settling(req[r])'
      BY <2>5 DEF EnqueueOne
    <3>3. clean' /\ req'[r] = NoReq => credits' = owed'
      BY <2>5 DEF EnqueueOne
    <3> QED
      BY <3>1, <3>2, <3>3, OneInFlight
  <2>6. ASSUME NEW r \in Request, IngestCharge(r) PROVE CleanBooks'
    <3>1. clean' => \A q \in Request \ {r} : req'[q] = NoReq
      BY <2>6 DEF IngestCharge
    <3>2. clean' /\ req'[r] # NoReq => alive' /\ Settling(req[r])'
      BY <2>6 DEF IngestCharge
    <3>3. clean' /\ req'[r] = NoReq => credits' = owed'
      BY <2>6 DEF IngestCharge
    <3> QED
      BY <3>1, <3>2, <3>3, OneInFlight
  <2>7. ASSUME NEW r \in Request, UploadFinish(r) PROVE CleanBooks'
    <3>1. clean' => \A q \in Request \ {r} : req'[q] = NoReq
      BY <2>7 DEF UploadFinish
    <3>2. clean' /\ req'[r] # NoReq => alive' /\ Settling(req[r])'
      BY <2>7 DEF UploadFinish
    <3>3. clean' /\ req'[r] = NoReq => credits' = owed'
      BY <2>7 DEF UploadFinish
    <3> QED
      BY <3>1, <3>2, <3>3, OneInFlight
  <2>8. ASSUME NEW r \in Request, NEW op \in {"grant", "set"}, NEW a \in Amounts,
               OperatorRead(r, op, a)
        PROVE  CleanBooks'
    <3>1. clean' => \A q \in Request \ {r} : req'[q] = NoReq
      BY <2>8, AmountsAssumption DEF OperatorRead
    <3>2. clean' /\ req'[r] # NoReq => alive' /\ Settling(req[r])'
      BY <2>8, AmountsAssumption DEF OperatorRead
    <3>3. clean' /\ req'[r] = NoReq => credits' = owed'
      BY <2>8, AmountsAssumption DEF OperatorRead
    <3> QED
      BY <3>1, <3>2, <3>3, OneInFlight
  <2>9. ASSUME NEW r \in Request, GrantCommit(r) PROVE CleanBooks'
    <3>1. clean' => \A q \in Request \ {r} : req'[q] = NoReq
      BY <2>9 DEF GrantCommit
    <3>2. clean' /\ req'[r] # NoReq => alive' /\ Settling(req[r])'
      BY <2>9 DEF GrantCommit
    <3>3. clean' /\ req'[r] = NoReq => credits' = owed'
      BY <2>9 DEF GrantCommit
    <3> QED
      BY <3>1, <3>2, <3>3, OneInFlight
  <2>10. ASSUME NEW r \in Request, SetCommit(r) PROVE CleanBooks'
    <3>1. clean' => \A q \in Request \ {r} : req'[q] = NoReq
      BY <2>10 DEF SetCommit
    <3>2. clean' /\ req'[r] # NoReq => alive' /\ Settling(req[r])'
      BY <2>10 DEF SetCommit
    <3>3. clean' /\ req'[r] = NoReq => credits' = owed'
      BY <2>10 DEF SetCommit
    <3> QED
      BY <3>1, <3>2, <3>3, OneInFlight
  <2>11. ASSUME NEW r \in Request, RemoveRead(r) PROVE CleanBooks'
    <3>1. clean' => \A q \in Request \ {r} : req'[q] = NoReq
      BY <2>11 DEF RemoveRead
    <3>2. clean' /\ req'[r] # NoReq => alive' /\ Settling(req[r])'
      BY <2>11 DEF RemoveRead
    <3>3. clean' /\ req'[r] = NoReq => credits' = owed'
      BY <2>11 DEF RemoveRead
    <3> QED
      BY <3>1, <3>2, <3>3, OneInFlight
  <2>12. ASSUME NEW r \in Request, RemoveCommit(r) PROVE CleanBooks'
    <3>1. clean' => \A q \in Request \ {r} : req'[q] = NoReq
      BY <2>12 DEF RemoveCommit
    <3>2. clean' /\ req'[r] # NoReq => alive' /\ Settling(req[r])'
      BY <2>12 DEF RemoveCommit
    <3>3. clean' /\ req'[r] = NoReq => credits' = owed'
      BY <2>12 DEF RemoveCommit
    <3> QED
      BY <3>1, <3>2, <3>3, OneInFlight
  <2>13. ASSUME NEW r \in Request, CutShort(r) PROVE CleanBooks'
    <3>1. clean' => \A q \in Request \ {r} : req'[q] = NoReq
      BY <2>13 DEF CutShort
    <3>2. clean' /\ req'[r] # NoReq => alive' /\ Settling(req[r])'
      BY <2>13 DEF CutShort
    <3>3. clean' /\ req'[r] = NoReq => credits' = owed'
      BY <2>13 DEF CutShort
    <3> QED
      BY <3>1, <3>2, <3>3, OneInFlight
  <2>14. ASSUME NEW t \in Ticket, RequestCredits(t) PROVE CleanBooks'
    BY <2>14 DEF RequestCredits
  <2>15. ASSUME NEW r \in Request, SignupStart(r) PROVE CleanBooks'
    <3>1. clean' => \A q \in Request \ {r} : req'[q] = NoReq
      BY <2>15 DEF SignupStart
    <3>2. clean' /\ req'[r] # NoReq => (req'[r].op = "signup" \/ alive') /\ Settling(req[r])'
      BY <2>15 DEF SignupStart
    <3>3. clean' /\ req'[r] = NoReq => credits' = owed'
      BY <2>15 DEF SignupStart
    <3> QED
      BY <3>1, <3>2, <3>3, OneInFlight
  <2>16. ASSUME NEW r \in Request, SignupInsert(r) PROVE CleanBooks'
    <3>1. clean' => \A q \in Request \ {r} : req'[q] = NoReq
      BY <2>16 DEF SignupInsert, InsertsUser
    <3>2. clean' /\ req'[r] # NoReq => (req'[r].op = "signup" \/ alive') /\ Settling(req[r])'
      BY <2>16 DEF SignupInsert, InsertsUser
    <3>3. clean' /\ req'[r] = NoReq => credits' = owed'
      BY <2>16 DEF SignupInsert, InsertsUser
    <3> QED
      BY <3>1, <3>2, <3>3, OneInFlight
  <2>17. ASSUME NEW r \in Request, KeyRead(r) PROVE CleanBooks'
    <3>1. clean' => \A q \in Request \ {r} : req'[q] = NoReq
      BY <2>17 DEF KeyRead
    <3>2. clean' /\ req'[r] # NoReq => (req'[r].op = "signup" \/ alive') /\ Settling(req[r])'
      BY <2>17 DEF KeyRead
    <3>3. clean' /\ req'[r] = NoReq => credits' = owed'
      BY <2>17 DEF KeyRead
    <3> QED
      BY <3>1, <3>2, <3>3, OneInFlight
  <2>18. ASSUME NEW r \in Request, KeyCommit(r) PROVE CleanBooks'
    <3>1. clean' => \A q \in Request \ {r} : req'[q] = NoReq
      BY <2>18 DEF KeyCommit
    <3>2. clean' /\ req'[r] # NoReq => (req'[r].op = "signup" \/ alive') /\ Settling(req[r])'
      BY <2>18 DEF KeyCommit
    <3>3. clean' /\ req'[r] = NoReq => credits' = owed'
      BY <2>18 DEF KeyCommit
    <3> QED
      BY <3>1, <3>2, <3>3, OneInFlight
  <2>19. ASSUME NEW r \in Request, KeyArrives(r) PROVE CleanBooks'
    <3>1. clean' => \A q \in Request \ {r} : req'[q] = NoReq
      BY <2>19 DEF KeyArrives
    <3>2. clean' /\ req'[r] # NoReq => (req'[r].op = "signup" \/ alive') /\ Settling(req[r])'
      BY <2>19 DEF KeyArrives
    <3>3. clean' /\ req'[r] = NoReq => credits' = owed'
      BY <2>19 DEF KeyArrives
    <3> QED
      BY <3>1, <3>2, <3>3, OneInFlight
  <2> QED
    BY <2>1, <2>2, <2>3, <2>4, <2>5, <2>6, <2>7, <2>8, <2>9, <2>10, <2>11, <2>12, <2>13,
       <2>14, <2>15, <2>16, <2>17, <2>18, <2>19 DEF LedgerNext
<1>3. CleanBooks => BooksBalance
  BY DEF CleanBooks, BooksBalance
<1> QED
  BY <1>1, <1>2, <1>3, LedgerTypeCorrect, PTL DEF LedgerSpec

-----------------------------------------------------------------------------
(* A key is on its way or made for at most one request at a time, and only *)
(* for an account that exists; the key in an answer is the row's.          *)
KeyInv ==
  /\ alive => key # 0
  /\ \A r \in Request : MakesKey(req[r]) => key # 0
  /\ inStep =>
       /\ \A q, r \in Request : MakesKey(req[q]) /\ MakesKey(req[r]) => q = r
       /\ \A r \in Request : req[r].op = "answer" => req[r].key = key
       /\ alive /\ (\A r \in Request : req[r].op # "answer") => held = key

(* For any number of requests: the key shown last opens the account, with  *)
(* signups racing for the row and spending requests overlapping rotations, *)
(* unless rotations or resets overlap or an answer is lost.                *)
THEOREM KeyShownLastWorks == LedgerSpec => []KeysInStep
<1>1. LedgerInit => KeyInv
  BY DEF LedgerInit, KeyInv, NoReq, MakesKey
<1>2. LedgerTypeOK /\ KeyInv /\ [LedgerNext]_ledgerVars => KeyInv'
  <2> SUFFICES ASSUME LedgerTypeOK, KeyInv, [LedgerNext]_ledgerVars PROVE KeyInv'
    OBVIOUS
  <2> USE DEF LedgerTypeOK, Requests, NoReq, Enters, Arrives, Answers, MakesKey, KeyInv
  <2>1. ASSUME UNCHANGED keys, alive' => alive, NEW r \in Request,
               \A q \in Request \ {r} : req'[q] = req[q],
               ~MakesKey(req[r]), ~MakesKey(req'[r])
        PROVE  KeyInv'
    BY <2>1 DEF keys
  <2>2. CASE UNCHANGED ledgerVars
    BY <2>2 DEF ledgerVars, keys
  <2>3. ASSUME NEW r \in Request,
               \/ \E n \in 1..MaxRows : IngestStart(r, n)
               \/ UploadStart(r) \/ RemoveRead(r)
               \/ \E op \in {"grant", "set"}, a \in Amounts : OperatorRead(r, op, a)
        PROVE  KeyInv'
    BY <2>1, <2>3 DEF IngestStart, UploadStart, RemoveRead, OperatorRead, Spends
  <2>4. ASSUME NEW r \in Request,
               UploadCharge(r) \/ EnqueueOne(r) \/ IngestCharge(r) \/ UploadFinish(r)
        PROVE  KeyInv'
    BY <2>1, <2>4 DEF UploadCharge, EnqueueOne, IngestCharge, UploadFinish, At, Enqueuing, Enqueued
  <2>5. ASSUME NEW r \in Request, GrantCommit(r) \/ SetCommit(r) \/ RemoveCommit(r)
        PROVE  KeyInv'
    BY <2>1, <2>5 DEF GrantCommit, SetCommit, RemoveCommit
  <2>6. ASSUME NEW t \in Ticket, RequestCredits(t) PROVE KeyInv'
    BY <2>6 DEF RequestCredits, keys
  <2>7. ASSUME NEW r \in Request, SignupStart(r) PROVE KeyInv'
    BY <2>1, <2>7 DEF SignupStart
  <2>8. ASSUME NEW r \in Request, SignupInsert(r) PROVE KeyInv'
    BY <2>8 DEF SignupInsert, InsertsUser
  <2>9. ASSUME NEW r \in Request, KeyRead(r) PROVE KeyInv'
    BY <2>9 DEF KeyRead
  <2>10. ASSUME NEW r \in Request, KeyCommit(r) PROVE KeyInv'
    BY <2>10 DEF KeyCommit
  <2>11. ASSUME NEW r \in Request, KeyArrives(r) PROVE KeyInv'
    BY <2>11 DEF KeyArrives
  <2>12. ASSUME NEW r \in Request, CutShort(r) PROVE KeyInv'
    BY <2>12 DEF CutShort
  <2> QED
    BY <2>2, <2>3, <2>4, <2>5, <2>6, <2>7, <2>8, <2>9, <2>10, <2>11, <2>12 DEF LedgerNext
<1>3. KeyInv => KeysInStep
  BY DEF KeyInv, KeysInStep, MakesKey
<1> QED
  BY <1>1, <1>2, <1>3, LedgerTypeCorrect, PTL DEF LedgerSpec

-----------------------------------------------------------------------------
(* JdParse, for any jobs, workers and sheets                               *)

(* JdTypeOK is not inductive: that no job has two entries in the queue     *)
(* rests on where its one parse may be, about to be queued, queued or with *)
(* a parser.                                                               *)
AtMostOneParse ==
  \A j \in Job :
    /\ creating[j] => entries[j] = 0
    /\ \A w \in JdWorker : parser[w] = j => ~creating[j] /\ entries[j] = 0
    /\ \A v, w \in JdWorker : parser[v] = j /\ parser[w] = j => v = w
    /\ jd[j] = "none" =>
         ~creating[j] /\ entries[j] = 0 /\ \A w \in JdWorker : parser[w] # j

(* Every reachable state is well typed, and no description is queued twice.*)
THEOREM JdTypeCorrect == JdSpec => []JdTypeOK
<1>1. JdInit => JdTypeOK /\ AtMostOneParse
  BY IdleAssumption DEF JdInit, JdTypeOK, AtMostOneParse
<1>2. JdTypeOK /\ AtMostOneParse /\ [JdNext]_jdVars => JdTypeOK' /\ AtMostOneParse'
  <2> SUFFICES ASSUME JdTypeOK, AtMostOneParse, [JdNext]_jdVars
               PROVE  JdTypeOK' /\ AtMostOneParse'
    OBVIOUS
  <2> USE IdleAssumption DEF JdTypeOK, AtMostOneParse, Exists, Trouble
  <2>1. CASE UNCHANGED jdVars
    BY <2>1 DEF jdVars
  <2>2. ASSUME NEW j \in Job, Create(j) \/ CreateEnqueue(j) \/ Update(j) \/ Delete(j)
        PROVE  JdTypeOK' /\ AtMostOneParse'
    <3>1. CASE Create(j)
      BY <3>1 DEF Create
    <3>2. CASE CreateEnqueue(j)
      BY <3>2 DEF CreateEnqueue
    <3>3. CASE Update(j) \/ Delete(j)
      BY <3>3 DEF Update, Delete
    <3> QED
      BY <2>2, <3>1, <3>2, <3>3
  <2>3. ASSUME NEW s \in Sheet, SheetInsert(s) PROVE JdTypeOK' /\ AtMostOneParse'
    <3>1. sheet[s] \in Job
      BY <2>3 DEF SheetInsert
    <3> QED
      BY <2>3, <3>1 DEF SheetInsert
  <2>4. ASSUME NEW s \in Sheet, NEW j \in Job, SheetCheck(s, j) PROVE JdTypeOK' /\ AtMostOneParse'
    BY <2>4 DEF SheetCheck
  <2>5. ASSUME NEW w \in JdWorker, NEW j \in Job, Take(w, j) PROVE JdTypeOK' /\ AtMostOneParse'
    BY <2>5 DEF Take
  <2>6. ASSUME NEW w \in JdWorker, Parsed(w) \/ ParseFails(w) PROVE JdTypeOK' /\ AtMostOneParse'
    <3>1. CASE Parsed(w)
      BY <3>1 DEF Parsed
    <3>2. CASE ParseFails(w)
      BY <3>2 DEF ParseFails
    <3> QED
      BY <2>6, <3>1, <3>2
  <2>7. ASSUME NEW w \in JdWorker, HorseDies(w) PROVE JdTypeOK' /\ AtMostOneParse'
    <3>1. parser[w] \in Job
      BY <2>7 DEF HorseDies
    <3> QED
      BY <2>7, <3>1 DEF HorseDies
  <2>8. CASE LlmDown
    <3>1. up' \in BOOLEAN
      BY <2>8 DEF LlmDown
    <3>2. troubles' \in Nat
      BY <2>8 DEF LlmDown
    <3> QED
      BY <2>8, <3>1, <3>2, Zenon DEF LlmDown
  <2>9. CASE LlmUp
    BY <2>9 DEF LlmUp
  <2> QED
    BY <2>1, <2>2, <2>3, <2>4, <2>5, <2>6, <2>7, <2>8, <2>9 DEF JdNext
<1> QED
  BY <1>1, <1>2, PTL DEF JdSpec

-----------------------------------------------------------------------------
(* An upload past the check holds a job that was parsed, and parsed jobs   *)
(* never become pending again.                                             *)
PastCheck == \A s \in Sheet : sheet[s] # "idle" => jd[sheet[s]] \in {"parsed", "deleted"}

(* No job has candidates before its description is parsed.                 *)
THEOREM CandidatesAfterParse == JdSpec => []NoneBeforeParse
<1> DEFINE Safe == NoneBeforeParse /\ PastCheck
<1>1. JdInit => Safe
  BY DEF JdInit, NoneBeforeParse, PastCheck
<1>2. JdTypeOK /\ Safe /\ [JdNext]_jdVars => Safe'
  <2> SUFFICES ASSUME JdTypeOK, Safe, [JdNext]_jdVars PROVE Safe'
    OBVIOUS
  <2> USE IdleAssumption DEF JdTypeOK, Exists, Trouble, NoneBeforeParse, PastCheck
  <2>1. CASE UNCHANGED jdVars
    BY <2>1 DEF jdVars
  <2>2. ASSUME NEW j \in Job, Create(j) \/ CreateEnqueue(j) \/ Update(j) \/ Delete(j)
        PROVE  Safe'
    <3>1. CASE Create(j)
      BY <3>1 DEF Create
    <3>2. CASE CreateEnqueue(j) \/ Update(j)
      BY <3>2 DEF CreateEnqueue, Update
    <3>3. CASE Delete(j)
      BY <3>3 DEF Delete
    <3> QED
      BY <2>2, <3>1, <3>2, <3>3
  <2>3. ASSUME NEW s \in Sheet, SheetInsert(s) PROVE Safe'
    BY <2>3 DEF SheetInsert
  <2>4. ASSUME NEW s \in Sheet, NEW j \in Job, SheetCheck(s, j) PROVE Safe'
    BY <2>4 DEF SheetCheck
  <2>5. ASSUME NEW w \in JdWorker, NEW j \in Job, Take(w, j) PROVE Safe'
    BY <2>5 DEF Take
  <2>6. ASSUME NEW w \in JdWorker, Parsed(w) PROVE Safe'
    BY <2>6 DEF Parsed
  <2>7. ASSUME NEW w \in JdWorker, ParseFails(w) \/ HorseDies(w) PROVE Safe'
    BY <2>7 DEF ParseFails, HorseDies
  <2>8. CASE LlmDown \/ LlmUp
    BY <2>8 DEF LlmDown, LlmUp
  <2> QED
    BY <2>1, <2>2, <2>3, <2>4, <2>5, <2>6, <2>7, <2>8 DEF JdNext
<1> QED
  BY <1>1, <1>2, JdTypeCorrect, PTL DEF JdSpec

(* A parse that ends after the job was deleted, or a sheet checked before, *)
(* brings neither the job nor its candidates back.                         *)
THEOREM JobDeletionIsFinal == JdSpec => DeletionIsFinal
<1> DEFINE Final == \A j \in Job : jd[j] = "deleted" => jd'[j] = "deleted" /\ rows'[j] = 0
           Empty == NoneBeforeParse
<1>1. JdTypeOK /\ Empty /\ [JdNext]_jdVars => [Final]_jdVars
  <2> SUFFICES ASSUME JdTypeOK, Empty, JdNext PROVE Final
    BY DEF jdVars
  <2> USE IdleAssumption DEF JdTypeOK, Exists, Trouble, NoneBeforeParse
  <2>1. ASSUME NEW j \in Job, Create(j) \/ CreateEnqueue(j) \/ Update(j) \/ Delete(j)
        PROVE  Final
    BY <2>1 DEF Create, CreateEnqueue, Update, Delete
  <2>2. ASSUME NEW s \in Sheet, SheetInsert(s) PROVE Final
    BY <2>2 DEF SheetInsert
  <2>3. ASSUME NEW s \in Sheet, NEW j \in Job, SheetCheck(s, j) PROVE Final
    BY <2>3 DEF SheetCheck
  <2>4. ASSUME NEW w \in JdWorker, NEW j \in Job, Take(w, j) PROVE Final
    BY <2>4 DEF Take
  <2>5. ASSUME NEW w \in JdWorker, Parsed(w) \/ ParseFails(w) \/ HorseDies(w)
        PROVE  Final
    BY <2>5 DEF Parsed, ParseFails, HorseDies
  <2>6. CASE LlmDown \/ LlmUp
    BY <2>6 DEF LlmDown, LlmUp
  <2> QED
    BY <2>1, <2>2, <2>3, <2>4, <2>5, <2>6 DEF JdNext
<1> QED
  BY <1>1, JdTypeCorrect, CandidatesAfterParse, PTL DEF JdSpec, DeletionIsFinal

-----------------------------------------------------------------------------
(* LlmThrottle, for any limit, window, number of workers and of attempts   *)

(* A retry is only taken while an attempt is left.                         *)
AttemptLeft == \A w \in Worker : pc[w] = "backoff" => attempt[w] < MaxRetries

Typed == ThrottleTypeOK /\ AttemptLeft

(* The calls of a window that count against the limit.                     *)
Live(w) == {t \in window[w] : now < t + Window}

(* The window of a horse holds every call of its job that still counts.    *)
Remembered ==
  \A c \in sent :
    /\ c.job <= job[c.worker]
    /\ c.job = job[c.worker] /\ now < c.at + Window => c.at \in window[c.worker]

(* What is left of the limit.  Before a check even the calls exactly one   *)
(* window old are within it, because time has passed since the last call;  *)
(* a sleep ends when one call of a full window has ceased to count.        *)
Room(w) ==
  /\ Cardinality(Live(w)) <= Limit
  /\ pc[w] = "call" => Cardinality(Live(w)) < Limit
  /\ pc[w] = "calling" => now \in window[w] \/ Cardinality(Recent(w)) <= Limit
  /\ pc[w] \in {"idle", "check", "backoff"} => Cardinality(Recent(w)) <= Limit
  /\ pc[w] = "sleep" => /\ Cardinality(window[w]) <= Limit
                        /\ \E t \in window[w] : wake[w] = t + Window

LimitInv == Remembered /\ \A w \in Worker : Room(w)

-----------------------------------------------------------------------------
(* A set of natural numbers that is not empty has a least element.         *)
LEMMA MinIsThere ==
  ASSUME NEW S \in SUBSET Nat, S # {}
  PROVE  Min(S) \in S
<1> DEFINE R == OpToRel(<, Nat)
<1>1. IsWellFoundedOn(R, Nat)
  BY NatLessThanWellFounded
<1>2. \A x, y \in Nat : y < x => <<y, x>> \in R
  BY DEF OpToRel
<1> HIDE DEF R
<1>3. \E x \in S : \A y \in S : ~ (<<y, x>> \in R)
  BY <1>1, WFMin
<1>4. PICK x \in S : \A y \in S : ~ (<<y, x>> \in R)
  BY <1>3
<1>5. ASSUME NEW y \in S PROVE x =< y
  <2>1. ~ (y < x)
    <3>1. x \in Nat /\ y \in Nat
      OBVIOUS
    <3>2. y < x => <<y, x>> \in R
      BY <1>2, <3>1
    <3> QED
      BY <1>4, <3>2, Zenon
  <2> QED
    BY <2>1
<1> QED
  BY <1>5 DEF Min

(* Part of a set of times up to now is finite and no larger.               *)
LEMMA Fewer ==
  ASSUME NEW n \in Nat, NEW S \in SUBSET (0..n), NEW T \in SUBSET S
  PROVE  /\ IsFiniteSet(S) /\ Cardinality(S) \in Nat
         /\ IsFiniteSet(T) /\ Cardinality(T) \in Nat
         /\ Cardinality(T) <= Cardinality(S)
<1>1. IsFiniteSet(0..n)
  BY FS_Interval
<1>2. IsFiniteSet(S)
  BY <1>1, FS_Subset
<1> QED
  BY <1>2, FS_Subset, FS_CardinalityType

-----------------------------------------------------------------------------
LEMMA InitTyped == ThrottleInit => Typed
  BY RetryAssumption DEF ThrottleInit, Typed, ThrottleTypeOK, AttemptLeft

LEMMA NextTyped == Typed /\ [ThrottleNext]_throttleVars => Typed'
<1> SUFFICES ASSUME Typed, [ThrottleNext]_throttleVars PROVE Typed'
  OBVIOUS
<1> USE RetryAssumption DEF Typed, ThrottleTypeOK, AttemptLeft, Move
<1>1. CASE UNCHANGED throttleVars
  BY <1>1 DEF throttleVars
<1>2. ASSUME NEW w \in Worker, Fork(w) PROVE Typed'
  BY <1>2 DEF Fork
<1>3. ASSUME NEW w \in Worker, Check(w) PROVE Typed'
  <2>1. Recent(w) \in SUBSET (0..now) /\ Recent(w) \in SUBSET Nat
    BY DEF Recent
  <2>2. CASE Cardinality(Recent(w)) < Limit /\ Move(w, "call") /\ UNCHANGED wake
    BY <1>3, <2>1, <2>2 DEF Check
  <2>3. CASE /\ Cardinality(Recent(w)) >= Limit
             /\ wake' = [wake EXCEPT ![w] = Min(Recent(w)) + Window]
             /\ Move(w, "sleep")
    <3>1. Recent(w) # {}
      <4>1. SUFFICES Recent(w) = {} => FALSE
        OBVIOUS
      <4> QED
        BY <2>3, LimitAssumption, FS_EmptySet
    <3>2. Min(Recent(w)) + Window \in Nat
      BY <2>1, <3>1, MinIsThere, WindowAssumption
    <3> QED
      BY <1>3, <2>1, <2>3, <3>2 DEF Check
  <2> QED
    BY <1>3, <2>2, <2>3 DEF Check
<1>4. ASSUME NEW w \in Worker, WakeUp(w) PROVE Typed'
  BY <1>4 DEF WakeUp, Recent
<1>5. ASSUME NEW w \in Worker, Call(w) PROVE Typed'
  BY <1>5 DEF Call
<1>6. ASSUME NEW w \in Worker, Answer(w) PROVE Typed'
  BY <1>6 DEF Answer
<1>7. ASSUME NEW w \in Worker, Unavailable(w) PROVE Typed'
  BY <1>7 DEF Unavailable
<1>8. ASSUME NEW w \in Worker, Retry(w) PROVE Typed'
  BY <1>8 DEF Retry
<1>9. CASE Tick
  BY <1>9 DEF Tick
<1> QED
  BY <1>1, <1>2, <1>3, <1>4, <1>5, <1>6, <1>7, <1>8, <1>9 DEF ThrottleNext

(* Every reachable state is well typed: no attempt beyond the last.        *)
THEOREM ThrottleTypeCorrect == ThrottleSpec => []ThrottleTypeOK
<1>1. Typed => ThrottleTypeOK
  BY DEF Typed
<1> QED
  BY <1>1, InitTyped, NextTyped, PTL DEF ThrottleSpec

-----------------------------------------------------------------------------
(* The sets that Room counts.                                              *)
LEMMA Counted ==
  ASSUME Typed, NEW w \in Worker
  PROVE  /\ window[w] \in SUBSET (0..now)
         /\ Recent(w) \in SUBSET window[w] /\ Live(w) \in SUBSET Recent(w)
         /\ IsFiniteSet(window[w]) /\ IsFiniteSet(Recent(w)) /\ IsFiniteSet(Live(w))
         /\ Cardinality(window[w]) \in Nat /\ Cardinality(Recent(w)) \in Nat
         /\ Cardinality(Live(w)) \in Nat
         /\ Cardinality(Recent(w)) <= Cardinality(window[w])
         /\ Cardinality(Live(w)) <= Cardinality(Recent(w))
<1>1. now \in Nat /\ window[w] \in SUBSET (0..now)
  BY DEF Typed, ThrottleTypeOK
<1>2. Recent(w) \in SUBSET window[w] /\ Live(w) \in SUBSET Recent(w)
  BY <1>1, WindowAssumption DEF Recent, Live
<1>3. Recent(w) \in SUBSET (0..now)
  BY <1>1, <1>2
<1> QED
  BY <1>1, <1>2, <1>3, Fewer

(* A step of another horse leaves a horse its room.                        *)
LEMMA OthersKeepRoom ==
  ASSUME NEW w \in Worker, Room(w), UNCHANGED <<now, pc[w], window[w], wake[w]>>
  PROVE  Room(w)'
BY DEF Room, Live, Recent

(* What is dropped from a window does not count any more.                  *)
LEMMA PurgeKeepsCounting ==
  ASSUME Typed, NEW w \in Worker, UNCHANGED now,
         window' = [window EXCEPT ![w] = Recent(w)]
  PROVE  /\ window'[w] = Recent(w)
         /\ Recent(w)' = Recent(w) /\ Live(w)' = Live(w)
BY WindowAssumption DEF Typed, ThrottleTypeOK, Recent, Live

LEMMA InitLimit == ThrottleInit => LimitInv
<1> SUFFICES ASSUME ThrottleInit PROVE LimitInv
  OBVIOUS
<1>1. Remembered
  BY DEF ThrottleInit, Remembered
<1>2. ASSUME NEW w \in Worker PROVE Room(w)
  <2>1. Live(w) = {} /\ Recent(w) = {} /\ pc[w] = "idle"
    BY DEF ThrottleInit, Live, Recent
  <2> QED
    BY <2>1, FS_EmptySet, LimitAssumption DEF Room
<1> QED
  BY <1>1, <1>2 DEF LimitInv

LEMMA NextRemembered == Typed /\ Remembered /\ [ThrottleNext]_throttleVars => Remembered'
<1> SUFFICES ASSUME Typed, Remembered, [ThrottleNext]_throttleVars PROVE Remembered'
  OBVIOUS
<1> USE WindowAssumption DEF Typed, ThrottleTypeOK, Remembered
<1>1. CASE UNCHANGED throttleVars
  BY <1>1 DEF throttleVars
<1>2. ASSUME NEW w \in Worker, Fork(w) PROVE Remembered'
  BY <1>2 DEF Fork
<1>3. ASSUME NEW w \in Worker, Check(w) \/ WakeUp(w) PROVE Remembered'
  <2>1. /\ window' = [window EXCEPT ![w] = Recent(w)]
        /\ UNCHANGED <<now, job, sent>>
    BY <1>3 DEF Check, WakeUp
  <2> QED
    BY <2>1 DEF Recent
<1>4. ASSUME NEW w \in Worker, Call(w) PROVE Remembered'
  BY <1>4 DEF Call
<1>5. ASSUME NEW w \in Worker, Answer(w) \/ Unavailable(w) \/ Retry(w) PROVE Remembered'
  BY <1>5 DEF Answer, Unavailable, Retry
<1>6. CASE Tick
  BY <1>6 DEF Tick
<1> QED
  BY <1>1, <1>2, <1>3, <1>4, <1>5, <1>6 DEF ThrottleNext

LEMMA NextRoom ==
  ASSUME Typed, [ThrottleNext]_throttleVars, NEW v \in Worker, Room(v)
  PROVE  Room(v)'
<1> USE DEF Move
<1>0. /\ now \in Nat /\ Limit \in Nat \ {0} /\ Window \in Nat \ {0}
      /\ pc \in [Worker -> {"idle", "check", "sleep", "call", "calling", "backoff"}]
      /\ DOMAIN window = Worker /\ DOMAIN wake = Worker
  BY LimitAssumption, WindowAssumption DEF Typed, ThrottleTypeOK
<1>1. CASE UNCHANGED throttleVars
  BY <1>1, OthersKeepRoom DEF throttleVars
<1>2. ASSUME NEW w \in Worker, v # w,
             \/ Fork(w) \/ Check(w) \/ WakeUp(w) \/ Call(w)
             \/ Answer(w) \/ Unavailable(w) \/ Retry(w)
      PROVE  Room(v)'
  <2>1. UNCHANGED <<now, pc[v], window[v], wake[v]>>
    BY <1>0, <1>2 DEF Fork, Check, WakeUp, Call, Answer, Unavailable, Retry
  <2> QED
    BY <2>1, OthersKeepRoom
<1>3. CASE Fork(v)
  <2>1. pc'[v] = "check" /\ Live(v)' = {} /\ Recent(v)' = {}
    BY <1>0, <1>3 DEF Fork, Live, Recent
  <2> QED
    BY <1>0, <2>1, FS_EmptySet DEF Room
<1>4. CASE Check(v)
  <2>1. /\ pc[v] = "check" /\ window'[v] = Recent(v)
        /\ Recent(v)' = Recent(v) /\ Live(v)' = Live(v)
    BY <1>4, PurgeKeepsCounting DEF Check
  <2>2. Cardinality(Live(v)) <= Cardinality(Recent(v)) /\ Cardinality(Recent(v)) <= Limit
        /\ Cardinality(Live(v)) \in Nat /\ Cardinality(Recent(v)) \in Nat
    BY <2>1, Counted DEF Room
  <2>3. CASE Cardinality(Recent(v)) < Limit /\ Move(v, "call")
    BY <1>0, <2>1, <2>2, <2>3 DEF Room
  <2>4. CASE /\ Cardinality(Recent(v)) >= Limit
             /\ wake' = [wake EXCEPT ![v] = Min(Recent(v)) + Window]
             /\ Move(v, "sleep")
    <3>1. Recent(v) # {}
      <4>1. SUFFICES Recent(v) = {} => FALSE
        OBVIOUS
      <4> QED
        BY <1>0, <2>4, FS_EmptySet
    <3>2. Recent(v) \in SUBSET Nat
      BY <1>0, Counted
    <3>3. Min(Recent(v)) \in Recent(v)
      BY <3>1, <3>2, MinIsThere
    <3>4. pc'[v] = "sleep" /\ wake'[v] = Min(Recent(v)) + Window
      BY <1>0, <2>4
    <3> QED
      BY <2>1, <2>2, <3>3, <3>4 DEF Room
  <2> QED
    BY <1>4, <2>3, <2>4 DEF Check
<1>5. CASE WakeUp(v)
  <2>1. /\ pc[v] = "sleep" /\ pc'[v] = "call" /\ now >= wake[v]
        /\ Live(v)' = Live(v)
    BY <1>0, <1>5, PurgeKeepsCounting DEF WakeUp
  <2>2. PICK t \in window[v] : wake[v] = t + Window
    BY <2>1 DEF Room
  <2>3. t \notin Live(v)
    <3>1. t \in Nat
      BY <1>0, Counted
    <3> QED
      BY <1>0, <2>1, <2>2, <3>1 DEF Live
  <2>4. Live(v) \in SUBSET (window[v] \ {t})
    BY <2>3, Counted
  <2>5. /\ IsFiniteSet(window[v] \ {t})
        /\ Cardinality(window[v] \ {t}) = Cardinality(window[v]) - 1
    BY Counted, FS_RemoveElement
  <2>6. Cardinality(Live(v)) <= Cardinality(window[v]) - 1
    BY <2>4, <2>5, FS_Subset
  <2>7. Cardinality(Live(v)) < Limit
    BY <1>0, <2>1, <2>6, Counted DEF Room
  <2> QED
    BY <1>0, <2>1, <2>7, Counted DEF Room
<1>6. CASE Call(v)
  <2>1. /\ pc[v] = "call" /\ pc'[v] = "calling" /\ now' = now
        /\ window'[v] = window[v] \cup {now}
    BY <1>0, <1>6 DEF Call
  <2>2. Live(v)' = Live(v) \cup {now}
    BY <1>0, <2>1 DEF Live
  <2>3. Cardinality(Live(v)') <= Limit
    <3>1. IsFiniteSet(Live(v)) /\ Cardinality(Live(v)) \in Nat
      BY Counted
    <3>2. Cardinality(Live(v) \cup {now}) \in {Cardinality(Live(v)), Cardinality(Live(v)) + 1}
      BY <3>1, FS_AddElement
    <3> QED
      BY <1>0, <2>1, <2>2, <3>1, <3>2 DEF Room
  <2> QED
    BY <2>1, <2>3 DEF Room
<1>7. CASE Answer(v) \/ Unavailable(v)
  <2>1. /\ pc[v] = "calling" /\ pc'[v] \in {"idle", "check", "backoff"}
        /\ now > Max(window[v]) /\ UNCHANGED <<now, window, wake>>
    BY <1>0, <1>7 DEF Answer, Unavailable
  <2>2. now \notin window[v]
    <3> SUFFICES ASSUME now \in window[v] PROVE FALSE
      OBVIOUS
    <3>1. \A t \in window[v] : now >= t
      BY <1>0, Counted
    <3>2. Max(window[v]) \in window[v] /\ Max(window[v]) >= now
      BY <3>1 DEF Max
    <3> QED
      BY <1>0, <2>1, <3>2, Counted
  <2>3. Live(v)' = Live(v) /\ Recent(v)' = Recent(v)
    BY <2>1 DEF Live, Recent
  <2> QED
    BY <2>1, <2>2, <2>3 DEF Room
<1>8. CASE Retry(v)
  <2>1. /\ pc[v] = "backoff" /\ pc'[v] = "check" /\ UNCHANGED <<now, window, wake>>
    BY <1>0, <1>8 DEF Retry
  <2>2. Live(v)' = Live(v) /\ Recent(v)' = Recent(v)
    BY <2>1 DEF Live, Recent
  <2> QED
    BY <2>1, <2>2 DEF Room
<1>9. CASE Tick
  <2>1. now' = now + 1 /\ UNCHANGED <<pc, window, wake>>
    BY <1>9 DEF Tick
  <2>2. /\ window'[v] = window[v] /\ now' \in Nat
        /\ \A t \in window[v] : /\ t \in Nat
                                /\ ~(now' - t > Window) <=> now < t + Window
                                /\ now' < t + Window => now < t + Window
    BY <1>0, <2>1, Counted
  <2>3. Recent(v)' = Live(v) /\ Live(v)' \in SUBSET Live(v)
    BY <2>2 DEF Recent, Live
  <2>4. Cardinality(Live(v)') <= Cardinality(Live(v)) /\ Cardinality(Live(v)') \in Nat
    BY <2>3, Counted, FS_Subset, FS_CardinalityType
  <2> QED
    BY <1>0, <2>1, <2>3, <2>4, Counted DEF Room
<1> QED
  BY <1>1, <1>2, <1>3, <1>4, <1>5, <1>6, <1>7, <1>8, <1>9 DEF ThrottleNext

(* Calls of one job that count are as many as the times in its window.     *)
LEMMA CallsAreInWindow ==
  ASSUME Typed, LimitInv, NEW w \in Worker
  PROVE  InWindow({c \in sent : c.worker = w /\ c.job = job[w]}) <= Limit
<1> DEFINE Calls == {c \in {d \in sent : d.worker = w /\ d.job = job[w]} : now < c.at + Window}
           at == [t \in Live(w) |-> [worker |-> w, job |-> job[w], at |-> t]]
           Made == {at[t] : t \in Live(w)}
<1>1. at \in Surjection(Live(w), Made)
  BY DEF Surjection
<1>2. IsFiniteSet(Made) /\ Cardinality(Made) <= Cardinality(Live(w))
  BY <1>1, Counted, FS_Surjection
<1>3. Calls \in SUBSET Made
  <2> SUFFICES ASSUME NEW c \in Calls PROVE \E t \in Live(w) : c = at[t]
    OBVIOUS
  <2>1. c \in [worker : Worker, job : Nat, at : 0..now] /\ c.worker = w /\ c.job = job[w]
    BY DEF Typed, ThrottleTypeOK
  <2>2. c.at \in Live(w)
    BY DEF LimitInv, Remembered, Live
  <2>3. c = at[c.at]
    BY <2>1, <2>2
  <2> QED
    BY <2>2, <2>3
<1>4. Cardinality(Calls) <= Cardinality(Made) /\ Cardinality(Calls) \in Nat
  BY <1>2, <1>3, FS_Subset, FS_CardinalityType
<1>5. Cardinality(Made) \in Nat
  BY <1>2, FS_CardinalityType
<1>6. Cardinality(Calls) <= Limit
  BY <1>2, <1>4, <1>5, Counted, LimitAssumption DEF LimitInv, Room
<1> QED
  BY <1>6 DEF InWindow

(* No sixty seconds of one job see more calls than the limit, for any      *)
(* limit and window, although the window is not tested after a sleep.      *)
THEOREM JobStaysWithinLimit == ThrottleSpec => []JobWithinLimit
<1>1. Typed /\ LimitInv /\ [ThrottleNext]_throttleVars => LimitInv'
  BY NextRemembered, NextRoom DEF LimitInv
<1>2. Typed /\ LimitInv => JobWithinLimit
  BY CallsAreInWindow DEF JobWithinLimit
<1> QED
  BY <1>1, <1>2, InitTyped, NextTyped, InitLimit, PTL DEF ThrottleSpec
=============================================================================
