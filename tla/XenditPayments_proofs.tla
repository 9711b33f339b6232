------------------------- MODULE XenditPayments_proofs -------------------------
(***************************************************************************)
(* Theorems about the QRIS payments, for any number of deliveries, requests, *)
(* connections, invoices and contracts, and any number of crashes.         *)
(***************************************************************************)
EXTENDS XenditProperties, TLAPS

LEMMA RowNames ==
  /\ \A i \in Invoices : ClaimOf(i) \in Rows /\ InvoiceOf(i) \in Rows
  /\ \A k \in Contracts : ContractOf(k) \in Rows
  /\ \A i, j : /\ ClaimOf(i) # InvoiceOf(j) /\ ClaimOf(i) # ContractOf(j)
               /\ InvoiceOf(i) # ContractOf(j)
               /\ ClaimOf(i) = ClaimOf(j) => i = j
               /\ InvoiceOf(i) = InvoiceOf(j) => i = j
               /\ ContractOf(i) = ContractOf(j) => i = j
BY DEF Rows, ClaimOf, InvoiceOf, ContractOf

LEMMA EmptyRows == /\ Absent \in RowType /\ Unwritten \in RowType
                   /\ Unwritten.st = "unwritten" /\ Absent # Unwritten
BY DEF Absent, Unwritten, Row, RowType

LEMMA CleanIsTyped == /\ Clean \in [Rows -> RowType]
                      /\ \A r \in Rows : Clean[r] = Unwritten
BY EmptyRows DEF Clean
-----------------------------------------------------------------------------
(* What a statement, a COMMIT or a ROLLBACK means to the others.  lost are   *)
(* the connections whose transaction is undone, written the rows that are    *)
(* written, funded those that are written as FUNDED.                         *)

DbStep(lost, written, funded) ==
  /\ db' \in [Rows -> RowType]
  /\ tx' \in [Conns -> [Rows -> RowType]]
  /\ open' \subseteq Conns
  /\ nothingOutside'
  /\ \A c \in Conns \ lost, r \in Rows \ written :
       alone(c, r) => alone(c, r)' /\ Read(c, r)' = Read(c, r)
  /\ \A r \in Rows : fundedRow(r)' => fundedRow(r) \/ r \in funded

fundedIn(new) == {r \in DOMAIN new : new[r].st = "FUNDED"}

RowsOK(new) == DOMAIN new \subseteq Rows /\ \A r \in DOMAIN new : new[r] \in RowType

LEMMA RowsStill ==
  ASSUME DbTypeOK, nothingOutside, UNCHANGED <<db, tx>>,
         open \subseteq open', open' \subseteq Conns
  PROVE  DbStep({}, {}, {})
BY DEF DbTypeOK, DbStep, nothingOutside, alone, Read, fundedRow

LEMMA WriteStep ==
  ASSUME DbTypeOK, nothingOutside, UNCHANGED open, NEW c \in Conns, NEW new,
         RowsOK(new), Write(c, new)
  PROVE  DbStep({}, DOMAIN new, fundedIn(new))
<1> USE DEF DbTypeOK, RowsOK
<1>1. CASE c \in open
  <2>1. /\ db' = db
        /\ tx' = [tx EXCEPT ![c] = [r \in Rows |->
                     IF r \in DOMAIN new THEN new[r] ELSE tx[c][r]]]
    BY <1>1 DEF Write
  <2>2. tx' \in [Conns -> [Rows -> RowType]]
    BY <2>1
  <2>3. \A d \in Conns, r \in Rows \ DOMAIN new : tx'[d][r] = tx[d][r]
    BY <2>1
  <2>4. \A d \in Conns, r \in Rows : tx'[d][r] = tx[d][r] \/ (r \in DOMAIN new /\ tx'[d][r] = new[r])
    BY <2>1
  <2>5. nothingOutside'
    BY <1>1, <2>1 DEF nothingOutside
  <2> QED BY <2>1, <2>2, <2>3, <2>4, <2>5 DEF DbStep, alone, Read, fundedRow, fundedIn
<1>2. CASE c \notin open
  <2>1. /\ tx' = tx
        /\ db' = [r \in Rows |-> IF r \in DOMAIN new THEN new[r] ELSE db[r]]
    BY <1>2 DEF Write
  <2>2. nothingOutside'
    BY <2>1 DEF nothingOutside
  <2> QED BY <2>1, <2>2 DEF DbStep, alone, Read, fundedRow, fundedIn
<1> QED BY <1>1, <1>2

(* A transaction that is undone takes only its own rows with it.           *)
LEMMA RollbackStep ==
  ASSUME DbTypeOK, nothingOutside, NEW c \in Conns, Rollback(c)
  PROVE  DbStep({c}, {}, {})
<1> USE CleanIsTyped, EmptyRows DEF DbTypeOK
<1>1. db' = db /\ tx' = [tx EXCEPT ![c] = Clean] /\ open' = open \ {c}
  BY DEF Rollback
<1>2. tx' \in [Conns -> [Rows -> RowType]] /\ tx'[c] = Clean
  BY <1>1
<1>3. \A d \in Conns \ {c} : tx'[d] = tx[d]
  BY <1>1
<1>4. nothingOutside'
  BY <1>1, <1>2, <1>3 DEF nothingOutside
<1>5. \A d \in Conns \ {c}, r \in Rows :
        alone(d, r) => alone(d, r)' /\ Read(d, r)' = Read(d, r)
  BY <1>1, <1>2, <1>3 DEF alone, Read
<1>6. \A r \in Rows : fundedRow(r)' => fundedRow(r)
  BY <1>1, <1>2, <1>3 DEF fundedRow
<1> QED BY <1>1, <1>2, <1>4, <1>5, <1>6 DEF DbStep

(* The same when the rows of new are written and committed at once.  On a  *)
(* connection whose row somebody else has written, nothing is lost: they   *)
(* would not have let go of it.                                            *)
LEMMA WriteAndCommitStep ==
  ASSUME DbTypeOK, nothingOutside, NEW c \in Conns, NEW new,
         RowsOK(new), WriteAndCommit(c, new)
  PROVE  DbStep({}, DOMAIN new, fundedIn(new))
<1> USE CleanIsTyped, EmptyRows DEF DbTypeOK, RowsOK
<1>1. /\ db' = [r \in Rows |-> IF r \in DOMAIN new THEN new[r] ELSE Read(c, r)]
      /\ tx' = [tx EXCEPT ![c] = Clean] /\ open' = open \ {c}
  BY DEF WriteAndCommit
<1>2. tx' \in [Conns -> [Rows -> RowType]] /\ tx'[c] = Clean
  BY <1>1
<1>3. \A d \in Conns \ {c} : tx'[d] = tx[d]
  BY <1>1
<1>4. db' \in [Rows -> RowType]
  BY <1>1 DEF Read
<1>5. nothingOutside'
  BY <1>1, <1>2, <1>3 DEF nothingOutside
<1>6. ASSUME NEW d \in Conns, NEW r \in Rows \ DOMAIN new, alone(d, r)
      PROVE  alone(d, r)' /\ Read(d, r)' = Read(d, r)
  <2>1. db'[r] = Read(c, r)
    BY <1>1
  <2>2. CASE d = c
    BY <1>2, <1>3, <1>6, <2>1, <2>2 DEF alone, Read
  <2>3. CASE d # c
    <3>1. tx[c][r] = Unwritten
      BY <1>6, <2>3 DEF alone
    <3>2. db'[r] = db[r]
      BY <2>1, <3>1 DEF Read
    <3> QED BY <1>2, <1>3, <1>6, <2>3, <3>2 DEF alone, Read
  <2> QED BY <2>2, <2>3
<1>7. \A r \in Rows : fundedRow(r)' => fundedRow(r) \/ r \in fundedIn(new)
  BY <1>1, <1>2, <1>3 DEF fundedRow, fundedIn, Read
<1> QED BY <1>1, <1>2, <1>4, <1>5, <1>6, <1>7 DEF DbStep

LEMMA CommitStep ==
  ASSUME DbTypeOK, nothingOutside, NEW c \in Conns, Commit(c)
  PROVE  DbStep({}, {}, {})
<1> DEFINE new == [r \in {} |-> Absent]
<1>1. DOMAIN new = {}
  OBVIOUS
<1>2. RowsOK(new) /\ fundedIn(new) = {}
  BY <1>1 DEF RowsOK, fundedIn
<1>3. WriteAndCommit(c, new)
  BY <1>1 DEF Commit, WriteAndCommit, Writable
<1> QED BY <1>1, <1>2, <1>3, WriteAndCommitStep

LEMMA CloseAllStep ==
  ASSUME DbTypeOK, nothingOutside, CloseAll
  PROVE  DbStep(Conns, {}, {})
<1> USE CleanIsTyped, EmptyRows DEF DbTypeOK
<1>1. db' = db /\ tx' = [c \in Conns |-> Clean] /\ open' = {}
  BY DEF CloseAll
<1>2. nothingOutside'
  BY <1>1 DEF nothingOutside
<1>3. \A r \in Rows : fundedRow(r)' => fundedRow(r)
  BY <1>1 DEF fundedRow
<1> QED BY <1>1, <1>2, <1>3 DEF DbStep
-----------------------------------------------------------------------------
(* What a step of p does to the pool, to the locks and to the world, as far *)
(* as the others can tell.                                                 *)

OwnStep(p, lost) ==
  /\ owner' \in [Conns -> Callers \cup {NoOne}]
  /\ held' \in [Conns -> [Invoices -> Nat]]
  /\ oneLockHolder'
  /\ \A c \in Conns : owner'[c] # owner[c] \/ c \in lost => owner[c] \in {NoOne, p}
  /\ \A c \in Conns, i \in Invoices : owner[c] \in {NoOne, p} \/ held'[c][i] >= held[c][i]

WorldStep(p) ==
  /\ xendit' \in [Invoices -> [st : {"none", "PENDING", "PAID", "SETTLED", "EXPIRED"},
                              of : Contracts \cup {NoOne}]]
  /\ chain' \in [Contracts -> {"CREATED", "FUNDED"}]
  /\ sent' \in [Callers -> [Contracts -> {"none", "pending", "mined", "reverted"}]]
  /\ \A i \in Invoices :
       /\ xendit[i].st # "none" => xendit'[i].st # "none" /\ xendit'[i].of = xendit[i].of
       /\ Paid(i) => Paid(i)'
  /\ \A k \in Contracts : chain[k] = "FUNDED" => chain'[k] = "FUNDED"
  /\ \A q \in Callers, k \in Contracts :
       q # p /\ sent[q][k] = "mined" => sent'[q][k] = "mined"
  /\ invoicesNamed'
  /\ fundedOnce'

HookTypes ==
  [pc : Borrowing \cup {"idle", "release", "commit", "done"},
   conn : Conns \cup {NoOne}, inv : Invoices \cup {NoInvoice}, seen : Nat,
   lock : BOOLEAN, res : Results, told : {"nothing", "success", "failure"}]

ReqTypes ==
  [pc : {"idle", "check", "post", "save", "done"}, conn : Conns \cup {NoOne},
   of : Contracts \cup {NoOne}, inv : Invoices \cup {NoInvoice}]

JobTypes ==
  [pc : {"idle", "next", "create", "submit", "wait", "update", "record"},
   todo : SUBSET Invoices, found : SUBSET Invoices,
   paid : SUBSET (Invoices \X Nat), inv : Invoices \cup {NoInvoice}, seen : Nat]

LEMMA Typed == TypeOK => /\ DbTypeOK
                         /\ hook \in [Webhooks -> HookTypes]
                         /\ req \in [Requests -> ReqTypes]
                         /\ job \in JobTypes
BY DEF TypeOK, HookTypes, ReqTypes, JobTypes

\* Rows that may be written as FUNDED.
backed(r) ==
  /\ \A k \in Contracts : r = ContractOf(k) => chain[k] = "FUNDED"
  /\ \A i \in Invoices :
       r = InvoiceOf(i) => posted(i) /\ chain[xendit[i].of] = "FUNDED"

hookKept(w, p, written) ==
  /\ w # p /\ hook'[w] = hook[w]
  /\ w \in Processing => ClaimOf(hook[w].inv) \notin written

LEMMA OtherHook ==
  ASSUME IInv, NEW p, NEW lost, NEW written, NEW funded,
         DbStep(lost, written, funded), OwnStep(p, lost), WorldStep(p),
         NEW w \in Webhooks, hookKept(w, p, written)
  PROVE  hookSound(w)'
<1> DEFINE c == hook[w].conn
           i == hook[w].inv
<1> USE DEF hookKept
<1>1. hookSound(w) /\ w \in Callers /\ w # NoOne
  BY CallersAssumption, NoOneIsNoCaller DEF IInv
<1>2. hook[w].pc # "idle" => i \in Invoices /\ Paid(i)'
  BY <1>1 DEF hookSound, WorldStep
<1>3. hook[w].pc \in Borrowing => c \in Conns /\ owner'[c] = w /\ c \notin lost
  BY <1>1 DEF hookSound, OwnStep
<1>7. ASSUME w \in Processing \/ hook[w].pc \in {"select", "insert"}
      PROVE  c \in Conns \ lost /\ i \in Invoices /\ held'[c][i] > 0
  <2>1. hook[w].pc \in Borrowing /\ hook[w].pc # "idle"
    BY <1>7 DEF Processing, Borrowing
  <2>2. c \in Conns \ lost /\ i \in Invoices /\ owner[c] = w
    BY <1>1, <1>2, <1>3, <2>1 DEF hookSound
  <2>3. held[c][i] \in Nat /\ held'[c][i] \in Nat
    BY <2>2 DEF IInv, TypeOK, DbTypeOK, OwnStep
  <2>4. held[c][i] > 0 /\ owner[c] \notin {NoOne, p}
    BY <1>1, <1>7, <2>2 DEF hookSound
  <2>5. held'[c][i] > 0
    BY <2>2, <2>3, <2>4 DEF OwnStep
  <2> QED BY <2>2, <2>5
<1>4. ASSUME w \in Processing
      PROVE  /\ hook[w].lock
             /\ held'[c][i] > 0
             /\ alone(c, ClaimOf(i))'
             /\ Read(c, ClaimOf(i))'.by = w
  <2>2. c \in Conns \ lost /\ i \in Invoices /\ held'[c][i] > 0
    BY <1>4, <1>7
  <2>5. ClaimOf(i) \in Rows \ written
    BY <1>4, <2>2, RowNames
  <2>6. alone(c, ClaimOf(i)) /\ Read(c, ClaimOf(i)).by = w /\ hook[w].lock
    BY <1>1, <1>4 DEF hookSound
  <2>7. alone(c, ClaimOf(i))' /\ Read(c, ClaimOf(i))' = Read(c, ClaimOf(i))
    BY <2>2, <2>5, <2>6 DEF DbStep
  <2> QED BY <2>2, <2>6, <2>7
<1>5. hook[w].pc = "store" \/ hook[w].res = "SUCCESS" => sent'[w][HookContract(w)'] = "mined"
  <2> SUFFICES ASSUME hook[w].pc = "store" \/ hook[w].res = "SUCCESS"
               PROVE  sent'[w][HookContract(w)'] = "mined"
    OBVIOUS
  <2>1. hook[w].pc # "idle"
    BY <1>1 DEF hookSound
  <2>2. i \in Invoices /\ xendit[i].st # "none"
    BY <1>1, <2>1 DEF hookSound, Paid
  <2>3. HookContract(w)' = HookContract(w) /\ HookContract(w) \in Contracts
    BY <2>2 DEF WorldStep, HookContract, IInv, invoicesNamed, posted
  <2>4. sent[w][HookContract(w)] = "mined"
    BY <1>1 DEF hookSound
  <2> QED BY <1>1, <2>3, <2>4 DEF WorldStep
<1>6. w \in Processing' <=> w \in Processing
  BY DEF Processing
<1> QED BY <1>1, <1>2, <1>3, <1>4, <1>5, <1>6, <1>7 DEF hookSound

LEMMA StepKeeps ==
  ASSUME IInv, NEW p, NEW lost, NEW written, NEW funded,
         DbStep(lost, written, funded), OwnStep(p, lost), WorldStep(p),
         \A r \in funded : backed(r),
         hook' \in [Webhooks -> HookTypes], req' \in [Requests -> ReqTypes],
         job' \in JobTypes,
         \A w \in Webhooks : hookSound(w)' \/ hookKept(w, p, written),
         \A q \in Requests : reqSound(q)' \/ (q # p /\ req'[q] = req[q]),
         jobSound' \/ UNCHANGED job
  PROVE  IInv'
<1>1. TypeOK'
  BY DEF TypeOK, DbTypeOK, DbStep, OwnStep, WorldStep, HookTypes, ReqTypes, JobTypes
<1>2. \A w \in Webhooks : hookSound(w)'
  BY OtherHook
<1>3. \A q \in Requests : reqSound(q)'
  <2> SUFFICES ASSUME NEW q \in Requests, q # p, req'[q] = req[q]
               PROVE  reqSound(q)'
    OBVIOUS
  <2>1. reqSound(q) /\ q \in Callers /\ q # NoOne
    BY CallersAssumption, NoOneIsNoCaller DEF IInv
  <2> QED BY <2>1 DEF reqSound, OwnStep
<1>4. jobSound'
  <2> SUFFICES ASSUME UNCHANGED job PROVE jobSound'
    OBVIOUS
  <2>1. jobSound /\ job \in JobTypes
    BY Typed DEF IInv
  <2>2. \A i \in Invoices : Paid(i) =>
           Paid(i)' /\ xendit'[i].of = xendit[i].of /\ xendit[i].of \in Contracts
    BY DEF WorldStep, Paid, IInv, invoicesNamed, posted
  <2>3. \A i \in job.todo : i \in Invoices
    BY <2>1 DEF JobTypes
  <2> QED BY <2>1, <2>2, <2>3 DEF jobSound, WorldStep
<1>5. invoicesNamed' /\ nothingOutside' /\ oneLockHolder' /\ fundedOnce'
  BY DEF WorldStep, DbStep, OwnStep
<1>6. rowsBacked'
  <2>1. \A r \in Rows : fundedRow(r)' => fundedRow(r) \/ backed(r)
    BY DEF DbStep
  <2>2. ASSUME NEW k \in Contracts, fundedRow(ContractOf(k))'
        PROVE  chain'[k] = "FUNDED"
    BY <2>1, <2>2, RowNames DEF backed, IInv, rowsBacked, WorldStep
  <2>3. ASSUME NEW i \in Invoices, fundedRow(InvoiceOf(i))'
        PROVE  posted(i)' /\ chain'[xendit'[i].of] = "FUNDED"
    <3>1. posted(i) /\ chain[xendit[i].of] = "FUNDED"
      BY <2>1, <2>3, RowNames DEF backed, IInv, rowsBacked
    <3> QED BY <3>1 DEF posted, WorldStep
  <2> QED BY <2>2, <2>3 DEF rowsBacked
<1> QED BY <1>1, <1>2, <1>3, <1>4, <1>5, <1>6 DEF IInv

LEMMA WorldStill ==
  ASSUME IInv, NEW p, UNCHANGED <<xendit, chain>>,
         sent' \in [Callers -> [Contracts -> {"none", "pending", "mined", "reverted"}]],
         \A q \in Callers, k \in Contracts :
           /\ sent'[q][k] = "mined" => sent[q][k] = "mined"
           /\ q # p => sent'[q][k] = sent[q][k]
  PROVE  WorldStep(p)
BY DEF IInv, TypeOK, WorldStep, Paid, invoicesNamed, posted, fundedOnce

LEMMA WorldSame ==
  ASSUME IInv, NEW p, UNCHANGED <<xendit, ledgerVars>>
  PROVE  WorldStep(p)
BY WorldStill DEF ledgerVars, IInv, TypeOK

LEMMA WorldSubmit ==
  ASSUME IInv, NEW p \in Callers, NEW k \in Contracts, Submit(p, k),
         UNCHANGED <<xendit, chain>>
  PROVE  WorldStep(p)
<1>1. sent' \in [Callers -> [Contracts -> {"none", "pending", "mined", "reverted"}]]
  BY DEF Submit, IInv, TypeOK
<1>2. \A q \in Callers, j \in Contracts :
        /\ sent'[q][j] = "mined" => sent[q][j] = "mined"
        /\ q # p => sent'[q][j] = sent[q][j]
  BY DEF Submit, IInv, TypeOK
<1> QED BY <1>1, <1>2, WorldStill

LEMMA OwnStill ==
  ASSUME IInv, NEW p, UNCHANGED <<owner, held>>
  PROVE  OwnStep(p, {})
BY DEF IInv, TypeOK, DbTypeOK, OwnStep, oneLockHolder

LEMMA OwnBorrow ==
  ASSUME IInv, NEW p \in Callers, NEW c \in Conns, Borrow(p, c), UNCHANGED held
  PROVE  OwnStep(p, {}) /\ owner'[c] = p
BY DEF IInv, TypeOK, DbTypeOK, OwnStep, oneLockHolder, Borrow, Free

LEMMA OwnGiveBack ==
  ASSUME IInv, NEW p, NEW c \in Conns, owner[c] = p, GiveBack(c), UNCHANGED held,
         NEW lost \in {{}, {c}}
  PROVE  OwnStep(p, lost)
BY DEF IInv, TypeOK, DbTypeOK, OwnStep, oneLockHolder, GiveBack
-----------------------------------------------------------------------------
(* The handlers of the webhooks.                                           *)

LEMMA HookStepKeeps ==
  ASSUME IInv, NEW w \in Webhooks, NEW lost, NEW written, NEW funded,
         DbStep(lost, written, funded), OwnStep(w, lost), WorldStep(w),
         \A r \in funded : backed(r), UNCHANGED <<req, job>>,
         NEW h \in HookTypes, hook' = [hook EXCEPT ![w] = h],
         \A v \in Processing \ {w} : ClaimOf(hook[v].inv) \notin written,
         hookSound(w)'
  PROVE  IInv'
<1>1. hook' \in [Webhooks -> HookTypes]
  BY Typed DEF IInv
<1>2. \A v \in Webhooks \ {w} : hookKept(v, w, written)
  BY Typed DEF hookKept, IInv
<1>3. req' \in [Requests -> ReqTypes] /\ job' \in JobTypes
  BY Typed DEF IInv
<1>4. \A q \in Requests : q # w /\ req'[q] = req[q]
  BY DistinctAssumption
<1> QED BY <1>1, <1>2, <1>3, <1>4, StepKeeps

(* The same where nothing is written.                                      *)
LEMMA HookQuietStep ==
  ASSUME IInv, NEW w \in Webhooks, NEW lost,
         DbStep(lost, {}, {}), OwnStep(w, lost), WorldStep(w), UNCHANGED <<req, job>>,
         NEW h \in HookTypes, hook' = [hook EXCEPT ![w] = h],
         hookSound(w)'
  PROVE  IInv'
<1> PICK none : none = {}
  OBVIOUS
<1>1. DbStep(lost, none, none)
  OBVIOUS
<1>2. /\ \A r \in none : backed(r)
      /\ \A v \in Processing \ {w} : ClaimOf(hook[v].inv) \notin none
  OBVIOUS
<1> QED BY <1>1, <1>2, HookStepKeeps

(* A handler that has nothing of the pool left but a COMMIT to come.       *)
LEMMA HookRests ==
  ASSUME IInv, NEW w \in Webhooks, hook[w].pc # "idle",
         hook'[w].pc \in {"release", "commit", "done", "catch"},
         hook'[w].inv = hook[w].inv, UNCHANGED xendit,
         hook'[w].res = "SUCCESS" =>
           /\ hook'[w].pc # "catch" /\ UNCHANGED sent
           /\ hook[w].pc = "store" \/ hook[w].res = "SUCCESS",
         hook'[w].pc = "release" => hook'[w].res \in ClaimStatus,
         hook'[w].pc = "catch" => hook'[w].conn \in Conns /\ owner'[hook'[w].conn] = w
  PROVE  hookSound(w)'
<1>1. hookSound(w)
  BY DEF IInv
<1>2. w \notin Processing'
  BY DEF Processing
<1> QED BY <1>1, <1>2 DEF hookSound, Borrowing, Paid, HookContract

LEMMA HookFacts ==
  ASSUME IInv, NEW w \in Webhooks
  PROVE  /\ hook[w] \in HookTypes /\ hookSound(w) /\ DbTypeOK /\ nothingOutside
         /\ w \in Callers /\ w # NoOne
         /\ hook[w].pc # "idle" =>
              /\ hook[w].inv \in Invoices /\ posted(hook[w].inv)
              /\ HookContract(w) \in Contracts
<1>1. hook[w] \in HookTypes /\ hookSound(w) /\ DbTypeOK /\ nothingOutside
  BY Typed DEF IInv
<1>2. w \in Callers /\ w # NoOne
  BY CallersAssumption, NoOneIsNoCaller
<1> QED BY <1>1, <1>2 DEF hookSound, IInv, invoicesNamed, posted, Paid, HookContract

(* Throw: nothing of the handler's transaction stays.                      *)
LEMMA ThrowKeeps ==
  ASSUME IInv, NEW w \in Webhooks, hook[w].pc \in Borrowing, Throw(w),
         UNCHANGED <<ledgerVars, hookUnchanged>>
  PROVE  IInv'
<1> DEFINE h == [hook[w] EXCEPT !.res = "UNKNOWN_ERROR", !.pc = "catch"]
<1> PICK c \in Conns : c = hook[w].conn /\ owner[c] = w
  BY HookFacts DEF hookSound
<1>1. DbStep({c}, {}, {})
  BY HookFacts, RollbackStep DEF Throw
<1>2. OwnStep(w, {c})
  BY DEF Throw, IInv, TypeOK, DbTypeOK, OwnStep, oneLockHolder
<1>3. WorldStep(w) /\ UNCHANGED <<req, job, xendit, sent>>
  BY WorldSame DEF hookUnchanged, envVars, jobVars, ledgerVars
<1>4. h \in HookTypes /\ hook' = [hook EXCEPT ![w] = h] /\ hook'[w] = h
  <2>1. h \in HookTypes
    <3>1. hook[w] \in HookTypes
      BY HookFacts
    <3> QED BY <3>1 DEF HookTypes, Borrowing, Results
  <2>2. hook \in [Webhooks -> HookTypes] /\ hook' = [hook EXCEPT ![w] = h]
    BY Typed DEF Throw, IInv
  <2> HIDE DEF h
  <2> QED BY <2>1, <2>2
<1>5. hookSound(w)'
  BY <1>3, <1>4, HookFacts, HookRests DEF HookTypes, Throw, Borrowing
<1>6. UNCHANGED <<req, job>>
  BY <1>3
<1> HIDE DEF h
<1> QED BY <1>1, <1>2, <1>3, <1>4, <1>5, <1>6, HookQuietStep

(* Return and what is written before it, on the handler's own connection.  *)
LEMMA ReturnKeeps ==
  ASSUME IInv, NEW w \in Webhooks, hook[w].pc \in Borrowing, NEW res \in Results,
         Return(w, res), UNCHANGED held, WorldStep(w),
         UNCHANGED hookUnchanged,
         NEW written, NEW funded, DbStep({}, written, funded),
         \A i : ClaimOf(i) \notin written, \A r \in funded : backed(r),
         res = "SUCCESS" => hook[w].pc = "store" /\ UNCHANGED sent,
         hook[w].lock => res \in ClaimStatus
  PROVE  IInv'
<1> DEFINE h == [hook[w] EXCEPT !.res = res,
                   !.pc = IF hook[w].lock THEN "release" ELSE "commit"]
<1> PICK c \in Conns : c = hook[w].conn /\ owner[c] = w
  BY HookFacts DEF hookSound
<1>1. OwnStep(w, {})
  BY OwnGiveBack DEF Return
<1>2. UNCHANGED <<req, job, xendit>>
  BY DEF hookUnchanged, envVars, jobVars
<1>3. h \in HookTypes /\ hook' = [hook EXCEPT ![w] = h] /\ hook'[w] = h
  <2>1. h \in HookTypes
    <3>1. hook[w] \in HookTypes
      BY HookFacts
    <3> QED BY <3>1 DEF HookTypes
  <2>2. hook \in [Webhooks -> HookTypes] /\ hook' = [hook EXCEPT ![w] = h]
    BY Typed DEF Return, IInv
  <2> HIDE DEF h
  <2> QED BY <2>1, <2>2
<1>4. hookSound(w)'
  <2>1. /\ h.pc \in {"release", "commit"} /\ h.inv = hook[w].inv /\ h.res = res
        /\ h.pc = "release" => res \in ClaimStatus
    BY HookFacts DEF HookTypes
  <2> HIDE DEF h
  <2> QED BY <1>2, <1>3, <2>1, HookFacts, HookRests DEF Borrowing
<1> HIDE DEF h
<1> QED BY <1>1, <1>2, <1>3, <1>4, HookStepKeeps

(* A step of the handler between the claim and the store: its own label    *)
(* and what it has read, and nothing of the pool.                          *)
LEMMA WorkGoesOn ==
  ASSUME IInv, NEW w \in Webhooks, w \in Processing, NEW seen \in Nat,
         NEW label \in {"status", "submit", "wait", "store"},
         hook' = [hook EXCEPT ![w] = [hook[w] EXCEPT !.pc = label, !.seen = seen]],
         UNCHANGED <<dbVars, chain>>, UNCHANGED hookUnchanged, WorldStep(w),
         label = "store" => sent'[w][HookContract(w)] = "mined"
  PROVE  IInv'
<1> DEFINE h == [hook[w] EXCEPT !.pc = label, !.seen = seen]
<1>1. hook[w].pc \in Borrowing /\ hook[w].pc # "idle" /\ hook[w].res # "SUCCESS"
  BY HookFacts DEF Processing, Borrowing, hookSound
<1>2. DbStep({}, {}, {}) /\ OwnStep(w, {})
  BY HookFacts, RowsStill, OwnStill DEF dbVars, DbTypeOK
<1>3. UNCHANGED <<req, job, xendit>>
  BY DEF hookUnchanged, envVars, jobVars
<1>4. h \in HookTypes /\ hook' = [hook EXCEPT ![w] = h] /\ hook'[w] = h
  <2>1. h \in HookTypes
    <3>1. hook[w] \in HookTypes
      BY HookFacts
    <3> QED BY <3>1 DEF HookTypes, Borrowing
  <2>2. hook \in [Webhooks -> HookTypes] /\ hook' = [hook EXCEPT ![w] = h]
    BY Typed DEF IInv
  <2> HIDE DEF h
  <2> QED BY <2>1, <2>2
<1>5. w \in Processing'
  BY <1>4, HookFacts DEF Processing, HookTypes
<1>6. hookSound(w)'
  <2> PICK c, i : c = hook[w].conn /\ i = hook[w].inv
    OBVIOUS
  <2>1. /\ h.conn = c /\ h.inv = i /\ h.pc = label
        /\ h.lock = hook[w].lock /\ h.res = hook[w].res
    BY HookFacts DEF HookTypes
  <2>2. HookContract(w)' = HookContract(w)
    BY <1>3, <1>4, <2>1 DEF HookContract
  <2>3. Paid(i)' <=> Paid(i)
    BY <1>3 DEF Paid
  <2>4. /\ alone(c, ClaimOf(i))' <=> alone(c, ClaimOf(i))
        /\ Read(c, ClaimOf(i))' = Read(c, ClaimOf(i))
    BY DEF alone, Read, dbVars
  <2>5. /\ hook[w].lock /\ held[c][i] > 0 /\ alone(c, ClaimOf(i))
        /\ Read(c, ClaimOf(i)).by = w /\ c \in Conns /\ owner[c] = w
        /\ i \in Invoices /\ Paid(i)
    BY <1>1, HookFacts DEF hookSound
  <2>6. UNCHANGED <<held, owner>>
    BY DEF dbVars
  <2>7. /\ hook'[w].conn = c /\ hook'[w].inv = i /\ hook'[w].pc = label
        /\ hook'[w].lock /\ hook'[w].res # "SUCCESS"
    BY <1>1, <1>4, <2>1, <2>5
  <2> HIDE DEF h
  <2> QED BY <1>5, <2>2, <2>3, <2>4, <2>5, <2>6, <2>7 DEF hookSound
<1> HIDE DEF h
<1> QED BY <1>2, <1>3, <1>4, <1>6, HookQuietStep

LEMMA ReturnQuiet ==
  ASSUME IInv, NEW w \in Webhooks, hook[w].pc \in Borrowing,
         NEW res \in Results \ {"SUCCESS"}, Return(w, res),
         UNCHANGED <<db, tx, open, held>>, UNCHANGED hookUnchanged, WorldStep(w),
         hook[w].lock => res \in ClaimStatus
  PROVE  IInv'
<1> PICK none : none = {}
  OBVIOUS
<1>1. DbStep({}, none, none)
  BY HookFacts, RowsStill DEF DbTypeOK
<1>2. /\ \A r \in none : backed(r)
      /\ \A i : ClaimOf(i) \notin none
  OBVIOUS
<1> QED BY <1>1, <1>2, ReturnKeeps

LEMMA DeliverStep ==
  ASSUME IInv, NEW w \in Webhooks, NEW i \in Invoices, Deliver(w, i)
  PROVE  IInv'
<1> USE DEF Deliver
<1>1. /\ hook[w] \in HookTypes /\ hookSound(w) /\ w \in Callers
      /\ DbTypeOK /\ nothingOutside /\ hook \in [Webhooks -> HookTypes]
  BY HookFacts, Typed DEF IInv
<1>2. ~hook[w].lock /\ hook[w].res # "SUCCESS" /\ Paid(i)
  BY <1>1 DEF hookSound
<1>3. /\ UNCHANGED <<req, job, xendit, sent, held, db, tx>> /\ WorldStep(w)
      /\ Paid(i)'
  BY WorldSame DEF hookUnchanged, envVars, ledgerVars, jobVars, Paid
<1>4. ASSUME NEW c \in Conns, Borrow(w, c),
             hook' = [hook EXCEPT ![w] = [hook[w] EXCEPT !.pc = "claim", !.conn = c, !.inv = i]]
      PROVE  IInv'
  <2> DEFINE h == [hook[w] EXCEPT !.pc = "claim", !.conn = c, !.inv = i]
  <2>1. DbStep({}, {}, {})
    BY <1>1, <1>3, <1>4, RowsStill DEF Borrow, DbTypeOK
  <2>2. OwnStep(w, {}) /\ owner'[c] = w
    BY <1>1, <1>3, <1>4, OwnBorrow
  <2>3. /\ h \in HookTypes /\ h.pc = "claim" /\ h.conn = c /\ h.inv = i
        /\ ~h.lock /\ h.res # "SUCCESS"
    BY <1>1, <1>2 DEF HookTypes, Borrowing
  <2>4. hook' = [hook EXCEPT ![w] = h] /\ hook'[w] = h
    BY <1>1, <1>4
  <2> HIDE DEF h
  <2>5. hookSound(w)'
    BY <1>3, <2>2, <2>3, <2>4 DEF hookSound, Processing
  <2> QED BY <1>3, <2>1, <2>2, <2>3, <2>4, <2>5, HookQuietStep
<1>5. ASSUME NEW c \in Free, open' = open \cup {c}, UNCHANGED owner,
             hook' = [hook EXCEPT ![w] = [hook[w] EXCEPT
                        !.pc = "commit", !.conn = c, !.inv = i, !.res = "REFUSED"]]
      PROVE  IInv'
  <2> DEFINE h == [hook[w] EXCEPT !.pc = "commit", !.conn = c, !.inv = i,
                                  !.res = "REFUSED"]
  <2>1. DbStep({}, {}, {}) /\ OwnStep(w, {})
    BY <1>1, <1>3, <1>5, RowsStill, OwnStill DEF Free, DbTypeOK
  <2>2. /\ h \in HookTypes /\ h.pc = "commit" /\ h.inv = i /\ h.res = "REFUSED"
    BY <1>1 DEF HookTypes, Free, Results
  <2>3. hook' = [hook EXCEPT ![w] = h] /\ hook'[w] = h
    BY <1>1, <1>5
  <2> HIDE DEF h
  <2>4. hookSound(w)'
    BY <1>3, <2>2, <2>3 DEF hookSound, Processing, Borrowing
  <2> QED BY <1>3, <2>1, <2>2, <2>3, <2>4, HookQuietStep
<1>6. ASSUME UNCHANGED <<owner, open>>,
             hook' = [hook EXCEPT ![w] = [hook[w] EXCEPT !.pc = "done", !.inv = i,
                        !.res = "UNKNOWN_ERROR", !.told = "failure"]]
      PROVE  IInv'
  <2> DEFINE h == [hook[w] EXCEPT !.pc = "done", !.inv = i,
                     !.res = "UNKNOWN_ERROR", !.told = "failure"]
  <2>1. DbStep({}, {}, {}) /\ OwnStep(w, {})
    BY <1>1, <1>3, <1>6, RowsStill, OwnStill DEF DbTypeOK
  <2>2. /\ h \in HookTypes /\ h.pc = "done" /\ h.inv = i /\ h.res = "UNKNOWN_ERROR"
    BY <1>1 DEF HookTypes, Results
  <2>3. hook' = [hook EXCEPT ![w] = h] /\ hook'[w] = h
    BY <1>1, <1>6
  <2> HIDE DEF h
  <2>4. hookSound(w)'
    BY <1>3, <2>2, <2>3 DEF hookSound, Processing, Borrowing
  <2> QED BY <1>3, <2>1, <2>2, <2>3, <2>4, HookQuietStep
<1> QED BY <1>4, <1>5, <1>6 DEF StartProcessing

(* What has been written on a connection is what it reads, and nobody else *)
(* has written there.                                                      *)
LEMMA WriteLands ==
  ASSUME DbTypeOK, nothingOutside, NEW c \in Conns, NEW r \in Rows,
         NEW row \in RowType, row # Unwritten, Write(c, [x \in {r} |-> row])
  PROVE  alone(c, r)' /\ Read(c, r)' = row
<1> USE DEF DbTypeOK
<1>1. \A d \in Conns \ {c} : tx[d][r] = Unwritten
  BY DEF Write, Writable
<1>2. CASE c \in open
  <2>1. tx' = [tx EXCEPT ![c] = [x \in Rows |-> IF x \in {r} THEN row ELSE tx[c][x]]]
    BY <1>2 DEF Write
  <2> QED BY <1>1, <2>1 DEF alone, Read
<1>3. CASE c \notin open
  <2>1. tx' = tx /\ db'[r] = row
    BY <1>3 DEF Write
  <2>2. tx[c][r] = Unwritten
    BY <1>3, CleanIsTyped DEF nothingOutside
  <2> QED BY <1>1, <2>1, <2>2 DEF alone, Read
<1> QED BY <1>2, <1>3

(* acquireProcessingLock: first the advisory lock of the invoice.          *)
LEMMA TryAdvisoryLockStep ==
  ASSUME IInv, NEW w \in Webhooks, TryAdvisoryLock(w)
  PROVE  IInv'
<1> PICK c, i : c = hook[w].conn /\ i = hook[w].inv
  OBVIOUS
<1>1. hook[w].pc = "claim" /\ hook[w].pc \in Borrowing
  BY DEF TryAdvisoryLock, Borrowing
<1>2. /\ c \in Conns /\ i \in Invoices /\ owner[c] = w /\ Paid(i) /\ ~hook[w].lock
      /\ hook[w] \in HookTypes /\ DbTypeOK /\ nothingOutside /\ w \in Callers
      /\ hook[w].res # "SUCCESS" /\ hook \in [Webhooks -> HookTypes]
  BY <1>1, HookFacts, Typed DEF hookSound, IInv
<1>3. /\ UNCHANGED <<db, tx, open>> /\ UNCHANGED hookUnchanged
      /\ WorldStep(w) /\ UNCHANGED <<req, job>> /\ UNCHANGED xendit
  BY WorldSame DEF TryAdvisoryLock, hookUnchanged, envVars, jobVars
<1>4. CASE ~TryLock(c, i)
  <2>1. Return(w, "DUPLICATE") /\ UNCHANGED held
    BY <1>4 DEF TryAdvisoryLock
  <2> QED BY <1>1, <1>2, <1>3, <2>1, ReturnQuiet DEF Results
<1>5. CASE TryLock(c, i)
  <2> DEFINE h == [hook[w] EXCEPT !.pc = "select"]
  <2>1. /\ held' = Locked(c, i) /\ UNCHANGED owner
        /\ hook' = [hook EXCEPT ![w] = h]
    BY <1>5 DEF TryAdvisoryLock
  <2>2. DbStep({}, {}, {})
    BY <1>2, <1>3, RowsStill DEF DbTypeOK
  <2>3. held \in [Conns -> [Invoices -> Nat]] /\ oneLockHolder
    BY <1>2 DEF DbTypeOK, IInv
  <2>4. /\ held' \in [Conns -> [Invoices -> Nat]] /\ held'[c][i] = held[c][i] + 1
        /\ \A d \in Conns, j \in Invoices : d # c \/ j # i => held'[d][j] = held[d][j]
    BY <1>2, <2>1, <2>3 DEF Locked
  <2>5. oneLockHolder'
    BY <1>2, <1>5, <2>3, <2>4 DEF oneLockHolder, TryLock
  <2>6. \A d \in Conns, j \in Invoices : owner[d] \in {NoOne, w} \/ held'[d][j] >= held[d][j]
    <3> SUFFICES ASSUME NEW d \in Conns, NEW j \in Invoices, d # c
                 PROVE  held'[d][j] >= held[d][j]
      BY <1>2
    <3>1. held[d][j] \in Nat /\ held'[d][j] = held[d][j]
      BY <2>3, <2>4
    <3> QED BY <3>1
  <2>7. OwnStep(w, {})
    BY <1>2, <2>1, <2>4, <2>5, <2>6 DEF OwnStep, DbTypeOK
  <2>8. held'[c][i] > 0
    <3>1. held[c][i] \in Nat
      BY <1>2, <2>3
    <3> QED BY <2>4, <3>1
  <2>9. /\ h \in HookTypes /\ h.pc = "select" /\ ~h.lock /\ h.conn = c /\ h.inv = i
        /\ h.res # "SUCCESS" /\ hook'[w] = h
    BY <1>2, <2>1 DEF HookTypes, Borrowing
  <2>10. Paid(i)' /\ owner'[c] = w
    BY <1>2, <1>3, <2>1 DEF Paid
  <2>11. hook' = [hook EXCEPT ![w] = h]
    BY <2>1
  <2> HIDE DEF h
  <2>12. hookSound(w)'
    BY <1>2, <2>8, <2>9, <2>10 DEF hookSound, Processing
  <2> QED BY <1>3, <2>2, <2>7, <2>9, <2>11, <2>12, HookQuietStep
<1> QED BY <1>4, <1>5

(* While a handler holds the advisory lock of its invoice nobody else is at *)
(* work on that invoice.                                                   *)
LEMMA LockKeepsOthersOut ==
  ASSUME IInv, NEW w \in Webhooks, hook[w].pc \in {"select", "insert"}
  PROVE  \A v \in Processing \ {w} : ClaimOf(hook[v].inv) # ClaimOf(hook[w].inv)
<1> SUFFICES ASSUME NEW v \in Processing \ {w}, hook[v].inv = hook[w].inv
             PROVE  FALSE
  BY RowNames
<1>1. /\ v \in Webhooks /\ hook[v].pc \in Borrowing /\ hook[w].pc \in Borrowing
      /\ hook[w].pc # "idle"
  BY DEF Processing, Borrowing
<1>2. /\ hook[v].conn \in Conns /\ owner[hook[v].conn] = v
      /\ hook[w].conn \in Conns /\ owner[hook[w].conn] = w
      /\ hook[w].inv \in Invoices
  BY <1>1, HookFacts DEF hookSound
<1>3. held[hook[v].conn][hook[w].inv] > 0 /\ held[hook[w].conn][hook[w].inv] > 0
  BY <1>1, HookFacts DEF hookSound
<1> QED BY <1>2, <1>3 DEF IInv, oneLockHolder

(* Then the row: the one it sees it locks as it is and gives the lock back. *)
LEMMA SelectClaimStep ==
  ASSUME IInv, NEW w \in Webhooks, SelectClaim(w)
  PROVE  IInv'
<1> PICK c, i : c = hook[w].conn /\ i = hook[w].inv
  OBVIOUS
<1> DEFINE r == ClaimOf(i)
<1>1. /\ hook[w].pc = "select" /\ hook[w].pc \in Borrowing /\ hook[w].pc # "idle"
      /\ hook[w].pc \in {"select", "insert"}
  BY DEF SelectClaim, Borrowing
<1>2. /\ c \in Conns /\ i \in Invoices /\ owner[c] = w /\ Paid(i) /\ ~hook[w].lock
      /\ hook[w] \in HookTypes /\ DbTypeOK /\ nothingOutside /\ held[c][i] > 0
      /\ hook[w].res # "SUCCESS" /\ hook \in [Webhooks -> HookTypes]
  BY <1>1, HookFacts, Typed DEF hookSound, IInv
<1>3. WorldStep(w) /\ UNCHANGED <<req, job>> /\ UNCHANGED xendit
  BY WorldSame DEF SelectClaim, hookUnchanged, envVars, jobVars
<1>4. CASE Read(c, r) = Absent
  <2> DEFINE h == [hook[w] EXCEPT !.pc = "insert"]
  <2>1. hook' = [hook EXCEPT ![w] = h] /\ UNCHANGED dbVars
    BY <1>4 DEF SelectClaim
  <2>2. DbStep({}, {}, {}) /\ OwnStep(w, {})
    BY <1>2, <2>1, RowsStill, OwnStill DEF dbVars, DbTypeOK
  <2>3. /\ h \in HookTypes /\ h.pc = "insert" /\ ~h.lock /\ h.conn = c /\ h.inv = i
        /\ h.res # "SUCCESS" /\ hook'[w] = h
    BY <1>2, <2>1 DEF HookTypes, Borrowing
  <2>4. Paid(i)' /\ owner'[c] = w /\ held'[c][i] > 0
    BY <1>2, <1>3, <2>1 DEF Paid, dbVars
  <2> HIDE DEF h
  <2>5. hookSound(w)'
    BY <1>2, <2>3, <2>4 DEF hookSound, Processing
  <2> QED BY <1>3, <2>1, <2>2, <2>3, <2>5, HookQuietStep
<1>5. CASE Read(c, r) # Absent
  <2> DEFINE h == [hook[w] EXCEPT !.res = "DUPLICATE", !.pc = "commit"]
  <2> PICK new : new = [x \in {r} |-> Read(c, r)]
    OBVIOUS
  <2> PICK written, funded : written = {r} /\ funded = fundedIn(new)
    OBVIOUS
  <2>1. /\ Write(c, new) /\ held' = Unlocked(c, i) /\ Return(w, "DUPLICATE")
        /\ UNCHANGED open
    BY <1>5 DEF SelectClaim
  <2>2. r \in Rows /\ Read(c, r) \in RowType
    BY <1>2, RowNames DEF Read, DbTypeOK
  <2>3. RowsOK(new) /\ DOMAIN new = written /\ \A x \in funded : x = r
    BY <2>2 DEF RowsOK, fundedIn
  <2>4. DbStep({}, written, funded)
    <3>1. DbStep({}, DOMAIN new, fundedIn(new))
      BY <1>2, <2>1, <2>3, WriteStep
    <3> QED BY <2>3, <3>1
  <2>5. \A x \in funded : backed(x)
    <3>1. backed(r)
      BY RowNames DEF backed
    <3> QED BY <2>3, <3>1
  <2>6. \A v \in Processing \ {w} : ClaimOf(hook[v].inv) \notin written
    BY <1>1, LockKeepsOthersOut
  <2>7. OwnStep(w, {})
    <3>1. /\ held \in [Conns -> [Invoices -> Nat]] /\ oneLockHolder
          /\ owner \in [Conns -> Callers \cup {NoOne}]
      BY <1>2 DEF DbTypeOK, IInv
    <3>2. held' = [held EXCEPT ![c][i] = IF @ > 0 THEN @ - 1 ELSE 0]
      BY <2>1 DEF Unlocked
    <3>3. /\ held' \in [Conns -> [Invoices -> Nat]]
          /\ \A d \in Conns, j \in Invoices :
               /\ d # c => held'[d][j] = held[d][j]
               /\ held'[d][j] > 0 => held[d][j] > 0
      BY <1>2, <3>1, <3>2
    <3>4. oneLockHolder'
      BY <3>1, <3>3 DEF oneLockHolder
    <3>5. \A d \in Conns, j \in Invoices : owner[d] \in {NoOne, w} \/ held'[d][j] >= held[d][j]
      <4> SUFFICES ASSUME NEW d \in Conns, NEW j \in Invoices, d # c
                   PROVE  held'[d][j] >= held[d][j]
        BY <1>2
      <4>1. held[d][j] \in Nat /\ held'[d][j] = held[d][j]
        BY <3>1, <3>3
      <4> QED BY <4>1
    <3>6. /\ owner' \in [Conns -> Callers \cup {NoOne}]
          /\ \A d \in Conns : owner'[d] # owner[d] => owner[d] = w
      BY <1>2, <2>1, <3>1 DEF Return, GiveBack
    <3> QED BY <3>3, <3>4, <3>5, <3>6 DEF OwnStep
  <2>8. hook' = [hook EXCEPT ![w] = h]
    BY <1>2, <2>1 DEF Return
  <2>9. /\ h \in HookTypes /\ h.pc = "commit" /\ h.inv = i /\ h.res = "DUPLICATE"
        /\ hook'[w] = h
    BY <1>2, <2>8 DEF HookTypes, Borrowing, Results
  <2> HIDE DEF h
  <2>10. hookSound(w)'
    BY <1>1, <1>3, <2>9, HookRests
  <2> QED BY <1>3, <2>4, <2>5, <2>6, <2>7, <2>8, <2>9, <2>10, HookStepKeeps
<1> QED BY <1>4, <1>5

(* And the INSERT: with the row committed by another session meanwhile it   *)
(* fails, else the claim is the handler's.                                 *)
LEMMA InsertClaimStep ==
  ASSUME IInv, NEW w \in Webhooks, InsertClaim(w)
  PROVE  IInv'
<1> PICK c, i : c = hook[w].conn /\ i = hook[w].inv
  OBVIOUS
<1> DEFINE r == ClaimOf(i)
<1>1. /\ hook[w].pc = "insert" /\ hook[w].pc # "idle" /\ hook[w].pc \in Borrowing
      /\ hook[w].pc \in {"select", "insert"}
  BY DEF InsertClaim, Borrowing
<1>2. /\ c \in Conns /\ i \in Invoices /\ owner[c] = w /\ Paid(i) /\ ~hook[w].lock
      /\ hook[w] \in HookTypes /\ DbTypeOK /\ nothingOutside /\ w \in Callers
      /\ hook[w].res # "SUCCESS" /\ hook \in [Webhooks -> HookTypes] /\ held[c][i] > 0
  BY <1>1, HookFacts, Typed DEF hookSound, IInv
<1>3. UNCHANGED <<ledgerVars, hookUnchanged>>
  BY DEF InsertClaim
<1>4. CASE Throw(w)
  BY <1>1, <1>3, <1>4, ThrowKeeps
<1>5. CASE Read(c, r) = Absent
  <2> DEFINE h == [hook[w] EXCEPT !.pc = "validate", !.lock = TRUE]
  <2> PICK new : new = [x \in {r} |-> Row("PROCESSING", w, 0)]
    OBVIOUS
  <2> PICK none : none = {}
    OBVIOUS
  <2>1. /\ Write(c, new) /\ UNCHANGED <<open, owner, held>>
        /\ hook' = [hook EXCEPT ![w] = h]
    BY <1>5 DEF InsertClaim
  <2>2. /\ r \in Rows /\ Row("PROCESSING", w, 0) \in RowType
        /\ Row("PROCESSING", w, 0) # Unwritten /\ Row("PROCESSING", w, 0).by = w
    BY <1>2, RowNames DEF Row, RowType, Unwritten, ClaimStatus
  <2>3. /\ RowsOK(new) /\ DOMAIN new = {r} /\ fundedIn(new) = none
    BY <2>2 DEF RowsOK, fundedIn, Row
  <2>4. DbStep({}, {r}, none)
    <3>1. DbStep({}, DOMAIN new, fundedIn(new))
      BY <1>2, <2>1, <2>3, WriteStep
    <3> QED BY <2>3, <3>1
  <2>5. OwnStep(w, {}) /\ held'[c][i] > 0
    BY <1>2, <2>1, OwnStill
  <2>6. WorldStep(w) /\ UNCHANGED <<req, job>> /\ UNCHANGED xendit
    BY <1>3, WorldSame DEF hookUnchanged, envVars, jobVars
  <2>7. /\ h \in HookTypes /\ h.pc = "validate" /\ h.lock /\ h.conn = c /\ h.inv = i
        /\ h.res # "SUCCESS" /\ hook'[w] = h
    BY <1>2, <2>1 DEF HookTypes, Borrowing
  <2>8. alone(c, r)' /\ Read(c, r)'.by = w
    <3>1. Read(c, r)' = Row("PROCESSING", w, 0) /\ alone(c, r)'
      BY <1>2, <2>1, <2>2, WriteLands
    <3> QED BY <2>2, <3>1
  <2>9. \A v \in Processing \ {w} : ClaimOf(hook[v].inv) \notin {r}
    BY <1>1, LockKeepsOthersOut
  <2>10. Paid(i)'
    BY <1>2, <2>6 DEF Paid
  <2>11. hookSound(w)'
    <3>1. /\ hook'[w].pc = "validate" /\ hook'[w].lock /\ hook'[w].conn = c
          /\ hook'[w].inv = i /\ hook'[w].res # "SUCCESS" /\ owner'[c] = w
      BY <1>2, <2>1, <2>7
    <3> HIDE DEF h
    <3> QED BY <1>2, <2>5, <2>8, <2>10, <3>1 DEF hookSound
  <2>12. \A x \in none : backed(x)
    OBVIOUS
  <2> HIDE DEF h
  <2> QED BY <2>1, <2>4, <2>5, <2>6, <2>7, <2>9, <2>11, <2>12, HookStepKeeps
<1> QED BY <1>4, <1>5 DEF InsertClaim

LEMMA ProcessingFacts ==
  ASSUME IInv, NEW w \in Webhooks, hook[w].pc \in Borrowing
  PROVE  /\ hook[w].pc # "idle" /\ hook[w].res # "SUCCESS"
         /\ hook[w].conn \in Conns /\ owner[hook[w].conn] = w
         /\ hook[w].pc = "store" => sent[w][HookContract(w)] = "mined"
BY HookFacts DEF hookSound, Borrowing

LEMMA ValidateStep ==
  ASSUME IInv, NEW w \in Webhooks, ValidateContract(w)
  PROVE  IInv'
<1>1. hook[w].pc \in Borrowing /\ w \in Processing /\ UNCHANGED hookUnchanged
  BY DEF ValidateContract, Borrowing, Processing
<1>2. CASE Throw(w)
  BY <1>1, <1>2, ThrowKeeps DEF ValidateContract
<1>3. CASE Return(w, "REFUSED") /\ UNCHANGED <<db, tx, open, held>>
  <2>1. WorldStep(w)
    BY WorldSame DEF ValidateContract, hookUnchanged, envVars
  <2> QED BY <1>1, <1>3, <2>1, ReturnQuiet DEF Results, ClaimStatus
<1>4. CASE hook' = [hook EXCEPT ![w].pc = "status"] /\ UNCHANGED dbVars
  <2>1. hook' = [hook EXCEPT ![w] = [hook[w] EXCEPT !.pc = "status", !.seen = hook[w].seen]]
        /\ hook[w].seen \in Nat
    BY <1>4, Typed, HookFacts DEF HookTypes, IInv
  <2>2. WorldStep(w) /\ UNCHANGED chain
    BY <1>1, WorldSame DEF ValidateContract, hookUnchanged, envVars, ledgerVars
  <2> QED BY <1>1, <1>4, <2>1, <2>2, WorkGoesOn
<1> QED BY <1>2, <1>3, <1>4 DEF ValidateContract

LEMMA StatusStep ==
  ASSUME IInv, NEW w \in Webhooks, CheckOnChainStatus(w)
  PROVE  IInv'
<1>1. hook[w].pc \in Borrowing /\ w \in Processing /\ UNCHANGED hookUnchanged
  BY DEF CheckOnChainStatus, Borrowing, Processing
<1>2. CASE Throw(w)
  BY <1>1, <1>2, ThrowKeeps DEF CheckOnChainStatus
<1>3. CASE Return(w, "REFUSED") /\ UNCHANGED <<db, tx, open, held>>
  <2>1. WorldStep(w)
    BY WorldSame DEF CheckOnChainStatus, hookUnchanged, envVars
  <2> QED BY <1>1, <1>3, <2>1, ReturnQuiet DEF Results, ClaimStatus
<1>4. ASSUME NEW c \in Free, UNCHANGED dbVars,
             hook' = [hook EXCEPT ![w] = [hook[w] EXCEPT !.pc = "submit",
                        !.seen = findByXenditInvoiceId(c, hook[w].inv).v]]
      PROVE  IInv'
  <2>1. findByXenditInvoiceId(c, hook[w].inv).v \in Nat
    <3>1. Read(c, InvoiceOf(hook[w].inv)) \in RowType
      BY <1>1, HookFacts, RowNames DEF Read, Free, DbTypeOK, Borrowing
    <3> QED BY <3>1 DEF findByXenditInvoiceId, RowType
  <2>2. WorldStep(w) /\ UNCHANGED chain
    BY <1>1, WorldSame DEF CheckOnChainStatus, hookUnchanged, envVars, ledgerVars
  <2> QED BY <1>1, <1>4, <2>1, <2>2, WorkGoesOn
<1> QED BY <1>2, <1>3, <1>4 DEF CheckOnChainStatus

LEMMA MarkFundedStep ==
  ASSUME IInv, NEW w \in Webhooks, MarkFunded(w)
  PROVE  IInv'
<1>1. /\ hook[w].pc \in Borrowing /\ w \in Processing /\ UNCHANGED hookUnchanged
      /\ UNCHANGED xendit /\ UNCHANGED chain
  BY DEF MarkFunded, Borrowing, Processing, hookUnchanged, envVars
<1>2. CASE /\ sent' = sent \/ Submit(w, HookContract(w))
           /\ Return(w, "REFUSED") /\ UNCHANGED <<db, tx, open, held>>
  <2>1. ASSUME sent' = sent PROVE WorldStep(w)
    BY <1>1, <2>1, WorldSame DEF ledgerVars
  <2>2. ASSUME Submit(w, HookContract(w)) PROVE WorldStep(w)
    BY <1>1, <2>2, HookFacts, ProcessingFacts, WorldSubmit
  <2>3. WorldStep(w)
    BY <1>2, <2>1, <2>2
  <2> QED BY <1>1, <1>2, <2>3, ReturnQuiet DEF Results, ClaimStatus
<1>3. CASE /\ Submit(w, HookContract(w)) /\ UNCHANGED dbVars
           /\ hook' = [hook EXCEPT ![w].pc = "wait"]
  <2>1. hook' = [hook EXCEPT ![w] = [hook[w] EXCEPT !.pc = "wait", !.seen = hook[w].seen]]
        /\ hook[w].seen \in Nat
    BY <1>3, Typed, HookFacts DEF HookTypes, IInv
  <2>2. WorldStep(w)
    BY <1>1, <1>3, HookFacts, ProcessingFacts, WorldSubmit
  <2> QED BY <1>1, <1>3, <2>1, <2>2, WorkGoesOn
<1> QED BY <1>2, <1>3 DEF MarkFunded

LEMMA WaitStep ==
  ASSUME IInv, NEW w \in Webhooks, WaitReceipt(w)
  PROVE  IInv'
<1>1. hook[w].pc \in Borrowing /\ w \in Processing /\ UNCHANGED hookUnchanged
  BY DEF WaitReceipt, Borrowing, Processing
<1>2. CASE Throw(w)
  BY <1>1, <1>2, ThrowKeeps DEF WaitReceipt
<1>3. CASE /\ sent[w][HookContract(w)] = "mined" /\ UNCHANGED dbVars
           /\ hook' = [hook EXCEPT ![w].pc = "store"]
  <2>1. hook' = [hook EXCEPT ![w] = [hook[w] EXCEPT !.pc = "store", !.seen = hook[w].seen]]
        /\ hook[w].seen \in Nat
    BY <1>3, Typed, HookFacts DEF HookTypes, IInv
  <2>2. WorldStep(w) /\ UNCHANGED chain /\ UNCHANGED sent
    BY <1>1, WorldSame DEF WaitReceipt, hookUnchanged, envVars, ledgerVars
  <2>3. sent'[w][HookContract(w)] = "mined"
    BY <1>3, <2>2
  <2> QED BY <1>1, <1>3, <2>1, <2>2, <2>3, WorkGoesOn
<1> QED BY <1>2, <1>3 DEF WaitReceipt

LEMMA UpdateIsTyped ==
  ASSUME NEW c, NEW i, NEW st \in InvoiceStatus, NEW seen \in Nat
  PROVE  /\ DOMAIN updateInvoice(c, i, st, seen) \subseteq {InvoiceOf(i)}
         /\ \A r \in DOMAIN updateInvoice(c, i, st, seen) :
              /\ updateInvoice(c, i, st, seen)[r] \in RowType
              /\ updateInvoice(c, i, st, seen)[r].st = st
<1>1. Row(st, NoOne, seen + 1) \in RowType /\ Row(st, NoOne, seen + 1).st = st
  BY DEF Row, RowType
<1> QED BY <1>1 DEF updateInvoice

(* updateInvoice and the row of the contract: FUNDED is written only after  *)
(* the receipt of the handler's own transaction.                           *)
LEMMA StoreStep ==
  ASSUME IInv, NEW w \in Webhooks, StoreFunded(w)
  PROVE  IInv'
<1> PICK c, i, k : c = hook[w].conn /\ i = hook[w].inv /\ k = HookContract(w)
  OBVIOUS
<1> PICK inv : inv = updateInvoice(c, i, "FUNDED", hook[w].seen)
  OBVIOUS
<1> PICK new : new = [r \in DOMAIN inv \cup {ContractOf(k)} |->
                        IF r = ContractOf(k) THEN Row("FUNDED", NoOne, 0) ELSE inv[r]]
  OBVIOUS
<1> PICK written, funded : written = DOMAIN new /\ funded = fundedIn(new)
  OBVIOUS
<1>1. /\ hook[w].pc \in Borrowing /\ hook[w].pc = "store"
      /\ UNCHANGED hookUnchanged /\ UNCHANGED held /\ UNCHANGED ledgerVars
      /\ WriteAndCommit(c, new) /\ Return(w, "SUCCESS")
  BY DEF StoreFunded, Borrowing
<1>2. /\ c \in Conns /\ i \in Invoices /\ k \in Contracts /\ k = xendit[i].of
      /\ posted(i) /\ sent[w][k] = "mined" /\ hook[w].seen \in Nat
      /\ w \in Callers /\ DbTypeOK /\ nothingOutside
  BY <1>1, HookFacts, ProcessingFacts DEF HookContract, HookTypes
<1>3. chain[k] = "FUNDED"
  BY <1>2 DEF IInv, fundedOnce
<1>4. /\ DOMAIN inv \subseteq {InvoiceOf(i)}
      /\ \A r \in DOMAIN inv : inv[r] \in RowType
  <2>1. "FUNDED" \in InvoiceStatus
    BY DEF InvoiceStatus
  <2> PICK seen \in Nat : seen = hook[w].seen
    BY <1>2
  <2>2. inv = updateInvoice(c, i, "FUNDED", seen)
    OBVIOUS
  <2> QED BY <2>1, <2>2, UpdateIsTyped
<1>5. /\ DOMAIN new = DOMAIN inv \cup {ContractOf(k)}
      /\ Row("FUNDED", NoOne, 0) \in RowType
      /\ DOMAIN new \subseteq {InvoiceOf(i), ContractOf(k)}
      /\ \A r \in DOMAIN new : new[r] \in RowType
  <2>1. Row("FUNDED", NoOne, 0) \in RowType
    BY DEF Row, RowType, InvoiceStatus
  <2> QED BY <1>4, <2>1
<1>6. RowsOK(new)
  <2>1. InvoiceOf(i) \in Rows /\ ContractOf(k) \in Rows
    BY <1>2, RowNames
  <2>2. DOMAIN new \subseteq Rows
    BY <1>5, <2>1
  <2> QED BY <1>5, <2>2 DEF RowsOK
<1>7. DbStep({}, written, funded)
  <2>1. DbStep({}, DOMAIN new, fundedIn(new))
    BY <1>1, <1>2, <1>6, WriteAndCommitStep
  <2> QED BY <2>1
<1>8. \A r \in funded : backed(r)
  <2>1. backed(InvoiceOf(i)) /\ backed(ContractOf(k))
    BY <1>2, <1>3, RowNames DEF backed
  <2>2. \A r \in funded : r \in {InvoiceOf(i), ContractOf(k)}
    BY <1>5 DEF fundedIn
  <2> QED BY <2>1, <2>2
<1>9. \A j : ClaimOf(j) \notin written
  BY <1>5, RowNames
<1>10. WorldStep(w) /\ UNCHANGED sent
  BY <1>1, WorldSame DEF hookUnchanged, envVars, ledgerVars
<1>11. "SUCCESS" \in Results /\ "SUCCESS" \in ClaimStatus
  BY DEF Results, ClaimStatus
<1> QED BY <1>1, <1>7, <1>8, <1>9, <1>10, <1>11, ReturnKeeps

(* releaseProcessingLock on whatever connection it gets: it never touches   *)
(* the claim of a handler at work, whose row is locked by its transaction   *)
(* or carries another id.                                                  *)
LEMMA ReleaseFacts ==
  ASSUME IInv, NEW w \in Webhooks, hook[w].pc # "idle", NEW res \in ClaimStatus,
         NEW c \in Free, ReleaseProcessingLock(w, res, c), UNCHANGED open
  PROVE  /\ \E written, none :
              /\ DbStep({}, written, none) /\ \A r : r \notin none
              /\ \A v \in Processing \ {w} : ClaimOf(hook[v].inv) \notin written
         /\ held' \in [Conns -> [Invoices -> Nat]] /\ oneLockHolder'
         /\ \A d \in Conns, j \in Invoices : owner[d] = NoOne \/ held'[d][j] >= held[d][j]
<1> PICK i : i = hook[w].inv
  OBVIOUS
<1> PICK none : none = {}
  OBVIOUS
<1>1. /\ i \in Invoices /\ w \in Callers /\ w # NoOne /\ c \in Conns /\ owner[c] = NoOne
      /\ DbTypeOK /\ nothingOutside /\ oneLockHolder
  BY HookFacts DEF Free, IInv
<1>2. \E written :
         /\ DbStep({}, written, none)
         /\ \A v \in Processing \ {w} : ClaimOf(hook[v].inv) \notin written
  <2>1. CASE Read(c, ClaimOf(i)).by # w
    <3>1. UNCHANGED <<db, tx>>
      BY <2>1 DEF ReleaseProcessingLock
    <3>2. DbStep({}, {}, {})
      BY <1>1, <3>1, RowsStill DEF DbTypeOK
    <3>3. DbStep({}, none, none)
      BY <3>2
    <3> QED BY <3>3
  <2>2. CASE Read(c, ClaimOf(i)).by = w
    <3> PICK new : new = [x \in {ClaimOf(i)} |-> Row(res, w, 0)]
      OBVIOUS
    <3> PICK written : written = {ClaimOf(i)}
      OBVIOUS
    <3>1. Write(c, new)
      BY <2>2 DEF ReleaseProcessingLock
    <3>2. Row(res, w, 0) \in RowType /\ Row(res, w, 0).st # "FUNDED"
      BY <1>1 DEF Row, RowType, ClaimStatus
    <3>3. RowsOK(new) /\ DOMAIN new = written /\ fundedIn(new) = none
      BY <1>1, <3>2, RowNames DEF RowsOK, fundedIn
    <3>4. DbStep({}, written, none)
      <4>1. DbStep({}, DOMAIN new, fundedIn(new))
        BY <1>1, <3>1, <3>3, WriteStep
      <4> QED BY <3>3, <4>1
    <3>5. \A v \in Processing \ {w} : ClaimOf(hook[v].inv) \notin written
      <4> SUFFICES ASSUME NEW v \in Processing \ {w}, hook[v].inv = i
                   PROVE  FALSE
        BY RowNames
      <4>1. v \in Webhooks /\ hook[v].pc \in Borrowing /\ v \in Callers /\ v # NoOne
        BY CallersAssumption, NoOneIsNoCaller DEF Processing, Borrowing
      <4> PICK d \in Conns : d = hook[v].conn /\ owner[d] = v
        BY <4>1, ProcessingFacts
      <4>2. alone(d, ClaimOf(i)) /\ Read(d, ClaimOf(i)).by = v /\ d # c
        BY <1>1, <4>1 DEF IInv, hookSound
      <4>3. tx[c][ClaimOf(i)] = Unwritten /\ tx[d][ClaimOf(i)] = Unwritten
        BY <1>1, <3>1, <3>3, <4>2 DEF alone, Write, Writable
      <4> QED BY <2>2, <4>2, <4>3 DEF Read
    <3> QED BY <3>4, <3>5
  <2> QED BY <2>1, <2>2
<1>3. /\ held \in [Conns -> [Invoices -> Nat]]
      /\ held' = [held EXCEPT ![c][i] = IF @ > 0 THEN @ - 1 ELSE 0]
  BY <1>1 DEF ReleaseProcessingLock, Unlocked, DbTypeOK
<1>4. /\ held' \in [Conns -> [Invoices -> Nat]]
      /\ \A d \in Conns, j \in Invoices :
           /\ d # c => held'[d][j] = held[d][j]
           /\ held'[d][j] > 0 => held[d][j] > 0
  BY <1>1, <1>3
<1>5. oneLockHolder'
  BY <1>1, <1>4 DEF oneLockHolder
<1>6. \A d \in Conns, j \in Invoices : owner[d] = NoOne \/ held'[d][j] >= held[d][j]
  BY <1>1, <1>3, <1>4
<1> QED BY <1>2, <1>4, <1>5, <1>6

(* The last steps of a handler.                                            *)
LEMMA RestKeeps ==
  ASSUME IInv, NEW w \in Webhooks, hook[w].pc # "idle",
         NEW written, NEW none, DbStep({}, written, none), \A r : r \notin none,
         \A v \in Processing \ {w} : ClaimOf(hook[v].inv) \notin written,
         OwnStep(w, {}), UNCHANGED ledgerVars, UNCHANGED hookUnchanged,
         NEW h \in HookTypes, hook' = [hook EXCEPT ![w] = h],
         h.pc \in {"commit", "done"}, h.inv = hook[w].inv,
         h.res = "SUCCESS" => hook[w].res = "SUCCESS"
  PROVE  IInv'
<1>1. WorldStep(w) /\ UNCHANGED <<req, job>> /\ UNCHANGED <<xendit, sent>>
  BY WorldSame DEF hookUnchanged, envVars, jobVars, ledgerVars
<1>2. hook'[w] = h
  BY Typed DEF IInv
<1>3. hookSound(w)'
  BY <1>1, <1>2, HookRests
<1>4. \A r \in none : backed(r)
  OBVIOUS
<1> QED BY <1>1, <1>3, <1>4, HookStepKeeps

LEMMA AnsweredIs ==
  ASSUME IInv, NEW w \in Webhooks, hook[w].pc # "idle", NEW res \in Results,
         Answered(w, res)
  PROVE  \E h \in HookTypes :
           /\ hook' = [hook EXCEPT ![w] = h]
           /\ h.pc = "done" /\ h.inv = hook[w].inv /\ h.res = res
<1> DEFINE h == [IdleHook EXCEPT !.pc = "done", !.inv = hook[w].inv,
                                 !.res = res, !.told = mapResultToResponse(res)]
<1>1. hook' = [hook EXCEPT ![w] = h]
  BY DEF Answered
<1>2. h \in HookTypes /\ h.pc = "done" /\ h.inv = hook[w].inv /\ h.res = res
  BY HookFacts DEF IdleHook, HookTypes, mapResultToResponse
<1> QED BY <1>1, <1>2

LEMMA FinalizeReleaseStep ==
  ASSUME IInv, NEW w \in Webhooks, FinalizeRelease(w)
  PROVE  IInv'
<1>1. /\ hook[w].pc # "idle" /\ hook[w] \in HookTypes /\ hook[w].res \in ClaimStatus
      /\ UNCHANGED ledgerVars /\ UNCHANGED hookUnchanged /\ DbTypeOK
      /\ hook \in [Webhooks -> HookTypes]
  BY HookFacts, Typed DEF FinalizeRelease, hookSound, IInv
<1>2. CASE Answered(w, "UNKNOWN_ERROR") /\ UNCHANGED dbVars
  <2> PICK none : none = {}
    OBVIOUS
  <2> PICK h \in HookTypes : /\ hook' = [hook EXCEPT ![w] = h] /\ h.pc = "done"
                             /\ h.inv = hook[w].inv /\ h.res = "UNKNOWN_ERROR"
    BY <1>1, <1>2, AnsweredIs DEF Results
  <2>1. DbStep({}, {}, {}) /\ OwnStep(w, {})
    BY <1>1, <1>2, HookFacts, RowsStill, OwnStill DEF dbVars, DbTypeOK
  <2>2. DbStep({}, none, none)
    BY <2>1
  <2> QED BY <1>1, <2>1, <2>2, RestKeeps
<1>3. ASSUME NEW c \in Free, ReleaseProcessingLock(w, hook[w].res, c),
             hook' = [hook EXCEPT ![w].pc = "commit"], UNCHANGED <<open, owner>>
      PROVE  IInv'
  <2> DEFINE h == [hook[w] EXCEPT !.pc = "commit"]
  <2>1. /\ held' \in [Conns -> [Invoices -> Nat]] /\ oneLockHolder'
        /\ \A d \in Conns, j \in Invoices : owner[d] = NoOne \/ held'[d][j] >= held[d][j]
    BY <1>1, <1>3, ReleaseFacts
  <2>2. OwnStep(w, {})
    BY <1>1, <1>3, <2>1 DEF OwnStep, DbTypeOK
  <2> PICK written, none :
              /\ DbStep({}, written, none) /\ \A r : r \notin none
              /\ \A v \in Processing \ {w} : ClaimOf(hook[v].inv) \notin written
    BY <1>1, <1>3, ReleaseFacts
  <2>3. /\ h \in HookTypes /\ hook' = [hook EXCEPT ![w] = h] /\ h.pc = "commit"
        /\ h.inv = hook[w].inv /\ h.res = hook[w].res
    BY <1>1, <1>3 DEF HookTypes
  <2> HIDE DEF h
  <2> QED BY <1>1, <2>2, <2>3, RestKeeps
<1> QED BY <1>2, <1>3 DEF FinalizeRelease

LEMMA FinalizeCommitStep ==
  ASSUME IInv, NEW w \in Webhooks, FinalizeCommit(w)
  PROVE  IInv'
<1> PICK none : none = {}
  OBVIOUS
<1>1. /\ hook[w].pc # "idle" /\ hook[w] \in HookTypes
      /\ UNCHANGED ledgerVars /\ UNCHANGED hookUnchanged /\ UNCHANGED <<owner, held>>
      /\ DbTypeOK /\ nothingOutside
  BY HookFacts DEF FinalizeCommit
<1>2. hook[w].res \in Results /\ hook[w].conn \in Conns \cup {NoOne}
  BY <1>1 DEF HookTypes
<1>3. DbStep({}, {}, {})
  <2>1. CASE hook[w].conn = NoOne
    BY <1>1, <2>1, RowsStill DEF FinalizeCommit, DbTypeOK
  <2>2. CASE hook[w].conn # NoOne
    BY <1>1, <1>2, <2>2, CommitStep DEF FinalizeCommit
  <2> QED BY <2>1, <2>2
<1>4. OwnStep(w, {}) /\ DbStep({}, none, none)
  BY <1>1, <1>3, OwnStill
<1> PICK h \in HookTypes : /\ hook' = [hook EXCEPT ![w] = h] /\ h.pc = "done"
                           /\ h.inv = hook[w].inv /\ h.res = hook[w].res
  BY <1>1, <1>2, AnsweredIs DEF FinalizeCommit
<1> QED BY <1>1, <1>4, RestKeeps

LEMMA CatchStep ==
  ASSUME IInv, NEW w \in Webhooks, Catch(w)
  PROVE  IInv'
<1>1. /\ hook[w].pc # "idle" /\ hook[w].pc \in Borrowing /\ hook[w] \in HookTypes
      /\ UNCHANGED ledgerVars /\ UNCHANGED hookUnchanged /\ UNCHANGED open
      /\ DbTypeOK /\ nothingOutside /\ oneLockHolder /\ GiveBack(hook[w].conn)
  BY HookFacts DEF Catch, Borrowing, IInv
<1> PICK c \in Conns : c = hook[w].conn /\ owner[c] = w
  BY <1>1, ProcessingFacts
<1>2. /\ owner' \in [Conns -> Callers \cup {NoOne}]
      /\ \A d \in Conns : owner'[d] # owner[d] => owner[d] = w
  BY <1>1 DEF GiveBack, DbTypeOK
<1>3. /\ \E written, none :
              /\ DbStep({}, written, none) /\ \A r : r \notin none
              /\ \A v \in Processing \ {w} : ClaimOf(hook[v].inv) \notin written
      /\ held' \in [Conns -> [Invoices -> Nat]] /\ oneLockHolder'
      /\ \A d \in Conns, j \in Invoices : owner[d] = NoOne \/ held'[d][j] >= held[d][j]
  <2>1. ASSUME NEW d \in Free, ReleaseProcessingLock(w, "UNKNOWN_ERROR", d)
        PROVE  <1>3!:
    BY <1>1, <2>1, ReleaseFacts DEF ClaimStatus
  <2>2. CASE UNCHANGED <<db, tx, held>>
    <3> PICK none : none = {}
      OBVIOUS
    <3>1. DbStep({}, {}, {})
      BY <1>1, <2>2, RowsStill DEF DbTypeOK
    <3>2. DbStep({}, none, none)
      BY <3>1
    <3>3. /\ held' \in [Conns -> [Invoices -> Nat]] /\ oneLockHolder'
          /\ \A d \in Conns, j \in Invoices : held'[d][j] >= held[d][j]
      BY <1>1, <2>2 DEF DbTypeOK, oneLockHolder
    <3> QED BY <3>2, <3>3
  <2> QED BY <2>1, <2>2 DEF Catch
<1>4. OwnStep(w, {})
  BY <1>2, <1>3 DEF OwnStep
<1>5. hook[w].res \in Results
  BY <1>1 DEF HookTypes
<1> PICK h \in HookTypes : /\ hook' = [hook EXCEPT ![w] = h] /\ h.pc = "done"
                           /\ h.inv = hook[w].inv /\ h.res = hook[w].res
  BY <1>1, <1>5, AnsweredIs DEF Catch
<1> PICK written, none :
              /\ DbStep({}, written, none) /\ \A r : r \notin none
              /\ \A v \in Processing \ {w} : ClaimOf(hook[v].inv) \notin written
  BY <1>3
<1> QED BY <1>1, <1>4, RestKeeps
-----------------------------------------------------------------------------
(* The requests that make an invoice.                                      *)

LEMMA ReqFacts ==
  ASSUME IInv, NEW q \in Requests
  PROVE  /\ req[q] \in ReqTypes /\ reqSound(q) /\ DbTypeOK /\ nothingOutside
         /\ q \in Callers /\ q # NoOne /\ \A w \in Webhooks : w # q
         /\ req \in [Requests -> ReqTypes]
BY Typed, CallersAssumption, NoOneIsNoCaller, DistinctAssumption DEF IInv

LEMMA ReqStepKeeps ==
  ASSUME IInv, NEW q \in Requests, NEW lost, NEW written, NEW none,
         DbStep(lost, written, none), \A r : r \notin none,
         OwnStep(q, lost), WorldStep(q), \A i : ClaimOf(i) \notin written,
         UNCHANGED <<hook, job>>,
         NEW h \in ReqTypes, req' = [req EXCEPT ![q] = h], reqSound(q)'
  PROVE  IInv'
<1>1. hook' \in [Webhooks -> HookTypes] /\ job' \in JobTypes
  BY Typed DEF IInv
<1>2. req' \in [Requests -> ReqTypes]
  BY ReqFacts
<1>3. \A w \in Webhooks : hookKept(w, q, written)
  BY ReqFacts DEF hookKept
<1>4. \A p \in Requests : p # q => req'[p] = req[p]
  BY ReqFacts
<1>5. /\ \A r \in none : backed(r)
      /\ \A w \in Webhooks : hookSound(w)' \/ hookKept(w, q, written)
      /\ \A p \in Requests : reqSound(p)' \/ (p # q /\ req'[p] = req[p])
      /\ jobSound' \/ UNCHANGED job
  BY <1>3, <1>4
<1> QED BY <1>1, <1>2, <1>5, StepKeeps

(* The answer of a request, whether its transaction was rolled back or was  *)
(* left open.                                                              *)
LEMMA ReqEnds ==
  ASSUME IInv, NEW q \in Requests, NEW lost, NEW written, NEW none,
         DbStep(lost, written, none), \A r : r \notin none,
         OwnStep(q, lost), WorldStep(q), \A i : ClaimOf(i) \notin written,
         UNCHANGED <<hook, job>>,
         req' = [req EXCEPT ![q] = [IdleReq EXCEPT !.pc = "done"]]
  PROVE  IInv'
<1> DEFINE h == [IdleReq EXCEPT !.pc = "done"]
<1>1. h \in ReqTypes /\ req' = [req EXCEPT ![q] = h] /\ req'[q] = h /\ h.pc = "done"
  BY ReqFacts DEF IdleReq, ReqTypes
<1> HIDE DEF h
<1>2. reqSound(q)'
  BY <1>1 DEF reqSound
<1> QED BY <1>1, <1>2, ReqStepKeeps

LEMMA CreateFailKeeps ==
  ASSUME IInv, NEW q \in Requests, req[q].pc \in {"check", "post", "save"},
         CreateFail(q), WorldStep(q), UNCHANGED <<hook, job>>
  PROVE  IInv'
<1> PICK c \in Conns : c = req[q].conn /\ owner[c] = q
  BY ReqFacts DEF reqSound
<1> PICK none, lost : none = {} /\ lost = {c}
  OBVIOUS
<1>1. DbStep({c}, {}, {})
  BY ReqFacts, RollbackStep DEF CreateFail
<1>2. OwnStep(q, {c})
  BY OwnGiveBack DEF CreateFail
<1>3. DbStep(lost, none, none) /\ OwnStep(q, lost)
  BY <1>1, <1>2
<1>4. (\A r : r \notin none) /\ (\A i : ClaimOf(i) \notin none)
  OBVIOUS
<1>5. req' = [req EXCEPT ![q] = [IdleReq EXCEPT !.pc = "done"]]
  BY DEF CreateFail
<1> QED BY <1>3, <1>4, <1>5, ReqEnds

LEMMA CreateBeginStep ==
  ASSUME IInv, NEW q \in Requests, NEW k \in Contracts, NEW c \in Conns,
         CreateBegin(q, k, c)
  PROVE  IInv'
<1> DEFINE h == [req[q] EXCEPT !.pc = "check", !.conn = c, !.of = k]
<1> PICK none : none = {}
  OBVIOUS
<1>1. /\ req' = [req EXCEPT ![q] = h] /\ Borrow(q, c) /\ UNCHANGED held
      /\ UNCHANGED <<db, tx>> /\ WorldStep(q) /\ UNCHANGED <<hook, job>>
  BY WorldSame DEF CreateBegin, envVars, ledgerVars, jobVars
<1>2. DbStep({}, {}, {})
  BY <1>1, ReqFacts, RowsStill DEF Borrow, DbTypeOK
<1>3. OwnStep(q, {}) /\ owner'[c] = q
  BY <1>1, ReqFacts, OwnBorrow
<1>4. DbStep({}, none, none) /\ (\A r : r \notin none) /\ (\A i : ClaimOf(i) \notin none)
  BY <1>2
<1>5. h \in ReqTypes /\ req'[q] = h /\ h.pc = "check" /\ h.conn = c /\ h.of = k
  BY <1>1, ReqFacts DEF ReqTypes
<1> HIDE DEF h
<1>6. reqSound(q)'
  BY <1>3, <1>5 DEF reqSound
<1> QED BY <1>1, <1>3, <1>4, <1>5, <1>6, ReqStepKeeps

LEMMA CreateCheckStep ==
  ASSUME IInv, NEW q \in Requests, CreateCheck(q)
  PROVE  IInv'
<1> PICK c \in Conns : c = req[q].conn /\ owner[c] = q
  BY ReqFacts DEF reqSound, CreateCheck
<1> PICK none : none = {}
  OBVIOUS
<1>1. WorldStep(q) /\ UNCHANGED <<hook, job>> /\ req[q].pc = "check"
  BY WorldSame DEF CreateCheck, envVars, ledgerVars, jobVars
<1>2. CASE CreateFail(q)
  BY <1>1, <1>2, CreateFailKeeps
<1>3. CASE req' = [req EXCEPT ![q].pc = "post"] /\ UNCHANGED dbVars
  <2> DEFINE h == [req[q] EXCEPT !.pc = "post"]
  <2>1. DbStep({}, {}, {}) /\ OwnStep(q, {})
    BY <1>3, ReqFacts, RowsStill, OwnStill DEF dbVars, DbTypeOK
  <2>2. DbStep({}, none, none) /\ (\A r : r \notin none) /\ (\A i : ClaimOf(i) \notin none)
    BY <2>1
  <2>3. /\ h \in ReqTypes /\ req'[q] = h /\ h.pc = "post" /\ h.conn = c
        /\ h.of = req[q].of /\ req' = [req EXCEPT ![q] = h]
    BY <1>3, ReqFacts DEF ReqTypes
  <2> HIDE DEF h
  <2>4. owner'[c] = q /\ h.of \in Contracts
    BY <1>1, <1>3, <2>3, ReqFacts DEF reqSound, dbVars
  <2>5. reqSound(q)'
    BY <2>3, <2>4 DEF reqSound
  <2> QED BY <1>1, <2>1, <2>2, <2>3, <2>5, ReqStepKeeps
<1>4. CASE /\ GiveBack(req[q].conn) /\ UNCHANGED <<db, tx, open, held>>
           /\ req' = [req EXCEPT ![q] = [IdleReq EXCEPT !.pc = "done"]]
  <2>1. DbStep({}, {}, {})
    BY <1>4, ReqFacts, RowsStill DEF DbTypeOK
  <2>2. DbStep({}, none, none) /\ (\A r : r \notin none) /\ (\A i : ClaimOf(i) \notin none)
    BY <2>1
  <2>3. OwnStep(q, {})
    BY <1>4, OwnGiveBack
  <2> QED BY <1>1, <1>4, <2>2, <2>3, ReqEnds
<1> QED BY <1>2, <1>3, <1>4 DEF CreateCheck

LEMMA CreatePostStep ==
  ASSUME IInv, NEW q \in Requests, CreatePost(q)
  PROVE  IInv'
<1> PICK c \in Conns : c = req[q].conn /\ owner[c] = q
  BY ReqFacts DEF reqSound, CreatePost
<1> PICK k \in Contracts : k = req[q].of
  BY ReqFacts DEF reqSound, CreatePost
<1>1. UNCHANGED <<hook, job, ledgerVars>> /\ req[q].pc = "post"
  BY DEF CreatePost, jobVars
<1>2. CASE CreateFail(q) /\ UNCHANGED xendit
  BY <1>1, <1>2, WorldSame, CreateFailKeeps
<1>3. ASSUME NEW i \in Invoices, xendit[i].st = "none",
             xendit' = [xendit EXCEPT ![i] = XenditInvoice("PENDING", req[q].of)],
             req' = [req EXCEPT ![q] = [req[q] EXCEPT !.pc = "save", !.inv = i]],
             UNCHANGED dbVars
      PROVE  IInv'
  <2> DEFINE h == [req[q] EXCEPT !.pc = "save", !.inv = i]
  <2> PICK none : none = {}
    OBVIOUS
  <2>1. DbStep({}, {}, {}) /\ OwnStep(q, {})
    BY <1>3, ReqFacts, RowsStill, OwnStill DEF dbVars, DbTypeOK
  <2>2. DbStep({}, none, none) /\ (\A r : r \notin none) /\ (\A j : ClaimOf(j) \notin none)
    BY <2>1
  <2>3. /\ xendit \in [Invoices -> [st : {"none", "PENDING", "PAID", "SETTLED", "EXPIRED"},
                                    of : Contracts \cup {NoOne}]]
        /\ chain \in [Contracts -> {"CREATED", "FUNDED"}]
        /\ sent \in [Callers -> [Contracts -> {"none", "pending", "mined", "reverted"}]]
        /\ invoicesNamed /\ fundedOnce /\ UNCHANGED <<chain, sent>>
    BY <1>1 DEF IInv, TypeOK, ledgerVars
  <2>4. /\ xendit' \in [Invoices -> [st : {"none", "PENDING", "PAID", "SETTLED", "EXPIRED"},
                                     of : Contracts \cup {NoOne}]]
        /\ xendit'[i].st = "PENDING" /\ xendit'[i].of = k
        /\ \A j \in Invoices : j # i => xendit'[j] = xendit[j]
    BY <1>3, <2>3 DEF XenditInvoice
  <2>5. WorldStep(q)
    <3>1. \A j \in Invoices :
             /\ xendit[j].st # "none" => xendit'[j].st # "none" /\ xendit'[j].of = xendit[j].of
             /\ Paid(j) => Paid(j)'
      BY <1>3, <2>4 DEF Paid
    <3>2. invoicesNamed'
      BY <2>3, <2>4 DEF invoicesNamed, posted
    <3>3. fundedOnce'
      BY <2>3 DEF fundedOnce
    <3> QED BY <2>3, <2>4, <3>1, <3>2, <3>3 DEF WorldStep
  <2>6. /\ h \in ReqTypes /\ req'[q] = h /\ h.pc = "save" /\ h.conn = c /\ h.inv = i
        /\ h.of = k /\ req' = [req EXCEPT ![q] = h]
    BY <1>3, ReqFacts DEF ReqTypes
  <2> HIDE DEF h
  <2>7. reqSound(q)'
    BY <1>3, <2>6 DEF reqSound, dbVars
  <2> QED BY <1>1, <2>1, <2>2, <2>5, <2>6, <2>7, ReqStepKeeps
<1> QED BY <1>2, <1>3 DEF CreatePost

(* A row made for an invoice is never a FUNDED one.                        *)
LEMMA SavedIsPlain ==
  ASSUME NEW i \in Invoices, NEW st \in {"PENDING", "PAID", "SETTLED"}
  PROVE  /\ RowsOK(SavedInvoice(i, st)) /\ DOMAIN SavedInvoice(i, st) = {InvoiceOf(i)}
         /\ \A r : r \notin fundedIn(SavedInvoice(i, st))
<1>1. mapXenditStatusToInternal(st) \in {"PENDING", "PAID"}
  BY DEF mapXenditStatusToInternal
<1>2. /\ Row(mapXenditStatusToInternal(st), NoOne, 1) \in RowType
      /\ Row(mapXenditStatusToInternal(st), NoOne, 1).st # "FUNDED"
  BY <1>1 DEF Row, RowType, InvoiceStatus
<1> QED BY <1>2, RowNames DEF SavedInvoice, RowsOK, fundedIn

LEMMA CreateSaveStep ==
  ASSUME IInv, NEW q \in Requests, CreateSave(q)
  PROVE  IInv'
<1> PICK c \in Conns : c = req[q].conn /\ owner[c] = q
  BY ReqFacts DEF reqSound, CreateSave
<1> PICK i \in Invoices : i = req[q].inv
  BY ReqFacts DEF reqSound, CreateSave
<1>1. WorldStep(q) /\ UNCHANGED <<hook, job>> /\ req[q].pc = "save"
  BY WorldSame DEF CreateSave, envVars, ledgerVars, jobVars
<1>2. CASE CreateFail(q)
  BY <1>1, <1>2, CreateFailKeeps
<1>3. CASE /\ WriteAndCommit(c, SavedInvoice(i, "PENDING")) /\ GiveBack(c)
           /\ req' = [req EXCEPT ![q] = [IdleReq EXCEPT !.pc = "done"]]
           /\ held' = held
  <2> PICK new : new = SavedInvoice(i, "PENDING")
    OBVIOUS
  <2> PICK written, none : written = DOMAIN new /\ none = fundedIn(new)
    OBVIOUS
  <2>1. RowsOK(new) /\ DOMAIN new = {InvoiceOf(i)} /\ \A r : r \notin fundedIn(new)
    BY SavedIsPlain
  <2>2. DbStep({}, DOMAIN new, fundedIn(new))
    BY <1>3, <2>1, ReqFacts, WriteAndCommitStep
  <2>3. DbStep({}, written, none) /\ \A r : r \notin none
    BY <2>1, <2>2
  <2>4. \A j : ClaimOf(j) \notin written
    BY <2>1, RowNames
  <2>5. OwnStep(q, {})
    BY <1>3, OwnGiveBack
  <2> QED BY <1>1, <1>3, <2>3, <2>4, <2>5, ReqEnds
<1> QED BY <1>2, <1>3 DEF CreateSave
-----------------------------------------------------------------------------
(* The reconciliation job.                                                 *)

LEMMA JobFacts ==
  ASSUME IInv
  PROVE  /\ job \in JobTypes /\ jobSound /\ DbTypeOK /\ nothingOutside
         /\ Job \in Callers /\ Job # NoOne
         /\ Job \notin Webhooks /\ Job \notin Requests
         /\ \A i \in Invoices : Paid(i) => posted(i)
BY Typed, CallersAssumption, NoOneIsNoCaller, DistinctAssumption
   DEF IInv, invoicesNamed, posted, Paid

(* A step that changes no handler and no request, and nothing of the pool.  *)
LEMMA OutsideKeeps ==
  ASSUME IInv, NEW p, p \notin Webhooks, p \notin Requests,
         NEW written, NEW funded, DbStep({}, written, funded),
         \A i : ClaimOf(i) \notin written, \A r \in funded : backed(r),
         UNCHANGED <<owner, held>>, WorldStep(p), UNCHANGED <<hook, req>>,
         job' \in JobTypes, jobSound' \/ UNCHANGED job
  PROVE  IInv'
<1>1. hook' \in [Webhooks -> HookTypes] /\ req' \in [Requests -> ReqTypes]
  BY Typed DEF IInv
<1>2. OwnStep(p, {})
  BY OwnStill
<1>3. \A w \in Webhooks : hookKept(w, p, written)
  BY DEF hookKept
<1>4. /\ \A w \in Webhooks : hookSound(w)' \/ hookKept(w, p, written)
      /\ \A q \in Requests : reqSound(q)' \/ (q # p /\ req'[q] = req[q])
  BY <1>3
<1> QED BY <1>1, <1>2, <1>4, StepKeeps

(* The same where the database is not touched.                             *)
LEMMA OutsideQuiet ==
  ASSUME IInv, NEW p, p \notin Webhooks, p \notin Requests,
         UNCHANGED dbVars, WorldStep(p), UNCHANGED <<hook, req>>,
         job' \in JobTypes, jobSound' \/ UNCHANGED job
  PROVE  IInv'
<1> PICK none : none = {}
  OBVIOUS
<1>1. DbStep({}, {}, {}) /\ UNCHANGED <<owner, held>>
  BY JobFacts, RowsStill DEF dbVars, DbTypeOK
<1>2. DbStep({}, none, none)
  BY <1>1
<1>3. /\ \A i : ClaimOf(i) \notin none
      /\ \A r \in none : backed(r)
  OBVIOUS
<1> QED BY <1>1, <1>2, <1>3, OutsideKeeps

LEMMA IdleJobIsSound == IdleJob \in JobTypes /\ (job' = IdleJob => jobSound')
BY DEF IdleJob, JobTypes, jobSound

LEMMA NextInvoiceIsSound ==
  ASSUME IInv, NextInvoice, UNCHANGED xendit
  PROVE  job' \in JobTypes /\ jobSound'
<1>1. /\ job' \in JobTypes /\ job'.todo = job.todo /\ job'.pc = "next"
  BY JobFacts DEF NextInvoice, JobTypes
<1> QED BY <1>1, JobFacts DEF jobSound, Paid

LEMMA JobStartStep ==
  ASSUME IInv, NEW c \in Conns, JobStart(c)
  PROVE  IInv'
<1> DEFINE found == findForReconciliation(c)
           paid == {<<i, RowOf(c, i).v>> : i \in {j \in found : RowOf(c, j).st = "PAID"}}
           j == [IdleJob EXCEPT !.pc = "next", !.todo = listPaidInvoices,
                                !.found = found, !.paid = paid]
<1>1. /\ job' = j /\ UNCHANGED dbVars /\ UNCHANGED <<hook, req>> /\ UNCHANGED xendit
      /\ WorldStep(Job)
  BY WorldSame DEF JobStart, jobUnchanged, envVars, ledgerVars
<1>2. found \subseteq Invoices /\ listPaidInvoices \subseteq Invoices
  BY DEF findForReconciliation, listPaidInvoices
<1>3. \A i \in Invoices : RowOf(c, i).v \in Nat
  <2> SUFFICES ASSUME NEW i \in Invoices PROVE RowOf(c, i).v \in Nat
    OBVIOUS
  <2>1. RowOf(c, i) \in RowType
    BY JobFacts, RowNames DEF RowOf, Read, DbTypeOK
  <2> QED BY <2>1 DEF RowType
<1>4. paid \subseteq Invoices \X Nat
  BY <1>2, <1>3
<1>5. j \in JobTypes /\ j.pc = "next" /\ j.todo = listPaidInvoices
  <2> HIDE DEF found, paid
  <2> QED BY <1>2, <1>4 DEF IdleJob, JobTypes
<1> HIDE DEF j
<1>6. jobSound'
  BY <1>1, <1>5 DEF jobSound, listPaidInvoices, Paid
<1> QED BY <1>1, <1>5, <1>6, JobFacts, OutsideQuiet

LEMMA JobNextStep ==
  ASSUME IInv, NEW i \in Invoices, JobNext(i)
  PROVE  IInv'
<1>1. /\ UNCHANGED dbVars /\ UNCHANGED <<hook, req>> /\ UNCHANGED xendit
      /\ WorldStep(Job) /\ i \in job.todo /\ Paid(i) /\ job.pc = "next"
  BY WorldSame, JobFacts DEF JobNext, jobUnchanged, envVars, ledgerVars, jobSound
<1>2. \A k \in Invoices : Paid(k)' <=> Paid(k)
  BY <1>1 DEF Paid
<1>3. /\ job' \in JobTypes /\ job'.todo = job.todo \ {i}
      /\ job'.pc \in {"next", "create", "submit"}
      /\ job'.pc # "next" => job'.inv = i
  <2>1. CASE job' = [job EXCEPT !.todo = @ \ {i}, !.inv = i, !.pc = "create"]
    BY <2>1, JobFacts DEF JobTypes
  <2>2. CASE job' = [job EXCEPT !.todo = @ \ {i}]
    BY <1>1, <2>2, JobFacts DEF JobTypes
  <2>3. ASSUME NEW p \in job.paid,
               job' = [job EXCEPT !.todo = @ \ {i}, !.inv = i, !.seen = p[2],
                                  !.pc = "submit"]
        PROVE  <1>3!:
    <3>1. p[2] \in Nat
      BY JobFacts DEF JobTypes
    <3> QED BY <2>3, <3>1, JobFacts DEF JobTypes
  <2> QED BY <2>1, <2>2, <2>3 DEF JobNext
<1>4. jobSound'
  <2>1. \A k \in job.todo : k \in Invoices /\ Paid(k)
    BY JobFacts DEF jobSound, JobTypes
  <2> QED BY <1>1, <1>2, <1>3, <2>1 DEF jobSound
<1> QED BY <1>1, <1>3, <1>4, JobFacts, OutsideQuiet

LEMMA RepairStep ==
  ASSUME IInv, RepairMissingDbRecord
  PROVE  IInv'
<1>1. /\ NextInvoice /\ UNCHANGED <<hook, req>> /\ UNCHANGED xendit /\ WorldStep(Job)
      /\ job.inv \in Invoices /\ Paid(job.inv)
  BY WorldSame, JobFacts DEF RepairMissingDbRecord, jobUnchanged, envVars, ledgerVars, jobSound
<1>2. job' \in JobTypes /\ jobSound'
  BY <1>1, NextInvoiceIsSound
<1>3. CASE UNCHANGED dbVars
  BY <1>1, <1>2, <1>3, JobFacts, OutsideQuiet
<1>4. ASSUME NEW c \in Free, Write(c, SavedInvoice(job.inv, xendit[job.inv].st)),
             UNCHANGED <<open, owner, held>>
      PROVE  IInv'
  <2> PICK i, st : i = job.inv /\ st = xendit[job.inv].st
    OBVIOUS
  <2> PICK new : new = SavedInvoice(i, st)
    OBVIOUS
  <2> PICK written, none : written = DOMAIN new /\ none = fundedIn(new)
    OBVIOUS
  <2>1. RowsOK(new) /\ DOMAIN new = {InvoiceOf(i)} /\ \A r : r \notin fundedIn(new)
    BY <1>1, SavedIsPlain DEF Paid
  <2>2. DbStep({}, DOMAIN new, fundedIn(new))
    BY <1>4, <2>1, JobFacts, WriteStep DEF Free
  <2>3. DbStep({}, written, none) /\ \A r : r \notin none
    BY <2>1, <2>2
  <2>4. \A j : ClaimOf(j) \notin written
    BY <2>1, RowNames
  <2> QED BY <1>1, <1>2, <1>4, <2>3, <2>4, JobFacts, OutsideKeeps
<1> QED BY <1>3, <1>4 DEF RepairMissingDbRecord

LEMMA RetryMarkFundedStep ==
  ASSUME IInv, RetryMarkFunded
  PROVE  IInv'
<1>1. /\ UNCHANGED dbVars /\ UNCHANGED <<hook, req>> /\ UNCHANGED xendit
      /\ UNCHANGED chain /\ job.inv \in Invoices /\ Paid(job.inv) /\ posted(job.inv)
  BY JobFacts DEF RetryMarkFunded, jobUnchanged, envVars, jobSound
<1>2. WorldStep(Job)
  <2>1. CASE sent' = sent
    BY <1>1, <2>1, WorldSame DEF ledgerVars
  <2>2. CASE Submit(Job, xendit[job.inv].of)
    BY <1>1, <2>2, WorldSubmit, JobFacts DEF posted
  <2> QED BY <2>1, <2>2 DEF RetryMarkFunded
<1>3. /\ job' \in JobTypes /\ job'.todo = job.todo /\ job'.inv = job.inv
      /\ job'.pc \in {"wait", "record"}
  BY JobFacts DEF RetryMarkFunded, JobTypes
<1>4. jobSound'
  BY <1>1, <1>3, JobFacts DEF jobSound, Paid
<1> QED BY <1>1, <1>2, <1>3, <1>4, JobFacts, OutsideQuiet

LEMMA RetryWaitStep ==
  ASSUME IInv, RetryWait
  PROVE  IInv'
<1>1. /\ UNCHANGED dbVars /\ UNCHANGED <<hook, req>> /\ UNCHANGED xendit /\ UNCHANGED chain
      /\ WorldStep(Job) /\ job.inv \in Invoices /\ Paid(job.inv) /\ posted(job.inv)
  BY WorldSame, JobFacts DEF RetryWait, jobUnchanged, envVars, ledgerVars, jobSound
<1>2. /\ job' \in JobTypes /\ job'.todo = job.todo /\ job'.inv = job.inv
      /\ job'.pc \in {"update", "record"}
      /\ job'.pc = "update" => sent[Job][xendit[job.inv].of] = "mined"
  BY JobFacts DEF RetryWait, JobTypes
<1>3. job'.pc = "update" => chain[xendit[job.inv].of] = "FUNDED"
  BY <1>1, <1>2, JobFacts DEF IInv, fundedOnce, posted
<1>4. jobSound'
  BY <1>1, <1>2, <1>3, JobFacts DEF jobSound, Paid
<1> QED BY <1>1, <1>2, <1>4, JobFacts, OutsideQuiet

LEMMA RetryUpdateStep ==
  ASSUME IInv, RetryUpdate
  PROVE  IInv'
<1>1. /\ UNCHANGED <<hook, req>> /\ UNCHANGED xendit /\ WorldStep(Job)
      /\ job.inv \in Invoices /\ posted(job.inv) /\ chain[xendit[job.inv].of] = "FUNDED"
      /\ job.seen \in Nat
  BY WorldSame, JobFacts DEF RetryUpdate, jobUnchanged, envVars, ledgerVars, jobSound, JobTypes
<1>2. /\ job' \in JobTypes /\ job'.todo = job.todo /\ job'.pc = "record"
  BY JobFacts DEF RetryUpdate, JobTypes
<1>3. jobSound'
  BY <1>1, <1>2, JobFacts DEF jobSound, Paid
<1>4. CASE UNCHANGED dbVars
  BY <1>1, <1>2, <1>3, <1>4, JobFacts, OutsideQuiet
<1>5. ASSUME NEW c \in Free, Write(c, updateInvoice(c, job.inv, "FUNDED", job.seen)),
             UNCHANGED <<open, owner, held>>
      PROVE  IInv'
  <2> PICK i, seen : i = job.inv /\ seen = job.seen
    OBVIOUS
  <2> PICK new : new = updateInvoice(c, i, "FUNDED", seen)
    OBVIOUS
  <2> PICK written, funded : written = DOMAIN new /\ funded = fundedIn(new)
    OBVIOUS
  <2>1. /\ DOMAIN new \subseteq {InvoiceOf(i)}
        /\ \A r \in DOMAIN new : new[r] \in RowType
    <3>1. seen \in Nat /\ "FUNDED" \in InvoiceStatus
      BY <1>1 DEF InvoiceStatus
    <3> QED BY <3>1, UpdateIsTyped
  <2>2. RowsOK(new)
    <3>1. InvoiceOf(i) \in Rows
      BY <1>1, RowNames
    <3> QED BY <2>1, <3>1 DEF RowsOK
  <2>3. DbStep({}, DOMAIN new, fundedIn(new))
    BY <1>5, <2>2, JobFacts, WriteStep DEF Free
  <2>4. DbStep({}, written, funded)
    BY <2>3
  <2>5. \A j : ClaimOf(j) \notin written
    BY <2>1, RowNames
  <2>6. \A r \in funded : backed(r)
    <3>1. backed(InvoiceOf(i))
      BY <1>1, RowNames DEF backed
    <3>2. \A r \in funded : r = InvoiceOf(i)
      BY <2>1 DEF fundedIn
    <3> QED BY <3>1, <3>2
  <2> QED BY <1>1, <1>2, <1>3, <1>5, <2>4, <2>5, <2>6, JobFacts, OutsideKeeps
<1> QED BY <1>4, <1>5 DEF RetryUpdate

LEMMA JobKeeps ==
  ASSUME IInv, JobStep
  PROVE  IInv'
<1>1. CASE JobAbort \/ JobEnd
  <2>1. /\ job' = IdleJob /\ UNCHANGED dbVars /\ UNCHANGED <<hook, req>> /\ WorldStep(Job)
    BY <1>1, WorldSame DEF JobAbort, JobEnd, jobUnchanged, envVars, ledgerVars
  <2>2. job' \in JobTypes /\ jobSound'
    BY <2>1, IdleJobIsSound
  <2> QED BY <2>1, <2>2, JobFacts, OutsideQuiet
<1>2. CASE RecordRetryAttempt
  <2>1. /\ NextInvoice /\ UNCHANGED dbVars /\ UNCHANGED <<hook, req>> /\ WorldStep(Job)
        /\ UNCHANGED xendit
    BY <1>2, WorldSame DEF RecordRetryAttempt, jobUnchanged, envVars, ledgerVars
  <2>2. job' \in JobTypes /\ jobSound'
    BY <2>1, NextInvoiceIsSound
  <2> QED BY <2>1, <2>2, JobFacts, OutsideQuiet
<1> QED BY <1>1, <1>2, JobNextStep, RepairStep, RetryMarkFundedStep, RetryWaitStep,
           RetryUpdateStep DEF JobStep
-----------------------------------------------------------------------------
(* Xendit, the buyer, the ledger, the pool and the death of the process.    *)

LEMMA EnvironmentStep ==
  ASSUME IInv, Environment
  PROVE  IInv'
<1>1. /\ UNCHANGED dbVars /\ UNCHANGED <<hook, req, job>> /\ UNCHANGED <<chain, sent>>
  BY DEF Environment, Pay, Expire, Settle, GrowLate, ledgerVars, jobVars
<1>2. /\ xendit \in [Invoices -> [st : {"none", "PENDING", "PAID", "SETTLED", "EXPIRED"},
                                  of : Contracts \cup {NoOne}]]
      /\ chain \in [Contracts -> {"CREATED", "FUNDED"}]
      /\ sent \in [Callers -> [Contracts -> {"none", "pending", "mined", "reverted"}]]
      /\ invoicesNamed /\ fundedOnce
  BY DEF IInv, TypeOK
<1>3. ASSUME NEW i \in Invoices, NEW st \in {"PAID", "EXPIRED", "SETTLED"},
             xendit' = [xendit EXCEPT ![i].st = st], xendit[i].st # "none",
             Paid(i) => st = "SETTLED"
      PROVE  WorldStep(NoOne)
  <2>1. /\ xendit' \in [Invoices -> [st : {"none", "PENDING", "PAID", "SETTLED", "EXPIRED"},
                                     of : Contracts \cup {NoOne}]]
        /\ xendit'[i].st = st /\ \A j \in Invoices : xendit'[j].of = xendit[j].of
        /\ \A j \in Invoices : j # i => xendit'[j].st = xendit[j].st
    BY <1>2, <1>3
  <2>2. \A j \in Invoices :
           /\ xendit[j].st # "none" => xendit'[j].st # "none" /\ xendit'[j].of = xendit[j].of
           /\ Paid(j) => Paid(j)'
    BY <1>3, <2>1 DEF Paid
  <2>3. invoicesNamed' /\ fundedOnce'
    BY <1>1, <1>2, <1>3, <2>1 DEF invoicesNamed, fundedOnce, posted
  <2> QED BY <1>1, <1>2, <2>1, <2>2, <2>3 DEF WorldStep
<1>4. WorldStep(NoOne)
  <2>1. ASSUME NEW i \in Invoices, Pay(i) PROVE WorldStep(NoOne)
    BY <1>3, <2>1 DEF Pay, Paid
  <2>2. ASSUME NEW i \in Invoices, Expire(i) PROVE WorldStep(NoOne)
    BY <1>3, <2>2 DEF Expire, Paid
  <2>3. ASSUME NEW i \in Invoices, Settle(i) PROVE WorldStep(NoOne)
    BY <1>3, <2>3 DEF Settle, Paid
  <2>4. ASSUME NEW i \in Invoices, GrowLate(i) PROVE WorldStep(NoOne)
    BY <2>4, WorldSame DEF GrowLate
  <2> QED BY <2>1, <2>2, <2>3, <2>4 DEF Environment
<1> QED BY <1>1, <1>4, JobFacts, CallersAssumption, NoOneIsNoCaller, OutsideQuiet

(* Only one markFunded transaction of a contract is mined without revert.   *)
LEMMA MineStep ==
  ASSUME IInv, NEW p \in Callers, NEW k \in Contracts, Mine(p, k)
  PROVE  IInv'
<1>1. /\ UNCHANGED dbVars /\ UNCHANGED <<hook, req, job, xendit>> /\ sent[p][k] = "pending"
  BY DEF Mine, envVars, jobVars
<1>2. /\ xendit \in [Invoices -> [st : {"none", "PENDING", "PAID", "SETTLED", "EXPIRED"},
                                  of : Contracts \cup {NoOne}]]
      /\ chain \in [Contracts -> {"CREATED", "FUNDED"}]
      /\ sent \in [Callers -> [Contracts -> {"none", "pending", "mined", "reverted"}]]
      /\ invoicesNamed /\ fundedOnce
  BY DEF IInv, TypeOK
<1>3. /\ chain' \in [Contracts -> {"CREATED", "FUNDED"}]
      /\ sent' \in [Callers -> [Contracts -> {"none", "pending", "mined", "reverted"}]]
      /\ \A j \in Contracts : chain[j] = "FUNDED" => chain'[j] = "FUNDED"
      /\ \A q \in Callers, j \in Contracts :
           q # p \/ j # k => sent'[q][j] = sent[q][j]
      /\ sent'[p][k] = "mined" => chain[k] = "CREATED" /\ chain'[k] = "FUNDED"
  <2>1. CASE /\ chain[k] = "CREATED" /\ chain' = [chain EXCEPT ![k] = "FUNDED"]
             /\ sent' = [sent EXCEPT ![p][k] = "mined"]
    BY <1>2, <2>1
  <2>2. CASE /\ chain[k] # "CREATED" /\ chain' = chain
             /\ sent' = [sent EXCEPT ![p][k] = "reverted"]
    <3>1. sent' \in [Callers -> [Contracts -> {"none", "pending", "mined", "reverted"}]]
      BY <1>2, <2>2
    <3>2. sent'[p][k] = "reverted"
      BY <1>2, <2>2
    <3>3. \A q \in Callers, j \in Contracts : q # p \/ j # k => sent'[q][j] = sent[q][j]
      BY <1>2, <2>2
    <3> QED BY <1>2, <2>2, <3>1, <3>2, <3>3
  <2> QED BY <2>1, <2>2 DEF Mine
<1>4. fundedOnce'
  BY <1>2, <1>3 DEF fundedOnce
<1>5. invoicesNamed' /\ \A i \in Invoices : Paid(i)' <=> Paid(i)
  BY <1>1, <1>2 DEF invoicesNamed, posted, Paid
<1>6. \A q \in Callers, j \in Contracts : sent[q][j] = "mined" => sent'[q][j] = "mined"
  BY <1>1, <1>3
<1>7. WorldStep(NoOne)
  BY <1>1, <1>2, <1>3, <1>4, <1>5, <1>6 DEF WorldStep
<1> QED BY <1>1, <1>7, JobFacts, CallersAssumption, NoOneIsNoCaller, OutsideQuiet

LEMMA InvoiceExpiredStep ==
  ASSUME IInv, NEW i \in Invoices, NEW c \in Conns, InvoiceExpired(i, c)
  PROVE  IInv'
<1> PICK seen : seen = findByXenditInvoiceId(c, i).v
  OBVIOUS
<1> PICK new : new = updateInvoice(c, i, "EXPIRED", seen)
  OBVIOUS
<1> PICK written, none : written = DOMAIN new /\ none = fundedIn(new)
  OBVIOUS
<1>1. /\ Write(c, new) /\ UNCHANGED <<open, owner, held>> /\ UNCHANGED <<hook, req, job>>
      /\ WorldStep(NoOne)
  BY WorldSame DEF InvoiceExpired, envVars, jobVars
<1>2. seen \in Nat
  <2>1. Read(c, InvoiceOf(i)) \in RowType
    BY JobFacts, RowNames DEF Read, DbTypeOK
  <2> QED BY <2>1 DEF findByXenditInvoiceId, RowType
<1>3. /\ DOMAIN new \subseteq {InvoiceOf(i)}
      /\ \A r \in DOMAIN new : new[r] \in RowType /\ new[r].st # "FUNDED"
  <2>1. "EXPIRED" \in InvoiceStatus /\ "EXPIRED" # "FUNDED"
    BY DEF InvoiceStatus
  <2> QED BY <1>2, <2>1, UpdateIsTyped
<1>4. RowsOK(new)
  <2>1. InvoiceOf(i) \in Rows
    BY RowNames
  <2> QED BY <1>3, <2>1 DEF RowsOK
<1>5. DbStep({}, DOMAIN new, fundedIn(new))
  BY <1>1, <1>4, JobFacts, WriteStep
<1>6. DbStep({}, written, none)
  BY <1>5
<1>7. /\ \A j : ClaimOf(j) \notin written
      /\ \A r \in none : backed(r)
  BY <1>3, RowNames DEF fundedIn
<1> QED BY <1>1, <1>6, <1>7, JobFacts, CallersAssumption, NoOneIsNoCaller, OutsideKeeps

(* The connection that is closed is nobody's: a handler that still names it *)
(* has only its COMMIT to come.                                            *)
LEMMA IdleCloseStep ==
  ASSUME IInv, NEW c \in Conns, IdleClose(c)
  PROVE  IInv'
<1> PICK lost, none : lost = {c} /\ none = {}
  OBVIOUS
<1>1. /\ Rollback(c) /\ owner[c] = NoOne /\ UNCHANGED owner
      /\ held' = [held EXCEPT ![c] = [i \in Invoices |-> 0]]
      /\ UNCHANGED <<req, job, xendit, sent>> /\ WorldStep(NoOne)
      /\ hook' = [w \in Webhooks |-> IF hook[w].conn = c THEN [hook[w] EXCEPT !.conn = NoOne]
                                     ELSE hook[w]]
  BY WorldSame DEF IdleClose, CloseIdle, Free, envVars, ledgerVars, jobVars
<1>2. DbStep(lost, none, none)
  <2>1. DbStep({c}, {}, {})
    BY <1>1, JobFacts, RollbackStep
  <2> QED BY <2>1
<1>3. /\ held \in [Conns -> [Invoices -> Nat]] /\ oneLockHolder
      /\ owner \in [Conns -> Callers \cup {NoOne}]
  BY JobFacts DEF DbTypeOK, IInv
<1>4. /\ held' \in [Conns -> [Invoices -> Nat]]
      /\ \A i \in Invoices : held'[c][i] = 0
      /\ \A d \in Conns : d # c => held'[d] = held[d]
  BY <1>1, <1>3
<1>5. oneLockHolder'
  BY <1>3, <1>4 DEF oneLockHolder
<1>6. \A d \in Conns, i \in Invoices : owner[d] = NoOne \/ held'[d][i] >= held[d][i]
  <2> SUFFICES ASSUME NEW d \in Conns, NEW i \in Invoices, d # c
               PROVE  held'[d][i] >= held[d][i]
    BY <1>1
  <2>1. held'[d][i] = held[d][i] /\ held[d][i] \in Nat
    BY <1>3, <1>4
  <2> QED BY <2>1
<1>7. OwnStep(NoOne, lost)
  BY <1>1, <1>3, <1>4, <1>5, <1>6 DEF OwnStep
<1>8. hook' \in [Webhooks -> HookTypes]
  <2> SUFFICES ASSUME NEW w \in Webhooks PROVE hook'[w] \in HookTypes
    BY <1>1
  <2>1. hook'[w] = hook[w] \/ hook'[w] = [hook[w] EXCEPT !.conn = NoOne]
    BY <1>1
  <2> QED BY <2>1, HookFacts DEF HookTypes
<1>9. \A w \in Webhooks : hookSound(w)' \/ hookKept(w, NoOne, none)
  <2> SUFFICES ASSUME NEW w \in Webhooks PROVE hookSound(w)' \/ hookKept(w, NoOne, none)
    OBVIOUS
  <2>1. CASE hook[w].conn # c
    <3>1. hook'[w] = hook[w] /\ w # NoOne
      BY <1>1, <2>1, HookFacts
    <3> QED BY <3>1 DEF hookKept
  <2>2. CASE hook[w].conn = c
    <3>1. hook[w].pc \notin Borrowing /\ hookSound(w)
      BY <1>1, <2>2, HookFacts DEF hookSound
    <3>2. /\ hook'[w].pc = hook[w].pc /\ hook'[w].inv = hook[w].inv
          /\ hook'[w].lock = hook[w].lock /\ hook'[w].res = hook[w].res
      BY <1>1, <2>2, HookFacts DEF HookTypes
    <3>3. /\ w \notin Processing' /\ hook'[w].pc # "store"
          /\ hook'[w].pc \notin {"select", "insert"}
      BY <3>1, <3>2 DEF Processing, Borrowing
    <3>4. Paid(hook[w].inv)' <=> Paid(hook[w].inv)
      BY <1>1 DEF Paid
    <3> QED BY <1>1, <3>1, <3>2, <3>3, <3>4 DEF hookSound, HookContract, Paid
  <2> QED BY <2>1, <2>2
<1>10. req' \in [Requests -> ReqTypes] /\ job' \in JobTypes
  BY <1>1, Typed DEF IInv
<1>11. /\ \A r \in none : backed(r)
       /\ \A q \in Requests : q # NoOne /\ req'[q] = req[q]
  BY <1>1, ReqFacts
<1> QED BY <1>1, <1>2, <1>7, <1>8, <1>9, <1>10, <1>11, StepKeeps

LEMMA CrashStep ==
  ASSUME IInv, Crash
  PROVE  IInv'
<1>1. /\ CloseAll /\ job' = IdleJob /\ UNCHANGED <<xendit, chain, sent>>
      /\ hook' = [w \in Webhooks |-> IF hook[w].pc = "done" THEN hook[w]
                                     ELSE [IdleHook EXCEPT !.inv = hook[w].inv]]
      /\ req' = [q \in Requests |-> IF req[q].pc = "idle" THEN req[q]
                                    ELSE [IdleReq EXCEPT !.pc = "done"]]
  BY DEF Crash, envVars, ledgerVars
<1>2. DbStep(Conns, {}, {})
  BY <1>1, JobFacts, CloseAllStep
<1>3. /\ owner' \in [Conns -> Callers \cup {NoOne}]
      /\ held' \in [Conns -> [Invoices -> Nat]]
      /\ oneLockHolder'
  BY <1>1 DEF CloseAll, oneLockHolder
<1>4. \A w \in Webhooks :
        \/ hook'[w] = hook[w] /\ hook[w].pc = "done"
        \/ /\ hook'[w] \in HookTypes /\ hook'[w].pc = "idle"
           /\ ~hook'[w].lock /\ hook'[w].res = "none"
  BY <1>1, HookFacts DEF IdleHook, HookTypes, Results
<1>5. \A q \in Requests : req'[q] \in ReqTypes /\ req'[q].pc \in {"idle", "done"}
  BY <1>1, ReqFacts DEF IdleReq, ReqTypes
<1>6. hook' \in [Webhooks -> HookTypes] /\ req' \in [Requests -> ReqTypes]
  BY <1>1, <1>4, <1>5, HookFacts
<1>7. job' \in JobTypes /\ jobSound'
  BY <1>1, IdleJobIsSound
<1>8. WorldStep(NoOne)
  BY <1>1, WorldSame DEF ledgerVars
<1>9. TypeOK'
  BY <1>2, <1>3, <1>6, <1>7, <1>8
     DEF TypeOK, DbTypeOK, DbStep, WorldStep, HookTypes, ReqTypes, JobTypes
<1>10. \A w \in Webhooks : hookSound(w)'
  <2> SUFFICES ASSUME NEW w \in Webhooks PROVE hookSound(w)'
    OBVIOUS
  <2>1. CASE hook'[w] = hook[w] /\ hook[w].pc = "done"
    <3>1. hookSound(w) /\ w \notin Processing'
      BY <2>1, HookFacts DEF Processing
    <3> QED BY <1>1, <2>1, <3>1 DEF hookSound, Borrowing, Paid, HookContract
  <2>2. CASE hook'[w].pc = "idle" /\ ~hook'[w].lock /\ hook'[w].res = "none"
    BY <2>2 DEF hookSound, Borrowing, Processing
  <2> QED BY <1>4, <2>1, <2>2
<1>11. \A q \in Requests : reqSound(q)'
  BY <1>5 DEF reqSound
<1>12. invoicesNamed' /\ nothingOutside' /\ fundedOnce'
  BY <1>2, <1>8 DEF DbStep, WorldStep
<1>13. rowsBacked'
  <2>1. \A r \in Rows : fundedRow(r)' => fundedRow(r)
    BY <1>2 DEF DbStep
  <2> QED BY <1>1, <2>1, RowNames DEF IInv, rowsBacked, posted
<1> QED BY <1>3, <1>7, <1>9, <1>10, <1>11, <1>12, <1>13 DEF IInv
-----------------------------------------------------------------------------
LEMMA InitIInv == Init => IInv
<1> SUFFICES ASSUME Init PROVE IInv
  OBVIOUS
<1> USE DEF Init, DbInit
<1>1. db \in [Rows -> RowType] /\ \A r \in Rows : db[r].st # "FUNDED"
  <2>1. Row("CREATED", NoOne, 0) \in RowType /\ Row("CREATED", NoOne, 0).st # "FUNDED"
    BY DEF Row, RowType, ContractStatus
  <2> QED BY <2>1, EmptyRows DEF Absent, Row
<1>2. /\ tx \in [Conns -> [Rows -> RowType]]
      /\ \A c \in Conns : tx[c] = Clean /\ \A r \in Rows : tx[c][r] = Unwritten
  BY EmptyRows, CleanIsTyped DEF Clean
<1>3. hook \in [Webhooks -> HookTypes] /\ req \in [Requests -> ReqTypes] /\ job \in JobTypes
  BY IdleJobIsSound DEF IdleHook, IdleReq, HookTypes, ReqTypes, Results
<1>4. TypeOK
  BY <1>1, <1>2, <1>3
     DEF TypeOK, DbTypeOK, HookTypes, ReqTypes, JobTypes, XenditInvoice
<1>5. \A w \in Webhooks : hookSound(w)
  BY DEF hookSound, IdleHook, Processing, Borrowing
<1>6. \A q \in Requests : reqSound(q)
  BY DEF reqSound, IdleReq
<1>7. jobSound /\ invoicesNamed /\ nothingOutside /\ oneLockHolder /\ fundedOnce
  BY <1>2 DEF jobSound, IdleJob, invoicesNamed, nothingOutside, oneLockHolder, fundedOnce,
              XenditInvoice
<1>8. rowsBacked
  BY <1>1, <1>2, EmptyRows, RowNames DEF rowsBacked, fundedRow
<1> QED BY <1>4, <1>5, <1>6, <1>7, <1>8 DEF IInv

LEMMA NextKeepsIInv == IInv /\ [Next]_vars => IInv'
<1> SUFFICES ASSUME IInv, [Next]_vars PROVE IInv'
  OBVIOUS
<1>1. CASE UNCHANGED vars
  <2>1. UNCHANGED dbVars /\ UNCHANGED <<hook, req, job>> /\ UNCHANGED <<xendit, ledgerVars>>
    BY <1>1 DEF vars, envVars, jobVars
  <2> QED BY <2>1, WorldSame, JobFacts, CallersAssumption, NoOneIsNoCaller, OutsideQuiet
<1>2. ASSUME NEW q \in Requests, CreateQris(q) PROVE IInv'
  BY <1>2, CreateBeginStep, CreateCheckStep, CreatePostStep, CreateSaveStep DEF CreateQris
<1>3. ASSUME NEW w \in Webhooks, ProcessPayment(w) PROVE IInv'
  BY <1>3, TryAdvisoryLockStep, SelectClaimStep, InsertClaimStep, ValidateStep, StatusStep,
     MarkFundedStep, WaitStep, StoreStep, FinalizeReleaseStep, FinalizeCommitStep, CatchStep
     DEF ProcessPayment, AcquireProcessingLock
<1>4. CASE Next
  BY <1>2, <1>3, <1>4, EnvironmentStep, MineStep, DeliverStep, InvoiceExpiredStep,
     JobStartStep, JobKeeps, IdleCloseStep, CrashStep DEF Next
<1> QED BY <1>1, <1>4

(* The inductive invariant: what a handler relies on between two awaits     *)
(* survives every step of the other handlers, requests and the job, the     *)
(* connections the pool closes and the death of the process.               *)
THEOREM InvariantHolds == Spec => []IInv
BY InitIInv, NextKeepsIInv, PTL DEF Spec

(* Two deliveries of the webhook of one invoice are never at work at once   *)
(* (acquireProcessingLock), however many deliveries and connections.       *)
THEOREM OneProcessor == Spec => []OneProcessorPerInvoice
<1>1. IInv => OneProcessorPerInvoice
  <2> SUFFICES ASSUME IInv, NEW v \in Processing, NEW w \in Processing,
                      hook[v].inv = hook[w].inv
               PROVE  v = w
    BY DEF OneProcessorPerInvoice
  <2>1. /\ v \in Webhooks /\ w \in Webhooks
        /\ hook[v].pc \in Borrowing /\ hook[w].pc \in Borrowing
    BY DEF Processing, Borrowing
  <2>2. /\ hook[v].conn \in Conns /\ owner[hook[v].conn] = v
        /\ hook[w].conn \in Conns /\ owner[hook[w].conn] = w
        /\ hook[v].inv \in Invoices
    BY <2>1, ProcessingFacts, HookFacts
  <2>3. held[hook[v].conn][hook[v].inv] > 0 /\ held[hook[w].conn][hook[v].inv] > 0
    BY <2>1 DEF IInv, hookSound
  <2> QED BY <2>2, <2>3 DEF IInv, oneLockHolder
<1> QED BY <1>1, InvariantHolds, PTL

(* From the claim to the COMMIT a handler keeps its connection, its row of  *)
(* xendit_idempotency and its advisory lock, although other handlers end    *)
(* transactions and free locks on connections they no longer hold.         *)
THEOREM ClaimStands == Spec => []ClaimStandsWhileFunding
<1>1. IInv => ClaimStandsWhileFunding
  <2> SUFFICES ASSUME IInv, NEW w \in Processing
               PROVE  /\ owner[hook[w].conn] = w
                      /\ Read(hook[w].conn, ClaimOf(hook[w].inv)).by = w
                      /\ held[hook[w].conn][hook[w].inv] > 0
    BY DEF ClaimStandsWhileFunding
  <2>1. w \in Webhooks /\ hook[w].pc \in Borrowing
    BY DEF Processing, Borrowing
  <2> QED BY <2>1, HookFacts DEF hookSound
<1> QED BY <1>1, InvariantHolds, PTL

(* No row of a contract or of its invoices says FUNDED, in the tables or in *)
(* an open transaction, before the ledger does (processPaymentWebhook steps *)
(* 8 to 10, retryMarkFunded).                                              *)
THEOREM RowsFollowTheLedger == Spec => []NoFundedRowAheadOfLedger
<1>1. IInv => NoFundedRowAheadOfLedger
  <2> SUFFICES ASSUME IInv, NEW k \in Contracts, NEW c \in Conns,
                      \/ Read(c, ContractOf(k)).st = "FUNDED"
                      \/ \E r \in RowsOfContract(k) : Read(c, r).st = "FUNDED"
               PROVE  chain[k] = "FUNDED"
    BY DEF NoFundedRowAheadOfLedger
  <2>1. \A r \in Rows : Read(c, r).st = "FUNDED" => fundedRow(r)
    BY DEF Read, fundedRow
  <2>2. CASE Read(c, ContractOf(k)).st = "FUNDED"
    BY <2>1, <2>2, RowNames DEF IInv, rowsBacked
  <2>3. ASSUME NEW r \in RowsOfContract(k), Read(c, r).st = "FUNDED"
        PROVE  chain[k] = "FUNDED"
    <3> PICK i \in Invoices : r = InvoiceOf(i) /\ xendit[i].of = k
      BY DEF RowsOfContract
    <3>1. fundedRow(InvoiceOf(i))
      BY <2>1, <2>3, RowNames
    <3> QED BY <3>1 DEF IInv, rowsBacked
  <2> QED BY <2>2, <2>3
<1> QED BY <1>1, InvariantHolds, PTL

(* At most one delivery of all the invoices of a contract is answered       *)
(* SUCCESS: the contract is marked FUNDED for one payment.                 *)
THEOREM PaidForOnce == Spec => []OneSuccessPerContract
<1>1. IInv => OneSuccessPerContract
  <2> SUFFICES ASSUME IInv, NEW v \in Webhooks, NEW w \in Webhooks,
                      hook[v].res = "SUCCESS", hook[w].res = "SUCCESS",
                      HookContract(v) = HookContract(w)
               PROVE  v = w
    BY DEF OneSuccessPerContract
  <2>1. /\ sent[v][HookContract(v)] = "mined" /\ sent[w][HookContract(v)] = "mined"
        /\ hook[v].pc # "idle"
    BY HookFacts DEF hookSound
  <2>2. v \in Callers /\ w \in Callers /\ HookContract(v) \in Contracts
    BY <2>1, HookFacts
  <2> QED BY <2>1, <2>2 DEF IInv, fundedOnce
<1> QED BY <1>1, InvariantHolds, PTL
=============================================================================
