-------------------------- MODULE PaymentDatabase --------------------------
(***************************************************************************)
(* The PostgreSQL database behind the Xendit payment code and the pool of  *)
(* connections through which it is reached (database.module.ts).           *)
(*                                                                         *)
(* A connection is a database session.  It carries what PostgreSQL ties to *)
(* a session: an open transaction with the rows it wrote and has not       *)
(* committed, and the advisory locks taken with pg_try_advisory_lock,      *)
(* which neither COMMIT nor ROLLBACK gives back.  The pool lends a         *)
(* connection to one caller at a time and takes it back as it is: a        *)
(* transaction left open stays open for the next borrower.                 *)
(*                                                                         *)
(* Isolation is READ COMMITTED: a statement sees the committed rows and    *)
(* those its own session wrote, and waits to write a row another session   *)
(* wrote and has not committed.                                            *)
(***************************************************************************)
EXTENDS Naturals

CONSTANTS
    Conns,      \* connections of the pool (DATABASE_POOL_MAX of them)
    Contracts,  \* rows of table contracts
    Invoices,   \* Xendit invoice ids
    Callers,    \* who borrows connections: handlers, requests and the job
    NoOne       \* no caller

ASSUME NoOneIsNoCaller == NoOne \notin Callers

VARIABLES
    db,     \* db[r]: the committed value of row r
    tx,     \* tx[c][r]: what the open transaction of c wrote to r, or Unwritten
    open,   \* connections with a transaction open
    owner,  \* owner[c]: the caller the pool has lent c to, or NoOne
    held    \* held[c][i]: how many times session c holds the advisory lock of i

dbVars == <<db, tx, open, owner, held>>

\* The rows of xendit_idempotency, qris_invoices and contracts.
ClaimOf(i)    == <<"claim", i>>
InvoiceOf(i)  == <<"invoice", i>>
ContractOf(k) == <<"contract", k>>
Rows == {ClaimOf(i) : i \in Invoices} \cup {InvoiceOf(i) : i \in Invoices}
            \cup {ContractOf(k) : k \in Contracts}

\* REFUSED stands for the results INVALID_TIMESTAMP, CONTRACT_NOT_FOUND,
\* INVALID_AMOUNT, INVALID_STATE and BLOCKCHAIN_ERROR; no code writes the invoice
\* states CREATED, PROCESSING, FAILED and CANCELLED.
ClaimStatus    == {"PROCESSING", "SUCCESS", "REFUSED", "UNKNOWN_ERROR"}
InvoiceStatus  == {"PENDING", "PAID", "FUNDED", "EXPIRED"}
ContractStatus == {"CREATED", "FUNDED"}

\* A row: its status, the caller that inserted it (id of a claim) and its version.
Row(st, by, v) == [st |-> st, by |-> by, v |-> v]
Absent    == Row("absent", NoOne, 0)
Unwritten == Row("unwritten", NoOne, 0)

DbInit ==
    /\ db = [r \in Rows |-> IF r \in {ContractOf(k) : k \in Contracts}
                            THEN Row("CREATED", NoOne, 0) ELSE Absent]
    /\ tx = [c \in Conns |-> [r \in Rows |-> Unwritten]]
    /\ open = {}
    /\ owner = [c \in Conns |-> NoOne]
    /\ held = [c \in Conns |-> [i \in Invoices |-> 0]]

------------------------------------------------------------------------------
Free == {c \in Conns : owner[c] = NoOne}

\* A caller that would wait for a connection for ever.
NoTimeout == FALSE

\* connectionTimeoutMillis: with every connection lent, pool.connect() and
\* pool.query() reject after five seconds.
ConnectTimeout == Free = {}

\* What a statement on connection c reads in row r.
Read(c, r) == IF tx[c][r] = Unwritten THEN db[r] ELSE tx[c][r]

\* No other session holds the lock of a row of R.
Writable(c, R) == \A d \in Conns \ {c}, r \in R : tx[d][r] = Unwritten

Clean == [r \in Rows |-> Unwritten]

\* A statement on c writes rows: within the transaction of c when one is open
\* (new is a function from the rows written), else committed by itself.
Write(c, new) ==
    /\ Writable(c, DOMAIN new)
    /\ IF c \in open
       THEN /\ tx' = [tx EXCEPT ![c] = [r \in Rows |->
                            IF r \in DOMAIN new THEN new[r] ELSE tx[c][r]]]
            /\ db' = db
       ELSE /\ db' = [r \in Rows |-> IF r \in DOMAIN new THEN new[r] ELSE db[r]]
            /\ tx' = tx

\* The same on a connection whose transaction the caller then commits.
WriteAndCommit(c, new) ==
    /\ Writable(c, DOMAIN new)
    /\ db' = [r \in Rows |-> IF r \in DOMAIN new THEN new[r] ELSE Read(c, r)]
    /\ tx' = [tx EXCEPT ![c] = Clean]
    /\ open' = open \ {c}

\* COMMIT and ROLLBACK on c; each is a no-op when no transaction is open.
Commit(c) ==
    /\ db' = [r \in Rows |-> Read(c, r)]
    /\ tx' = [tx EXCEPT ![c] = Clean]
    /\ open' = open \ {c}

Rollback(c) ==
    /\ tx' = [tx EXCEPT ![c] = Clean]
    /\ open' = open \ {c}
    /\ db' = db

\* pool.connect() and BEGIN: BEGIN inside an open transaction only warns.
Borrow(p, c) ==
    /\ c \in Free
    /\ owner' = [owner EXCEPT ![c] = p]
    /\ open' = open \cup {c}

GiveBack(c) == owner' = [owner EXCEPT ![c] = NoOne]

\* pg_try_advisory_lock and pg_advisory_unlock of invoice i on session c.
TryLock(c, i) == \A d \in Conns \ {c} : held[d][i] = 0
Locked(c, i)   == [held EXCEPT ![c][i] = @ + 1]
Unlocked(c, i) == [held EXCEPT ![c][i] = IF @ > 0 THEN @ - 1 ELSE 0]

\* A connection nobody uses ends: idleTimeoutMillis, or the server or the network
\* ends it.  PostgreSQL rolls its transaction back and frees its advisory locks;
\* the pool opens a new session, which the model gives the same name.  It need
\* not happen: the pool is made with min, and the last min connections (2 unless
\* DATABASE_POOL_MIN says otherwise) need not be closed for idling.
CloseIdle(c) ==
    /\ c \in Free
    /\ c \in open \/ \E i \in Invoices : held[c][i] > 0
    /\ Rollback(c)
    /\ held' = [held EXCEPT ![c] = [i \in Invoices |-> 0]]
    /\ owner' = owner

\* The process dies: every session ends.
CloseAll ==
    /\ tx' = [c \in Conns |-> Clean]
    /\ open' = {}
    /\ owner' = [c \in Conns |-> NoOne]
    /\ held' = [c \in Conns |-> [i \in Invoices |-> 0]]
    /\ db' = db

RowType ==
    [st : ClaimStatus \cup InvoiceStatus \cup ContractStatus \cup {"absent", "unwritten"},
     by : Callers \cup {NoOne},
     v  : Nat]

DbTypeOK ==
    /\ db \in [Rows -> RowType]
    /\ tx \in [Conns -> [Rows -> RowType]]
    /\ open \subseteq Conns
    /\ owner \in [Conns -> Callers \cup {NoOne}]
    /\ held \in [Conns -> [Invoices -> Nat]]
=============================================================================
