\* Two deliveries, or one beside the reconciliation job and one crash; two requests,
\* one invoice, two connections.
SPECIFICATION FairSpec
CONSTANTS
  k1 = k1
  i1 = i1
  i2 = i2
  w1 = w1
  w2 = w2
  q1 = q1
  q2 = q2
  c1 = c1
  c2 = c2
  c3 = c3
  job0 = job0
  NoOne = NoOne
  NoInvoice = NoInvoice
  Conns = {c1, c2}
  Contracts = {k1}
  Invoices = {i1}
  Webhooks = {w1, w2}
  Requests = {q1, q2}
  Job = job0
  Callers = {w1, w2, q1, q2, job0}
  NumericStatus = TRUE
  MaxRetryAttempts = 1
  Workloads <- MCWaits
  Faults = TRUE
INVARIANT
  NoFundedRowAheadOfLedger
PROPERTY
  DeliveriesAnswered
CHECK_DEADLOCK FALSE
