\* Two deliveries, two requests, two invoices of one contract, three connections,
\* every fault and one crash; the reconciliation job is switched off.
SPECIFICATION Spec
CONSTANTS
  k1 = k1
  i1 = i1
  i2 = i2
  w1 = w1
  w2 = w2
  q1 = q1
  q2 = q2
  c1 = c1
  c2 = c2
  c3 = c3
  job0 = job0
  NoOne = NoOne
  NoInvoice = NoInvoice
  Conns = {c1, c2, c3}
  Contracts = {k1}
  Invoices = {i1, i2}
  Webhooks = {w1, w2}
  Requests = {q1, q2}
  Job = job0
  Callers = {w1, w2, q1, q2, job0}
  NumericStatus = TRUE
  MaxRetryAttempts = 1
  Workloads <- MCDeliveries
  Faults = TRUE
INVARIANTS
  OneProcessorPerInvoice
  ClaimStandsWhileFunding
  NoFundedRowAheadOfLedger
  OneSuccessPerContract
SYMMETRY Symm
CHECK_DEADLOCK FALSE
