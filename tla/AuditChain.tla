----------------------------- MODULE AuditChain -----------------------------
(***************************************************************************)
(* The writers of public.audit_event: appendAuditEvent and                 *)
(* appendSystemAuditEvent (packages/db/src/audit.ts), and the SQL of the   *)
(* login and membership functions, which append in the same way.           *)
(*                                                                         *)
(* A writer appends one or two events inside a READ COMMITTED transaction  *)
(* that also does other work.  Of that work only the lock it takes on the  *)
(* account's row matters here, because every audit_event row refers to its *)
(* account and the INSERT therefore waits for whoever has that row FOR     *)
(* UPDATE.  PostgreSQL breaks a circle of waiting transactions by aborting *)
(* one, and lock_timeout aborts any that wait; Abort stands for both.      *)
(***************************************************************************)
EXTENDS Naturals, FiniteSets

CONSTANTS
  Accounts,       \* each has one chain and one row of audit_account_state
  System,         \* the accountless chain, with the row of audit_system_state
  Connections,    \* server connections, each with one transaction at a time
  Nobody,         \* no connection
  MaxSeq          \* bound on audit_event_chain_seq

ASSUME SystemAssumption == System \notin Accounts
ASSUME NobodyAssumption == Nobody \notin Connections
ASSUME MaxSeqAssumption == MaxSeq \in Nat

Chains == Accounts \cup {System}

VARIABLES
  committed,      \* audit_event rows of committed transactions
  pending,        \* those that each open transaction has inserted
  seq,            \* audit_event_chain_seq; nextval is never rolled back
  pc,             \* the next statement of each connection
  kind,           \* what its transaction is for
  chain,          \* the chain it appends to
  left,           \* events it still has to append
  tail,           \* previous_event_id
  held,           \* its lock on the row of the account
  locker          \* who has each chain's state row FOR UPDATE

vars == << committed, pending, seq, pc, kind, chain, left, tail, held, locker >>

Ledger == INSTANCE AuditLedger WITH ledger <- committed

\* download: createReportDownload, and auth_update_membership.
\* record:   recordClaimedRunnerResult.
\* create:   createAssessment and queueAssessment, invitations and their acceptance.
\* publish:  publishSucceededJob.
\* login:    auth_complete_provider_login.
\* request:  the API's audit of requests, in the system chain.
Kind == {"download", "record", "create", "publish", "login", "request"}

\* The lock that the transaction's earlier statements take on the account: none,
\* the one of a reference to it, or FOR UPDATE.
Opening(k) ==
  CASE k \in {"create", "publish"} -> "shared"
    [] k = "login"                 -> "exclusive"
    [] OTHER                       -> "none"

Appends(k) == IF k \in {"record", "publish"} THEN 2 ELSE 1

ChainsFor(k) == IF k = "request" THEN {System} ELSE Accounts

Statement == {"idle", "open", "state", "tail", "insert", "references", "commit"}

TypeOK ==
  /\ committed \subseteq Ledger!Event
  /\ pending \in [Connections -> SUBSET Ledger!Event]
  /\ seq \in Nat
  /\ pc \in [Connections -> Statement]
  /\ kind \in [Connections -> Kind]
  /\ chain \in [Connections -> Chains]
  /\ left \in [Connections -> 0..2]
  /\ tail \in [Connections -> Nat]
  /\ held \in [Connections -> {"none", "shared", "exclusive"}]
  /\ locker \in [Chains -> Connections \cup {Nobody}]

Init ==
  /\ committed = {}
  /\ pending = [c \in Connections |-> {}]
  /\ seq = 0
  /\ pc = [c \in Connections |-> "idle"]
  /\ kind = [c \in Connections |-> "request"]
  /\ chain = [c \in Connections |-> System]
  /\ left = [c \in Connections |-> 0]
  /\ tail = [c \in Connections |-> 0]
  /\ held = [c \in Connections |-> "none"]
  /\ locker = [h \in Chains |-> Nobody]

-----------------------------------------------------------------------------
(***************************************************************************)
(* Locks.  A "Variant" is used by no action: it is the definition below it *)
(* with one slip in it, kept to show that a property would notice.         *)
(***************************************************************************)

Others(c) == {d \in Connections \ {c} : chain[d] = chain[c]}

\* Who keeps c from a lock of the account row in this mode.
AccountHolders(c, mode) ==
  CASE mode = "shared"    -> {d \in Others(c) : held[d] = "exclusive"}
    [] mode = "exclusive" -> {d \in Others(c) : held[d] # "none"}
    [] OTHER              -> {}

\* Variant: the reference is checked with the lock of a FOR UPDATE.
ReferenceModeExclusive(c) == IF chain[c] = System THEN "none" ELSE "exclusive"

\* An event of the system chain has no account to refer to.
ReferenceMode(c) == IF chain[c] = System THEN "none" ELSE "shared"

\* The transactions that the next statement of c waits for.
Waits(c) ==
  CASE pc[c] = "open"       -> AccountHolders(c, Opening(kind[c]))
    [] pc[c] = "state"      -> {locker[chain[c]]} \ {c, Nobody}
    [] pc[c] = "references" -> AccountHolders(c, ReferenceMode(c))
    [] OTHER                -> {}

\* The lock that c has once it is given another.
Stronger(old, new) == IF old = "exclusive" \/ new = "none" THEN old ELSE new

-----------------------------------------------------------------------------
(***************************************************************************)
(* A writer's transaction                                                  *)
(***************************************************************************)

Begin(c) ==
  /\ pc[c] = "idle"
  /\ \E k \in Kind : \E h \in ChainsFor(k) :
       /\ kind' = [kind EXCEPT ![c] = k]
       /\ chain' = [chain EXCEPT ![c] = h]
       /\ left' = [left EXCEPT ![c] = Appends(k)]
       /\ pc' = [pc EXCEPT ![c] = IF Opening(k) = "none" THEN "state" ELSE "open"]
  /\ UNCHANGED << committed, pending, seq, tail, held, locker >>

\* The statements before the append that lock the account's row.
OpenAccount(c) ==
  /\ pc[c] = "open"
  /\ Waits(c) = {}
  /\ held' = [held EXCEPT ![c] = Opening(kind[c])]
  /\ pc' = [pc EXCEPT ![c] = "state"]
  /\ UNCHANGED << committed, pending, seq, kind, chain, left, tail, locker >>

\* Variant: the state row is read without FOR UPDATE.
LockStateRead(c) ==
  /\ pc[c] = "state"
  /\ pc' = [pc EXCEPT ![c] = "tail"]
  /\ UNCHANGED << committed, pending, seq, kind, chain, left, tail, held, locker >>

\* SELECT ... FROM audit_account_state (or audit_system_state) FOR UPDATE
LockState(c) ==
  /\ pc[c] = "state"
  /\ Waits(c) = {}
  /\ locker' = [locker EXCEPT ![chain[c]] = c]
  /\ pc' = [pc EXCEPT ![c] = "tail"]
  /\ UNCHANGED << committed, pending, seq, kind, chain, left, tail, held >>

\* Variant: what the transaction itself has appended is overlooked.
VisibleCommitted(c) == committed

\* The rows a statement of c sees: a snapshot of its own, and its own rows.
Visible(c) == committed \cup pending[c]

ReadTail(c) ==
  /\ pc[c] = "tail"
  /\ \E n \in 0..seq :
       /\ Ledger!IsTail(n, Ledger!SeqsOf(chain[c], Visible(c)))
       /\ tail' = [tail EXCEPT ![c] = n]
  /\ pc' = [pc EXCEPT ![c] = "insert"]
  /\ UNCHANGED << committed, pending, seq, kind, chain, left, held, locker >>

\* INSERT: chain_seq is given by nextval before the references are checked.
Insert(c) ==
  /\ pc[c] = "insert"
  /\ seq < MaxSeq
  /\ seq' = seq + 1
  /\ pending' = [pending EXCEPT ![c] =
       @ \cup {[seq |-> seq + 1, chain |-> chain[c], prev |-> tail[c]]}]
  /\ pc' = [pc EXCEPT ![c] = "references"]
  /\ UNCHANGED << committed, kind, chain, left, tail, held, locker >>

\* audit_event_account_fk takes FOR KEY SHARE of the account's row.
CheckReferences(c) ==
  /\ pc[c] = "references"
  /\ Waits(c) = {}
  /\ held' = [held EXCEPT ![c] = Stronger(@, ReferenceMode(c))]
  /\ left' = [left EXCEPT ![c] = @ - 1]
  /\ pc' = [pc EXCEPT ![c] = IF left[c] = 1 THEN "commit" ELSE "state"]
  /\ UNCHANGED << committed, pending, seq, kind, chain, tail, locker >>

\* What the end of a transaction lets go.
Release(c) ==
  /\ pc' = [pc EXCEPT ![c] = "idle"]
  /\ pending' = [pending EXCEPT ![c] = {}]
  /\ kind' = [kind EXCEPT ![c] = "request"]
  /\ chain' = [chain EXCEPT ![c] = System]
  /\ left' = [left EXCEPT ![c] = 0]
  /\ tail' = [tail EXCEPT ![c] = 0]
  /\ held' = [held EXCEPT ![c] = "none"]
  /\ locker' = [h \in Chains |-> IF locker[h] = c THEN Nobody ELSE locker[h]]
  /\ UNCHANGED seq

Commit(c) ==
  /\ pc[c] = "commit"
  /\ committed' = committed \cup pending[c]
  /\ Release(c)

\* An error, lock_timeout, the deadlock detector, or the death of the process.
Abort(c) ==
  /\ pc[c] # "idle"
  /\ UNCHANGED committed
  /\ Release(c)

Next ==
  \E c \in Connections :
    \/ Begin(c) \/ OpenAccount(c) \/ LockState(c) \/ ReadTail(c) \/ Insert(c)
    \/ CheckReferences(c) \/ Commit(c) \/ Abort(c)

Spec == Init /\ [][Next]_vars

-----------------------------------------------------------------------------
(***************************************************************************)
(* Safety                                                                  *)
(***************************************************************************)

\* Whoever reads the trail, at any moment, finds each chain whole: one first
\* event, and every other naming the one right before it.
ChainLinked == Ledger!Linked

\* The trail is extended by whole transactions, at the end of one chain: an
\* auditor who has read a chain up to some chain_seq misses nothing below it,
\* although numbers are given before commit and lost by aborts.
LedgerSpec == Ledger!LedgerSpec

\* Transactions that wait in a circle for the account's row and the state row
\* include a login: it alone has the account FOR UPDATE while it waits for the
\* state row, so the other writers never deadlock among themselves.
DeadlockNeedsLogin ==
  \A S \in SUBSET {c \in Connections : kind[c] # "login"} :
    S # {} => \E c \in S : Waits(c) \cap S = {}
=============================================================================
