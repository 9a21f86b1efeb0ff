---------------------------- MODULE AuditLedger ----------------------------
(***************************************************************************)
(* What the audit trail promises its reader ("Same-account concurrent      *)
(* writers have a single ordered chain"): public.audit_event holds one     *)
(* chain per account and one for the system, each event names the one      *)
(* before it, and the trail only ever grows, at the end of a chain.        *)
(***************************************************************************)
EXTENDS Naturals

CONSTANT Chains     \* the accounts, and the accountless system chain

VARIABLE ledger     \* the audit_event rows a reader can see

\* id and chain_seq of a row are both unique and stand for each other.
Event == [seq : Nat \ {0}, chain : Chains, prev : Nat]

\* ORDER BY chain_seq DESC LIMIT 1; 0 for prev_event_id IS NULL.
IsTail(n, seqs) ==
  \/ seqs = {} /\ n = 0
  \/ n \in seqs /\ \A m \in seqs : m <= n

SeqsOf(c, rows) == {e.seq : e \in {f \in rows : f.chain = c}}

\* Every event names the event that precedes it in its chain.
LinkedIn(rows) ==
  \A e \in rows : IsTail(e.prev, {n \in SeqsOf(e.chain, rows) : n < e.seq})

Linked == LinkedIn(ledger)

LedgerInit == ledger = {}

\* One transaction's events become visible together, after all that were there.
Extend(c) ==
  /\ ledger \subseteq ledger'
  /\ \A e \in ledger' \ ledger :
       /\ e.chain = c
       /\ \A n \in SeqsOf(c, ledger) : n < e.seq
  /\ Linked'

LedgerNext == \E c \in Chains : Extend(c)

LedgerSpec == LedgerInit /\ [][LedgerNext]_ledger
=============================================================================
