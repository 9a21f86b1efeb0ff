-------------------------- MODULE AuditChain_proofs --------------------------
(***************************************************************************)
(* For any number of accounts and connections: the audit trail stays       *)
(* linked, grows as AuditLedger says, and only logins can close a circle   *)
(* of waiting transactions.                                                *)
(*                                                                         *)
(* IInv says who may have uncommitted events (the one that has locked the  *)
(* chain's state row), that these come after all committed ones, and that  *)
(* the tail a transaction has read is still the tail when it inserts.      *)
(***************************************************************************)
EXTENDS AuditChain, TLAPS

Linking == {"tail", "insert", "references", "commit"}

\* No number is beyond the sequence.
Numbered ==
  /\ \A e \in committed : e.seq <= seq
  /\ \A c \in Connections : \A e \in pending[c] : e.seq <= seq

\* Only the one who has locked the state row reads the tail and appends.
Serialized ==
  \A c \in Connections :
    pc[c] \in Linking \/ pending[c] # {} => locker[chain[c]] = c

\* A lock on a state row belongs to a transaction on that chain.
LockerAtWork ==
  \A h \in Chains : locker[h] # Nobody =>
    chain[locker[h]] = h /\ pc[locker[h]] \notin {"idle", "open"}

\* Uncommitted events are the newest of their chain, and linked.
PendingLast ==
  \A c \in Connections : \A e \in pending[c] :
    /\ e.chain = chain[c]
    /\ \A f \in committed : f.chain = e.chain => f.seq < e.seq
    /\ Ledger!IsTail(e.prev, {n \in Ledger!SeqsOf(chain[c], Visible(c)) : n < e.seq})

TailCurrent ==
  \A c \in Connections :
    pc[c] = "insert" => Ledger!IsTail(tail[c], Ledger!SeqsOf(chain[c], Visible(c)))

\* Until it commits, a transaction has something left to append.
Unfinished ==
  \A c \in Connections : pc[c] \notin {"idle", "commit"} => left[c] > 0

\* Only a login under way has an account's row FOR UPDATE.
LoginsExclusive ==
  \A c \in Connections : held[c] = "exclusive" => kind[c] = "login" /\ pc[c] # "idle"

IInv ==
  /\ TypeOK
  /\ Unfinished
  /\ Numbered
  /\ Serialized
  /\ LockerAtWork
  /\ PendingLast
  /\ TailCurrent
  /\ LoginsExclusive
  /\ ChainLinked

USE NobodyAssumption

-----------------------------------------------------------------------------
(***************************************************************************)
(* Types                                                                   *)
(***************************************************************************)

LEMMA InitInv == Init => IInv
<1> SUFFICES ASSUME Init PROVE IInv
  OBVIOUS
<1>1. TypeOK
  BY DEF Init, TypeOK, Statement, Kind, Chains
<1>2. Unfinished /\ Numbered /\ Serialized /\ LockerAtWork /\ PendingLast
      /\ TailCurrent /\ LoginsExclusive
  BY DEF Init, Unfinished, Numbered, Serialized, LockerAtWork, PendingLast,
         TailCurrent, LoginsExclusive, Linking, Chains
<1>3. ChainLinked
  BY DEF Init, ChainLinked, Ledger!Linked, Ledger!LinkedIn
<1> QED
  BY <1>1, <1>2, <1>3 DEF IInv

LEMMA AppendsOneOrTwo == ASSUME NEW k \in Kind PROVE Appends(k) \in 1..2
BY DEF Appends

LEMMA TypeStep == ASSUME TypeOK, Unfinished, [Next]_vars PROVE TypeOK' /\ Unfinished'
<1> USE DEF TypeOK, Unfinished
<1>1. CASE UNCHANGED vars
  BY <1>1 DEF vars
<1> SUFFICES ASSUME NEW c \in Connections,
                    \/ Begin(c) \/ OpenAccount(c) \/ LockState(c) \/ ReadTail(c) \/ Insert(c)
                    \/ CheckReferences(c) \/ Commit(c) \/ Abort(c)
             PROVE  TypeOK' /\ Unfinished'
  BY <1>1 DEF Next
<1>2. CASE Begin(c)
  <2> PICK k \in Kind : \E h \in ChainsFor(k) :
        /\ kind' = [kind EXCEPT ![c] = k]
        /\ chain' = [chain EXCEPT ![c] = h]
        /\ left' = [left EXCEPT ![c] = Appends(k)]
        /\ pc' = [pc EXCEPT ![c] = IF Opening(k) = "none" THEN "state" ELSE "open"]
    BY <1>2 DEF Begin
  <2> PICK h \in ChainsFor(k) :
        /\ kind' = [kind EXCEPT ![c] = k]
        /\ chain' = [chain EXCEPT ![c] = h]
        /\ left' = [left EXCEPT ![c] = Appends(k)]
        /\ pc' = [pc EXCEPT ![c] = IF Opening(k) = "none" THEN "state" ELSE "open"]
    OBVIOUS
  <2>1. h \in Chains /\ Appends(k) \in 1..2
    BY AppendsOneOrTwo DEF ChainsFor, Chains
  <2> QED
    BY <1>2, <2>1 DEF Begin, Statement
<1>3. CASE OpenAccount(c)
  <2>1. Opening(kind[c]) \in {"none", "shared", "exclusive"}
    BY DEF Opening
  <2> QED
    BY <1>3, <2>1 DEF OpenAccount, Statement
<1>4. CASE LockState(c)
  BY <1>4 DEF LockState, Statement
<1>5. CASE ReadTail(c)
  BY <1>5 DEF ReadTail, Statement
<1>6. CASE Insert(c)
  <2>1. [seq |-> seq + 1, chain |-> chain[c], prev |-> tail[c]] \in Ledger!Event
    BY DEF Ledger!Event
  <2> QED
    BY <1>6, <2>1 DEF Insert, Statement
<1>7. CASE CheckReferences(c)
  <2>1. Stronger(held[c], ReferenceMode(c)) \in {"none", "shared", "exclusive"}
    BY DEF Stronger, ReferenceMode
  <2>2. left[c] \in 1..2
    BY <1>7 DEF CheckReferences
  <2> QED
    BY <1>7, <2>1, <2>2 DEF CheckReferences, Statement
<1>8. CASE Commit(c)
  BY <1>8 DEF Commit, Release, Statement, Kind, Chains
<1>9. CASE Abort(c)
  BY <1>9 DEF Abort, Release, Statement, Kind, Chains
<1> QED
  BY <1>2, <1>3, <1>4, <1>5, <1>6, <1>7, <1>8, <1>9

\* Every connection's statement and every row stays well typed.
THEOREM AuditTypeCorrect == Spec => []TypeOK
<1>1. Init => TypeOK /\ Unfinished
  BY InitInv DEF IInv
<1>2. TypeOK /\ Unfinished /\ [Next]_vars => (TypeOK /\ Unfinished)'
  BY TypeStep
<1> QED
  BY <1>1, <1>2, PTL DEF Spec

-----------------------------------------------------------------------------
(***************************************************************************)
(* Locks                                                                   *)
(***************************************************************************)

\* A transaction on the chain of one that has locked its state row and is at
\* work on it is that one: uncommitted events of two transactions never share
\* a chain.
LEMMA OneWriter ==
  ASSUME TypeOK, Serialized, NEW c \in Connections, NEW d \in Connections, c # d,
         pc[c] \in Linking \/ pending[c] # {}, pc[d] \in Linking \/ pending[d] # {}
  PROVE  chain[c] # chain[d]
BY DEF Serialized

LEMMA LocksStep ==
  ASSUME IInv, Next
  PROVE  Serialized' /\ LockerAtWork' /\ LoginsExclusive'
<1> USE DEF IInv, TypeOK, Serialized, LockerAtWork, LoginsExclusive, Linking
<1> PICK c \in Connections :
      \/ Begin(c) \/ OpenAccount(c) \/ LockState(c) \/ ReadTail(c) \/ Insert(c)
      \/ CheckReferences(c) \/ Commit(c) \/ Abort(c)
  BY DEF Next
<1>2. CASE Begin(c)
  <2> PICK k \in Kind : \E h \in ChainsFor(k) :
        /\ kind' = [kind EXCEPT ![c] = k]
        /\ chain' = [chain EXCEPT ![c] = h]
        /\ left' = [left EXCEPT ![c] = Appends(k)]
        /\ pc' = [pc EXCEPT ![c] = IF Opening(k) = "none" THEN "state" ELSE "open"]
    BY <1>2 DEF Begin
  <2>1. pending[c] = {} /\ held[c] # "exclusive"
    BY <1>2 DEF Begin
  <2> QED
    BY <1>2, <2>1 DEF Begin
<1>3. CASE OpenAccount(c)
  <2>1. Opening(kind[c]) = "exclusive" => kind[c] = "login"
    BY DEF Opening
  <2> QED
    BY <1>3, <2>1 DEF OpenAccount
<1>4. CASE LockState(c)
  <2>1. locker[chain[c]] \in {c, Nobody}
    BY <1>4 DEF LockState, Waits
  <2> QED
    BY <1>4, <2>1 DEF LockState
<1>5. CASE ReadTail(c)
  BY <1>5 DEF ReadTail
<1>6. CASE Insert(c)
  BY <1>6 DEF Insert
<1>7. CASE CheckReferences(c)
  <2>1. Stronger(held[c], ReferenceMode(c)) = "exclusive" => held[c] = "exclusive"
    BY DEF Stronger, ReferenceMode
  <2> QED
    BY <1>7, <2>1 DEF CheckReferences
<1>8. CASE Commit(c)
  BY <1>8 DEF Commit, Release
<1>9. CASE Abort(c)
  BY <1>9 DEF Abort, Release
<1> QED
  BY <1>2, <1>3, <1>4, <1>5, <1>6, <1>7, <1>8, <1>9

-----------------------------------------------------------------------------
(***************************************************************************)
(* Rows                                                                    *)
(***************************************************************************)

\* Steps that write no row and read no tail.
LEMMA QuietStep ==
  ASSUME IInv, NEW c \in Connections,
         Begin(c) \/ OpenAccount(c) \/ LockState(c) \/ CheckReferences(c)
  PROVE  Numbered' /\ PendingLast' /\ TailCurrent' /\ ChainLinked'
<1> USE DEF IInv, TypeOK, Serialized, LockerAtWork, Linking
<1>1. UNCHANGED << committed, pending, seq, tail >>
  BY DEF Begin, OpenAccount, LockState, CheckReferences
<1>2. \A d \in Connections \ {c} : chain'[d] = chain[d] /\ pc'[d] = pc[d]
  <2>1. CASE Begin(c)
    BY <2>1 DEF Begin
  <2>2. CASE OpenAccount(c) \/ LockState(c) \/ CheckReferences(c)
    BY <2>2 DEF OpenAccount, LockState, CheckReferences
  <2> QED
    BY <2>1, <2>2
<1>3. pending[c] = {} \/ chain'[c] = chain[c]
  <2>1. CASE Begin(c)
    BY <2>1 DEF Begin
  <2>2. CASE OpenAccount(c) \/ LockState(c) \/ CheckReferences(c)
    BY <2>2 DEF OpenAccount, LockState, CheckReferences
  <2> QED
    BY <2>1, <2>2
<1>4. pc'[c] # "insert"
  <2>1. CASE Begin(c)
    BY <2>1 DEF Begin
  <2>2. CASE OpenAccount(c) \/ LockState(c) \/ CheckReferences(c)
    BY <2>2 DEF OpenAccount, LockState, CheckReferences
  <2> QED
    BY <2>1, <2>2
<1>5. Numbered'
  BY <1>1 DEF Numbered
<1>6. ChainLinked'
  BY <1>1 DEF ChainLinked, Ledger!Linked
<1>7. \A d \in Connections : Visible(d)' = Visible(d)
  BY <1>1 DEF Visible
<1>8. PendingLast'
  <2> SUFFICES ASSUME NEW d \in Connections, NEW e \in pending[d]
               PROVE  /\ e.chain = chain'[d]
                      /\ \A f \in committed : f.chain = e.chain => f.seq < e.seq
                      /\ Ledger!IsTail(e.prev,
                           {n \in Ledger!SeqsOf(chain'[d], Visible(d)) : n < e.seq})
    BY <1>1, <1>7 DEF PendingLast
  <2>1. chain'[d] = chain[d]
    BY <1>2, <1>3
  <2> QED
    BY <2>1 DEF PendingLast
<1>9. TailCurrent'
  <2> SUFFICES ASSUME NEW d \in Connections, pc'[d] = "insert"
               PROVE  Ledger!IsTail(tail[d], Ledger!SeqsOf(chain'[d], Visible(d)))
    BY <1>1, <1>7 DEF TailCurrent
  <2>1. d # c
    BY <1>4
  <2> QED
    BY <1>2, <2>1 DEF TailCurrent
<1> QED
  BY <1>5, <1>6, <1>8, <1>9

LEMMA TailStep ==
  ASSUME IInv, NEW c \in Connections, ReadTail(c)
  PROVE  Numbered' /\ PendingLast' /\ TailCurrent' /\ ChainLinked'
<1> USE DEF IInv, TypeOK, ReadTail
<1>1. Numbered' /\ ChainLinked'
  BY DEF Numbered, ChainLinked, Ledger!Linked
<1>2. \A d \in Connections : Visible(d)' = Visible(d)
  BY DEF Visible
<1>3. PendingLast'
  BY <1>2 DEF PendingLast
<1>4. TailCurrent'
  <2> SUFFICES ASSUME NEW d \in Connections, pc'[d] = "insert"
               PROVE  Ledger!IsTail(tail'[d], Ledger!SeqsOf(chain[d], Visible(d)))
    BY <1>2 DEF TailCurrent
  <2>1. CASE d = c
    BY <2>1
  <2>2. CASE d # c
    BY <2>2 DEF TailCurrent
  <2> QED
    BY <2>1, <2>2
<1> QED
  BY <1>1, <1>3, <1>4

\* The new event has the greatest number of all, and the tail is what the
\* transaction has read.
LEMMA InsertStep ==
  ASSUME IInv, NEW c \in Connections, Insert(c)
  PROVE  Numbered' /\ PendingLast' /\ TailCurrent' /\ ChainLinked'
<1> USE DEF IInv, TypeOK
<1> DEFINE new == [seq |-> seq + 1, chain |-> chain[c], prev |-> tail[c]]
<1>1. /\ pending'[c] = pending[c] \cup {new}
      /\ \A d \in Connections \ {c} : pending'[d] = pending[d] /\ pc'[d] = pc[d]
      /\ pc[c] = "insert" /\ pc'[c] = "references"
      /\ seq' = seq + 1
      /\ UNCHANGED << committed, chain, tail >>
  BY DEF Insert
<1>2. new.seq = seq + 1 /\ new.chain = chain[c] /\ new.prev = tail[c]
  OBVIOUS
<1> HIDE DEF new
<1>3. Numbered'
  <2>1. \A e \in committed : e.seq \in Nat
    BY DEF Ledger!Event
  <2>2. \A d \in Connections : \A e \in pending[d] : e.seq \in Nat
    BY DEF Ledger!Event
  <2> QED
    BY <1>1, <1>2, <2>1, <2>2 DEF Numbered
<1>4. ChainLinked'
  BY <1>1 DEF ChainLinked, Ledger!Linked
<1>5. \A d \in Connections \ {c} : Visible(d)' = Visible(d)
  BY <1>1 DEF Visible
<1>6. TailCurrent'
  BY <1>1, <1>5 DEF TailCurrent
<1>7. Visible(c)' = Visible(c) \cup {new}
  BY <1>1 DEF Visible
<1>8. \A e \in Visible(c) : e.seq <= seq /\ e.seq \in Nat
  BY DEF Visible, Numbered, Ledger!Event
<1>9. ASSUME NEW n \in Nat, n <= seq + 1
      PROVE  {m \in Ledger!SeqsOf(chain[c], Visible(c) \cup {new}) : m < n}
               = {m \in Ledger!SeqsOf(chain[c], Visible(c)) : m < n}
  BY <1>2, <1>8, <1>9 DEF Ledger!SeqsOf
<1>10. {m \in Ledger!SeqsOf(chain[c], Visible(c)) : m < seq + 1}
         = Ledger!SeqsOf(chain[c], Visible(c))
  BY <1>8 DEF Ledger!SeqsOf
<1>11. {m \in Ledger!SeqsOf(chain[c], Visible(c)') : m < seq + 1}
         = Ledger!SeqsOf(chain[c], Visible(c))
  <2>1. seq + 1 \in Nat /\ seq + 1 <= seq + 1
    OBVIOUS
  <2>2. {m \in Ledger!SeqsOf(chain[c], Visible(c) \cup {new}) : m < seq + 1}
          = {m \in Ledger!SeqsOf(chain[c], Visible(c)) : m < seq + 1}
    BY <1>9, <2>1
  <2> QED
    BY <1>7, <1>10, <2>2
<1>12. PendingLast'
  <2> SUFFICES ASSUME NEW d \in Connections, NEW e \in pending'[d]
               PROVE  /\ e.chain = chain[d]
                      /\ \A f \in committed : f.chain = e.chain => f.seq < e.seq
                      /\ Ledger!IsTail(e.prev,
                           {n \in Ledger!SeqsOf(chain[d], Visible(d)') : n < e.seq})
    BY <1>1 DEF PendingLast
  <2>1. CASE d # c
    BY <1>1, <1>5, <2>1 DEF PendingLast
  <2>2. CASE d = c /\ e = new
    <3>1. e.chain = chain[d] /\ \A f \in committed : f.chain = e.chain => f.seq < e.seq
      BY <1>2, <1>8, <2>2 DEF Visible
    <3>2. Ledger!IsTail(e.prev, Ledger!SeqsOf(chain[d], Visible(d)))
      BY <1>1, <1>2, <2>2 DEF TailCurrent
    <3>3. {n \in Ledger!SeqsOf(chain[d], Visible(d)') : n < e.seq}
            = Ledger!SeqsOf(chain[d], Visible(d))
      BY <1>2, <1>11, <2>2
    <3> QED
      BY <3>1, <3>2, <3>3
  <2>3. CASE d = c /\ e # new
    <3>1. e \in pending[c]
      BY <1>1, <2>3
    <3>2. e.seq \in Nat /\ e.seq <= seq + 1
      BY <1>8, <3>1 DEF Visible
    <3>3. {n \in Ledger!SeqsOf(chain[d], Visible(d)') : n < e.seq}
            = {n \in Ledger!SeqsOf(chain[d], Visible(d)) : n < e.seq}
      BY <1>7, <1>9, <2>3, <3>2
    <3> QED
      BY <2>3, <3>1, <3>3 DEF PendingLast
  <2> QED
    BY <2>1, <2>2, <2>3
<1> QED
  BY <1>3, <1>4, <1>6, <1>12

\* A commit hides nothing and reorders nothing in any chain.
LEMMA CommitLinks ==
  ASSUME IInv, NEW c \in Connections
  PROVE  Ledger!LinkedIn(Visible(c))
<1> USE DEF IInv, TypeOK
<1> SUFFICES ASSUME NEW e \in Visible(c)
             PROVE  Ledger!IsTail(e.prev,
                      {n \in Ledger!SeqsOf(e.chain, Visible(c)) : n < e.seq})
  BY DEF Ledger!LinkedIn
<1>1. CASE e \in pending[c]
  BY <1>1 DEF PendingLast
<1>2. CASE e \in committed
  <2>1. \A f \in pending[c] : f.chain = e.chain => ~(f.seq < e.seq)
    <3>1. e.seq \in Nat
      BY <1>2 DEF Ledger!Event
    <3>2. \A f \in pending[c] : f.seq \in Nat
      BY DEF Ledger!Event
    <3>3. \A f \in pending[c] : e.chain = f.chain => e.seq < f.seq
      BY <1>2 DEF PendingLast
    <3> QED
      BY <3>1, <3>2, <3>3
  <2>2. {n \in Ledger!SeqsOf(e.chain, Visible(c)) : n < e.seq}
          = {n \in Ledger!SeqsOf(e.chain, committed) : n < e.seq}
    BY <2>1 DEF Ledger!SeqsOf, Visible
  <2> QED
    BY <1>2, <2>2 DEF ChainLinked, Ledger!Linked, Ledger!LinkedIn
<1> QED
  BY <1>1, <1>2 DEF Visible

LEMMA EndStep ==
  ASSUME IInv, NEW c \in Connections, Commit(c) \/ Abort(c)
  PROVE  Numbered' /\ PendingLast' /\ TailCurrent' /\ ChainLinked'
<1> USE DEF IInv, TypeOK
<1>1. /\ pending'[c] = {} /\ pc'[c] = "idle" /\ seq' = seq
      /\ \A d \in Connections \ {c} :
           /\ pending'[d] = pending[d] /\ pc'[d] = pc[d]
           /\ chain'[d] = chain[d] /\ tail'[d] = tail[d]
  BY DEF Commit, Abort, Release
<1>2. \/ committed' = committed
      \/ (committed' = Visible(c) /\ pc[c] = "commit")
  BY DEF Commit, Abort, Visible
<1>3. Numbered'
  BY <1>1, <1>2 DEF Numbered, Visible
<1>4. ChainLinked'
  <2>1. CASE committed' = committed
    BY <2>1 DEF ChainLinked, Ledger!Linked
  <2>2. CASE committed' = Visible(c)
    BY <2>2, CommitLinks DEF ChainLinked, Ledger!Linked
  <2> QED
    BY <1>2, <2>1, <2>2
<1>5. ASSUME NEW d \in Connections \ {c}, pc[d] \in Linking \/ pending[d] # {}
      PROVE  /\ \A f \in committed' : f.chain = chain[d] => f \in committed
             /\ Ledger!SeqsOf(chain[d], Visible(d)') = Ledger!SeqsOf(chain[d], Visible(d))
  <2>1. committed' # committed => chain[c] # chain[d]
    BY <1>2, <1>5, OneWriter DEF Linking
  <2>2. \A f \in committed' : f.chain = chain[d] => f \in committed
    BY <1>2, <2>1 DEF Visible, PendingLast
  <2>3. committed \subseteq committed'
    BY <1>2 DEF Visible
  <2> QED
    BY <1>1, <2>2, <2>3 DEF Visible, Ledger!SeqsOf
<1>6. PendingLast'
  <2> SUFFICES ASSUME NEW d \in Connections, NEW e \in pending'[d]
               PROVE  /\ e.chain = chain'[d]
                      /\ \A f \in committed' : f.chain = e.chain => f.seq < e.seq
                      /\ Ledger!IsTail(e.prev,
                           {n \in Ledger!SeqsOf(chain'[d], Visible(d)') : n < e.seq})
    BY DEF PendingLast
  <2>1. d # c /\ e \in pending[d]
    BY <1>1
  <2>2. e.chain = chain[d] /\ chain'[d] = chain[d]
    BY <1>1, <2>1 DEF PendingLast
  <2>3. /\ \A f \in committed' : f.chain = chain[d] => f \in committed
        /\ Ledger!SeqsOf(chain[d], Visible(d)') = Ledger!SeqsOf(chain[d], Visible(d))
    BY <1>5, <2>1
  <2>4. /\ \A f \in committed : f.chain = e.chain => f.seq < e.seq
        /\ Ledger!IsTail(e.prev, {n \in Ledger!SeqsOf(chain[d], Visible(d)) : n < e.seq})
    BY <2>1 DEF PendingLast
  <2>5. \A f \in committed' : f.chain = e.chain => f.seq < e.seq
    BY <2>2, <2>3, <2>4
  <2>6. Ledger!IsTail(e.prev, {n \in Ledger!SeqsOf(chain'[d], Visible(d)') : n < e.seq})
    BY <2>2, <2>3, <2>4
  <2> QED
    BY <2>2, <2>5, <2>6
<1>7. TailCurrent'
  <2> SUFFICES ASSUME NEW d \in Connections, pc'[d] = "insert"
               PROVE  Ledger!IsTail(tail'[d], Ledger!SeqsOf(chain'[d], Visible(d)'))
    BY DEF TailCurrent
  <2>1. d # c
    BY <1>1
  <2> QED
    BY <1>1, <1>5, <2>1 DEF TailCurrent, Linking
<1> QED
  BY <1>3, <1>4, <1>6, <1>7

-----------------------------------------------------------------------------
LEMMA InvStep == IInv /\ [Next]_vars => IInv'
<1> SUFFICES ASSUME IInv, [Next]_vars PROVE IInv'
  OBVIOUS
<1>1. CASE UNCHANGED vars
  BY <1>1 DEF vars, IInv, TypeOK, Unfinished, Numbered, Serialized, LockerAtWork, PendingLast,
              TailCurrent, LoginsExclusive, ChainLinked, Ledger!Linked, Visible
<1>2. CASE Next
  <2>1. TypeOK' /\ Unfinished'
    BY TypeStep DEF IInv
  <2>2. Serialized' /\ LockerAtWork' /\ LoginsExclusive'
    BY <1>2, LocksStep
  <2>3. Numbered' /\ PendingLast' /\ TailCurrent' /\ ChainLinked'
    BY <1>2, QuietStep, TailStep, InsertStep, EndStep DEF Next
  <2> QED
    BY <2>1, <2>2, <2>3 DEF IInv
<1> QED
  BY <1>1, <1>2

\* Whoever reads a chain finds every event naming the one before it.
THEOREM AuditChainLinked == Spec => []ChainLinked
<1>1. IInv => ChainLinked
  BY DEF IInv
<1> QED
  BY InitInv, InvStep, <1>1, PTL DEF Spec

\* The writers implement the ledger: it grows by whole transactions, at the end
\* of one chain.
THEOREM AuditImplementsLedger == Spec => LedgerSpec
<1>1. Init => Ledger!LedgerInit
  BY DEF Init, Ledger!LedgerInit
<1>2. IInv /\ IInv' /\ [Next]_vars => [Ledger!LedgerNext]_committed
  <2> SUFFICES ASSUME IInv, IInv', Next, committed' # committed
               PROVE  Ledger!LedgerNext
    BY DEF vars
  <2> PICK c \in Connections : Commit(c)
    BY DEF Next, Begin, OpenAccount, LockState, ReadTail, Insert, CheckReferences, Abort
  <2>1. committed' = Visible(c)
    BY DEF Commit, Visible
  <2>2. Ledger!Linked'
    BY DEF IInv, ChainLinked
  <2>3. \A e \in committed' \ committed :
          e.chain = chain[c] /\ \A n \in Ledger!SeqsOf(chain[c], committed) : n < e.seq
    <3> SUFFICES ASSUME NEW e \in pending[c]
                 PROVE  e.chain = chain[c] /\ \A n \in Ledger!SeqsOf(chain[c], committed) : n < e.seq
      BY <2>1 DEF Visible
    <3>1. e.chain = chain[c] /\ \A f \in committed : f.chain = e.chain => f.seq < e.seq
      BY DEF IInv, PendingLast
    <3> QED
      BY <3>1 DEF Ledger!SeqsOf
  <2>4. Ledger!Extend(chain[c]) /\ chain[c] \in Chains
    BY <2>1, <2>2, <2>3 DEF Ledger!Extend, Visible, IInv, TypeOK
  <2> QED
    BY <2>4 DEF Ledger!LedgerNext
<1> QED
  BY InitInv, InvStep, <1>1, <1>2, PTL DEF Spec, LedgerSpec, Ledger!LedgerSpec

\* No circle of waiting transactions without a login in it.
THEOREM AuditDeadlockNeedsLogin == Spec => []DeadlockNeedsLogin
<1>1. IInv => DeadlockNeedsLogin
  <2> SUFFICES ASSUME IInv, NEW S \in SUBSET {c \in Connections : kind[c] # "login"}, S # {}
               PROVE  \E c \in S : Waits(c) \cap S = {}
    BY DEF DeadlockNeedsLogin
  <2> USE DEF IInv, TypeOK
  <2>1. ASSUME NEW c \in S, pc[c] # "state" PROVE Waits(c) \cap S = {}
    <3>1. AccountHolders(c, "shared") \cap S = {}
      BY DEF AccountHolders, Others, LoginsExclusive
    <3>2. AccountHolders(c, "none") = {}
      BY DEF AccountHolders
    <3>3. Opening(kind[c]) \in {"shared", "none"}
      BY DEF Opening, Kind
    <3>4. ReferenceMode(c) \in {"shared", "none"}
      BY DEF ReferenceMode
    <3> QED
      BY <2>1, <3>1, <3>2, <3>3, <3>4 DEF Waits
  <2>2. ASSUME NEW c \in S, pc[c] = "state", Waits(c) \cap S # {}
        PROVE  Waits(locker[chain[c]]) \cap S = {} /\ locker[chain[c]] \in S
    <3> DEFINE h == locker[chain[c]]
    <3>1. h \in S /\ h # Nobody
      BY <2>2 DEF Waits
    <3>2. chain[h] = chain[c]
      BY <3>1 DEF LockerAtWork
    <3>3. CASE pc[h] = "state"
      BY <3>1, <3>2, <3>3 DEF Waits
    <3>4. CASE pc[h] # "state"
      BY <2>1, <3>1, <3>4
    <3> QED
      BY <3>1, <3>3, <3>4
  <2> QED
    BY <2>1, <2>2
<1> QED
  BY InitInv, InvStep, <1>1, PTL DEF Spec
=============================================================================
