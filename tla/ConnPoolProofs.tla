--------------------------- MODULE ConnPoolProofs ---------------------------
(***************************************************************************)
(* The safety theorems of ConnPool, for any calls and any size.            *)
(*                                                                         *)
(* ConnectionsConserved is inductive together with the types; that only    *)
(* nested calls can stall the pool is a matter of counting.                *)
(***************************************************************************)
EXTENDS ConnPool, FiniteSetTheorems, TLAPS

One == {c \in Calls : HoldsOne(c)}
Two == {c \in Calls : HoldsTwo(c)}

Balance == free + Cardinality(One) + 2 * Cardinality(Two) = MaxSize

\* The queue is the calls that wait, each once.
QueueInv ==
  /\ \A c \in Calls : pc[c] \in Waits <=> \E i \in 1..Len(queue) : queue[i] = c
  /\ \A i, j \in 1..Len(queue) : queue[i] = queue[j] => i = j

CallTypes ==
  /\ pc \in [Calls -> Steps]
  /\ \A c \in Single : pc[c] \in {"idle", "wait_lookup", "lookup"}

Types == CallTypes /\ queue \in Seq(Calls) /\ free \in Nat

PoolInv == Types /\ QueueInv /\ Balance

-----------------------------------------------------------------------------
(* Counting.                                                               *)

LEMMA HeldSteps ==
  /\ \A s \in {"idle", "wait_lookup", "between", "wait_first"} : Held(s) = 0
  /\ \A s \in {"lookup", "first", "wait_second", "last"} : Held(s) = 1
  /\ Held("second") = 2
  BY DEF Held

LEMMA HeldType ==
  ASSUME NEW s \in Steps
  PROVE  Held(s) \in 0..2 /\ (Held(s) = 2 <=> s = "second")
  BY HeldSteps DEF Steps, Waits

LEMMA CallsAreFinite ==
  /\ IsFiniteSet(Calls) /\ IsFiniteSet(One) /\ IsFiniteSet(Two)
  /\ Cardinality(One) \in Nat /\ Cardinality(Two) \in Nat
  <1>1. IsFiniteSet(Calls)
    BY PoolAssumption, FS_Union DEF Calls
  <1>2. IsFiniteSet(One) /\ IsFiniteSet(Two)
    BY <1>1, FS_Subset DEF One, Two
  <1> QED
    BY <1>1, <1>2, FS_CardinalityType

\* One call more or less.
LEMMA CountWith ==
  ASSUME NEW S, IsFiniteSet(S), NEW c
  PROVE  /\ Cardinality(S \ {c}) \in Nat
         /\ Cardinality(S) = Cardinality(S \ {c}) + (IF c \in S THEN 1 ELSE 0)
  <1>1. CASE c \in S
    <2>1. IsFiniteSet(S \ {c}) /\ Cardinality(S \ {c}) = Cardinality(S) - 1
      BY <1>1, FS_RemoveElement
    <2> QED
      BY <1>1, <2>1, FS_CardinalityType
  <1>2. CASE c \notin S
    <2>1. S \ {c} = S
      BY <1>2
    <2>2. Cardinality(S) \in Nat
      BY FS_CardinalityType
    <2>3. Cardinality(S) = Cardinality(S) + 0
      BY <2>2
    <2> QED
      BY <1>2, <2>1, <2>2, <2>3
  <1> QED
    BY <1>1, <1>2

\* What a call gains the pool loses.
LEMMA MoveKeepsBalance ==
  ASSUME Types, Balance, NEW c \in Calls, NEW step \in Steps, pc' = [pc EXCEPT ![c] = step],
         free' \in Nat, free' + Held(step) = free + Held(pc[c])
  PROVE  Balance'
  <1>1. /\ IsFiniteSet(One) /\ IsFiniteSet(Two)
        /\ IsFiniteSet(One') /\ IsFiniteSet(Two')
        /\ Cardinality(One') \in Nat /\ Cardinality(Two') \in Nat
    <2>1. One' \subseteq Calls /\ Two' \subseteq Calls
      BY DEF One, Two
    <2> QED
      BY <2>1, CallsAreFinite, FS_Subset, FS_CardinalityType
  <1>2. pc[c] \in Steps /\ pc'[c] = step /\ \A d \in Calls \ {c} : pc'[d] = pc[d]
    BY DEF Types, CallTypes
  <1>3. One' \ {c} = One \ {c} /\ Two' \ {c} = Two \ {c}
    BY <1>2 DEF One, Two, HoldsOne, HoldsTwo
  <1>4. /\ c \in One <=> Held(pc[c]) = 1
        /\ c \in Two <=> Held(pc[c]) = 2
        /\ c \in One' <=> Held(step) = 1
        /\ c \in Two' <=> Held(step) = 2
    BY <1>2, HeldType DEF One, Two, HoldsOne, HoldsTwo
  <1>5. Held(pc[c]) \in 0..2 /\ Held(step) \in 0..2
    BY <1>2, HeldType
  <1>6. PICK p \in Nat, q \in Nat :
          /\ p = Cardinality(One \ {c}) /\ q = Cardinality(Two \ {c})
          /\ Cardinality(One) = p + (IF c \in One THEN 1 ELSE 0)
          /\ Cardinality(Two) = q + (IF c \in Two THEN 1 ELSE 0)
          /\ Cardinality(One') = p + (IF c \in One' THEN 1 ELSE 0)
          /\ Cardinality(Two') = q + (IF c \in Two' THEN 1 ELSE 0)
    <2>1. /\ Cardinality(One \ {c}) \in Nat /\ Cardinality(Two \ {c}) \in Nat
          /\ Cardinality(One) = Cardinality(One \ {c}) + (IF c \in One THEN 1 ELSE 0)
          /\ Cardinality(Two) = Cardinality(Two \ {c}) + (IF c \in Two THEN 1 ELSE 0)
      BY <1>1, CountWith
    <2>2. /\ Cardinality(One') = Cardinality(One' \ {c}) + (IF c \in One' THEN 1 ELSE 0)
          /\ Cardinality(Two') = Cardinality(Two' \ {c}) + (IF c \in Two' THEN 1 ELSE 0)
      BY <1>1, CountWith
    <2> QED
      BY <1>3, <2>1, <2>2
  <1>7. Cardinality(One) + 2 * Cardinality(Two) = p + 2 * q + Held(pc[c])
    BY <1>4, <1>5, <1>6
  <1>8. Cardinality(One') + 2 * Cardinality(Two') = p + 2 * q + Held(step)
    BY <1>4, <1>5, <1>6
  <1>9. PICK h \in Nat, k \in Nat, x \in Nat : h = Held(pc[c]) /\ k = Held(step) /\ x = p + 2 * q
    BY <1>5
  <1>10. free + (x + h) = MaxSize
    <2>1. free + (Cardinality(One) + 2 * Cardinality(Two)) = MaxSize
      BY CallsAreFinite, PoolAssumption DEF Balance, Types
    <2> QED
      BY <1>7, <1>9, <2>1
  <1>11. free' + k = free + h /\ free \in Nat
    BY <1>9 DEF Types
  <1>12. free' + (x + k) = MaxSize
    BY <1>9, <1>10, <1>11
  <1>13. free' + (Cardinality(One') + 2 * Cardinality(Two')) = MaxSize
    BY <1>8, <1>9, <1>12
  <1> QED
    BY <1>1, <1>13 DEF Balance

-----------------------------------------------------------------------------
(* The three ways a connection moves.                                      *)

LEMMA MoveKeepsTypes ==
  ASSUME CallTypes, NEW c \in Calls, NEW step \in Steps, pc' = [pc EXCEPT ![c] = step],
         c \in Single => step \in {"idle", "wait_lookup", "lookup"}
  PROVE  CallTypes' /\ pc'[c] = step /\ \A d \in Calls \ {c} : pc'[d] = pc[d]
  BY DEF CallTypes, Calls

LEMMA ReleaseKeeps ==
  ASSUME PoolInv, NEW c \in Calls, pc[c] \notin Waits, NEW n \in Nat, NEW step \in Steps \ Waits,
         Held(pc[c]) = Held(step) + n, c \in Single => step = "idle", Release(c, n, step)
  PROVE  PoolInv'
  <1>1. pc' = [pc EXCEPT ![c] = step] /\ free' = free + n /\ queue' = queue /\ free' \in Nat
    BY DEF Release, Goto, PoolInv, Types
  <1>2. CallTypes' /\ pc'[c] = step /\ \A d \in Calls \ {c} : pc'[d] = pc[d]
    BY <1>1, MoveKeepsTypes DEF PoolInv, Types
  <1>3. Types'
    BY <1>1, <1>2 DEF PoolInv, Types
  <1>4. QueueInv'
    BY <1>1, <1>2 DEF PoolInv, QueueInv
  <1>5. free' + Held(step) = free + Held(pc[c])
    <2>1. Held(step) \in Nat /\ free \in Nat
      BY HeldType DEF PoolInv, Types
    <2> QED
      BY <1>1, <2>1
  <1>6. Balance'
    BY <1>1, <1>5, MoveKeepsBalance DEF PoolInv
  <1> QED
    BY <1>3, <1>4, <1>6 DEF PoolInv

LEMMA AcquireKeeps ==
  ASSUME PoolInv, NEW c \in Calls, pc[c] \notin Waits, NEW waiting \in Waits, NEW holding \in Steps \ Waits,
         Held(waiting) = Held(pc[c]), Held(holding) = Held(pc[c]) + 1,
         c \in Single => waiting = "wait_lookup" /\ holding = "lookup",
         Acquire(c, waiting, holding)
  PROVE  PoolInv'
  <1>0. Types /\ QueueInv /\ Balance /\ waiting \in Steps
    BY DEF PoolInv, Steps
  <1>1. CASE free > 0 /\ queue = << >>
    <2>1. pc' = [pc EXCEPT ![c] = holding] /\ free' = free - 1 /\ queue' = queue /\ free' \in Nat
      BY <1>0, <1>1 DEF Acquire, Goto, Types
    <2>2. CallTypes' /\ pc'[c] = holding /\ \A d \in Calls \ {c} : pc'[d] = pc[d]
      BY <1>0, <2>1, MoveKeepsTypes DEF Types
    <2>3. Types' /\ QueueInv'
      BY <1>0, <2>1, <2>2 DEF Types, QueueInv
    <2>4. free' + Held(holding) = free + Held(pc[c])
      <3>1. Held(pc[c]) \in Nat /\ free \in Nat
        BY <1>0, HeldType DEF Types, CallTypes
      <3> QED
        BY <2>1, <3>1
    <2> QED
      BY <1>0, <2>1, <2>3, <2>4, MoveKeepsBalance DEF PoolInv
  <1>2. CASE ~(free > 0 /\ queue = << >>)
    <2>1. pc' = [pc EXCEPT ![c] = waiting] /\ free' = free /\ queue' = Append(queue, c)
      BY <1>2 DEF Acquire, Goto
    <2>2. CallTypes' /\ pc'[c] = waiting /\ \A d \in Calls \ {c} : pc'[d] = pc[d]
      BY <1>0, <2>1, MoveKeepsTypes DEF Types
    <2>3. /\ Len(queue) \in Nat /\ Len(queue') = Len(queue) + 1
          /\ queue'[Len(queue) + 1] = c
          /\ \A i \in 1..Len(queue) : queue'[i] = queue[i]
          /\ queue' \in Seq(Calls)
      BY <1>0, <2>1 DEF Types
    <2>4. \A i \in 1..Len(queue) : queue[i] # c
      BY <1>0 DEF QueueInv
    <2>5. Types'
      BY <1>0, <2>1, <2>2, <2>3 DEF Types
    <2>6. ASSUME NEW d \in Calls
          PROVE  pc'[d] \in Waits <=> \E i \in 1..Len(queue') : queue'[i] = d
      <3>1. CASE d = c
        BY <2>2, <2>3, <3>1
      <3>2. CASE d # c
        <4>1. (\E i \in 1..Len(queue') : queue'[i] = d) <=> \E i \in 1..Len(queue) : queue[i] = d
          BY <2>3, <3>2
        <4> QED
          BY <1>0, <2>2, <3>2, <4>1 DEF QueueInv
      <3> QED
        BY <3>1, <3>2
    <2>7. \A i, j \in 1..Len(queue') : queue'[i] = queue'[j] => i = j
      BY <1>0, <2>3, <2>4 DEF QueueInv
    <2>8. QueueInv'
      BY <2>6, <2>7 DEF QueueInv
    <2>9. Balance'
      BY <1>0, <2>1, MoveKeepsBalance DEF Types
    <2> QED
      BY <2>5, <2>8, <2>9 DEF PoolInv
  <1> QED
    BY <1>1, <1>2

LEMMA AfterSteps ==
  ASSUME NEW s \in Waits
  PROVE  After(s) \in Steps \ Waits /\ Held(After(s)) = Held(s) + 1 /\ (s = "wait_lookup" => After(s) = "lookup")
  BY HeldSteps DEF After, Waits, Steps

LEMMA GrantKeeps ==
  ASSUME PoolInv, Grant
  PROVE  PoolInv'
  <1>0. Types /\ QueueInv /\ Balance
    BY DEF PoolInv
  <1>1. PICK c \in Calls : c = Head(queue) /\ c = queue[1]
    BY <1>0 DEF Grant, Types
  <1>2. PICK step : step = After(pc[c]) /\ pc' = [pc EXCEPT ![c] = step]
    BY <1>1 DEF Grant, Goto
  <1>3. /\ queue' = Tail(queue) /\ free' = free - 1 /\ free' \in Nat
        /\ Len(queue) \in Nat \ {0} /\ Len(queue') = Len(queue) - 1 /\ queue' \in Seq(Calls)
        /\ \A i \in 1..Len(queue') : queue'[i] = queue[i + 1]
    BY <1>0 DEF Grant, Types
  <1>4. pc[c] \in Waits /\ \A i \in 2..Len(queue) : queue[i] # c
    BY <1>0, <1>1, <1>3 DEF QueueInv
  <1>5. /\ step \in Steps \ Waits /\ Held(step) = Held(pc[c]) + 1
        /\ c \in Single => step = "lookup"
    BY <1>0, <1>2, <1>4, AfterSteps DEF Types, CallTypes, Waits
  <1>6. CallTypes' /\ pc'[c] = step /\ \A d \in Calls \ {c} : pc'[d] = pc[d]
    BY <1>0, <1>2, <1>5, MoveKeepsTypes DEF Types
  <1>7. Types'
    BY <1>0, <1>3, <1>6 DEF Types
  <1>8. ASSUME NEW d \in Calls
        PROVE  pc'[d] \in Waits <=> \E i \in 1..Len(queue') : queue'[i] = d
    <2>1. CASE d = c
      <3>1. ~ \E i \in 1..Len(queue') : queue'[i] = c
        BY <1>3, <1>4
      <3> QED
        BY <1>5, <1>6, <2>1, <3>1
    <2>2. CASE d # c
      <3>1. ASSUME NEW i \in 1..Len(queue), queue[i] = d
            PROVE  \E j \in 1..Len(queue') : queue'[j] = d
        <4>1. i # 1
          BY <1>1, <2>2, <3>1
        <4>2. i - 1 \in 1..Len(queue') /\ (i - 1) + 1 = i
          BY <1>3, <4>1
        <4> QED
          BY <1>3, <3>1, <4>2
      <3>2. ASSUME NEW i \in 1..Len(queue'), queue'[i] = d
            PROVE  \E j \in 1..Len(queue) : queue[j] = d
        <4>1. i + 1 \in 1..Len(queue)
          BY <1>3
        <4> QED
          BY <1>3, <3>2, <4>1
      <3> QED
        BY <1>0, <1>6, <2>2, <3>1, <3>2 DEF QueueInv
    <2> QED
      BY <2>1, <2>2
  <1>9. ASSUME NEW i \in 1..Len(queue'), NEW j \in 1..Len(queue'), queue'[i] = queue'[j]
        PROVE  i = j
    <2>1. i + 1 \in 1..Len(queue) /\ j + 1 \in 1..Len(queue)
      BY <1>3
    <2>2. i + 1 = j + 1
      BY <1>0, <1>3, <1>9, <2>1 DEF QueueInv
    <2> QED
      BY <2>2
  <1>10. QueueInv'
    BY <1>8, <1>9 DEF QueueInv
  <1>11. free' + Held(step) = free + Held(pc[c])
    <2>1. Held(pc[c]) \in Nat /\ free \in Nat
      BY <1>0, HeldType DEF Types, CallTypes
    <2> QED
      BY <1>3, <1>5, <2>1
  <1>12. Balance'
    BY <1>0, <1>2, <1>3, <1>5, <1>11, MoveKeepsBalance
  <1> QED
    BY <1>7, <1>10, <1>12 DEF PoolInv

-----------------------------------------------------------------------------
(* The invariant.                                                          *)

LEMMA PoolInvInit ==
  ASSUME Init
  PROVE  PoolInv
  <1>1. Types /\ QueueInv
    BY PoolAssumption DEF Init, Types, CallTypes, QueueInv, Steps, Waits, Calls
  <1>2. One = {} /\ Two = {}
    BY HeldSteps DEF Init, One, Two, HoldsOne, HoldsTwo
  <1>3. Cardinality({}) = 0
    BY FS_EmptySet
  <1>4. Balance
    BY <1>2, <1>3, PoolAssumption DEF Init, Balance
  <1> QED
    BY <1>1, <1>4 DEF PoolInv

LEMMA PoolInvNext ==
  ASSUME PoolInv, [Next]_vars
  PROVE  PoolInv'
  <1>1. \A c \in Calls : pc[c] \in Steps /\ (c \in Single => pc[c] \in {"idle", "wait_lookup", "lookup"})
    BY DEF PoolInv, Types, CallTypes
  <1>2. /\ {"idle", "lookup", "between", "first", "second", "last"} \subseteq Steps \ Waits
        /\ {"wait_lookup", "wait_first", "wait_second"} \subseteq Waits
    BY DEF Steps, Waits
  <1>3. ASSUME NEW c \in Calls, Start(c)
        PROVE  PoolInv'
    BY <1>2, <1>3, HeldSteps, AcquireKeeps DEF Start
  <1>4. ASSUME NEW c \in Calls, LookupDone(c)
        PROVE  PoolInv'
    <2>1. pc[c] \in Steps \ Waits /\ Held(pc[c]) = 1 /\ Held("idle") = 0 /\ Held("between") = 0
      BY <1>2, <1>4, HeldSteps DEF LookupDone
    <2>2. CASE Release(c, 1, "idle")
      BY <1>2, <2>1, <2>2, ReleaseKeeps
    <2>3. CASE c \in Nested /\ Release(c, 1, "between")
      BY <1>2, <2>1, <2>3, PoolAssumption, ReleaseKeeps
    <2> QED
      BY <1>4, <2>2, <2>3 DEF LookupDone
  <1>5. ASSUME NEW c \in Calls, TakeFirst(c)
        PROVE  PoolInv'
    BY <1>1, <1>2, <1>5, HeldSteps, AcquireKeeps DEF TakeFirst
  <1>6. ASSUME NEW c \in Calls, TakeSecond(c)
        PROVE  PoolInv'
    <2>1. /\ pc[c] = "first" /\ pc[c] \notin Waits /\ c \notin Single
          /\ Held(pc[c]) = 1 /\ Held("idle") = 0 /\ Held("wait_second") = 1 /\ Held("second") = 2
      BY <1>1, <1>2, <1>6, HeldSteps DEF TakeSecond
    <2>2. CASE Release(c, 1, "idle")
      BY <1>2, <2>1, <2>2, ReleaseKeeps
    <2>3. CASE Acquire(c, "wait_second", "second")
      BY <1>2, <2>1, <2>3, AcquireKeeps
    <2> QED
      BY <1>6, <2>2, <2>3 DEF TakeSecond
  <1>7. ASSUME NEW c \in Calls, SecondDone(c)
        PROVE  PoolInv'
    <2>1. /\ pc[c] \notin Waits /\ c \notin Single
          /\ Held(pc[c]) = 2 /\ Held("idle") = 0 /\ Held("last") = 1
      BY <1>1, <1>2, <1>7, HeldSteps DEF SecondDone
    <2>2. CASE Release(c, 1, "last")
      BY <1>2, <2>1, <2>2, ReleaseKeeps
    <2>3. CASE Release(c, 2, "idle")
      BY <1>2, <2>1, <2>3, ReleaseKeeps
    <2> QED
      BY <1>7, <2>2, <2>3 DEF SecondDone
  <1>8. ASSUME NEW c \in Calls, LastDone(c)
        PROVE  PoolInv'
    BY <1>2, <1>8, HeldSteps, ReleaseKeeps DEF LastDone
  <1>9. CASE UNCHANGED vars
    BY <1>9 DEF vars, PoolInv, Types, CallTypes, QueueInv, Balance, One, Two, HoldsOne, HoldsTwo
  <1> QED
    BY <1>3, <1>4, <1>5, <1>6, <1>7, <1>8, <1>9, GrantKeeps DEF Next, Handle

LEMMA PoolInvAlways == Spec => []PoolInv
  <1>1. Init => PoolInv
    BY PoolInvInit
  <1>2. PoolInv /\ [Next]_vars => PoolInv'
    BY PoolInvNext
  <1> QED
    BY <1>1, <1>2, PTL DEF Spec

-----------------------------------------------------------------------------
(* What the pool promises.                                                 *)

LEMMA PoolInvImplies ==
  ASSUME PoolInv
  PROVE  TypeOK /\ ConnectionsConserved
  <1>1. free <= MaxSize
    <2>1. Cardinality(One) \in Nat /\ Cardinality(Two) \in Nat
      BY CallsAreFinite
    <2> QED
      BY <2>1, PoolAssumption DEF PoolInv, Balance, Types
  <1>2. TypeOK
    BY <1>1, PoolAssumption DEF PoolInv, Types, CallTypes, TypeOK
  <1>3. ConnectionsConserved
    BY DEF PoolInv, QueueInv, Balance, One, Two, ConnectionsConserved
  <1> QED
    BY <1>2, <1>3

\* Every call is where its kind can be, the queue holds calls, and the pool
\* never has more connections than it was made with.
THEOREM PoolTypes == Spec => []TypeOK
  <1>1. PoolInv => TypeOK
    BY PoolInvImplies
  <1> QED
    BY <1>1, PoolInvAlways, PTL

\* Whatever path a call takes, an early return by `?' and a rollback included,
\* the connections it took come back once, and no waiting call is forgotten:
\* for any number of calls and any size of the pool.
THEOREM PoolConserved == Spec => []ConnectionsConserved
  <1>1. PoolInv => ConnectionsConserved
    BY PoolInvImplies
  <1> QED
    BY <1>1, PoolInvAlways, PTL

\* When everything stands still, it is because MaxSize calls of
\* get_or_create_user_api_groups hold a connection each and wait for another:
\* no other mix of calls stalls the server, and fewer of these calls cannot.
THEOREM PoolStalls == Spec => []StallOnlyByNestedCalls
  <1>1. ASSUME PoolInv
        PROVE  StallOnlyByNestedCalls
    <2>1. SUFFICES ASSUME free = 0, \A c \in Calls : pc[c] \in Waits \cup {"idle"}
                   PROVE  FullHouse
      BY DEF StallOnlyByNestedCalls
    <2>2. Two = {}
      BY <2>1 DEF Two, HoldsTwo, Waits
    <2>3. ASSUME NEW c \in Calls
          PROVE  HoldsOne(c) <=> c \in Nested /\ pc[c] = "wait_second"
      <3>1. pc[c] \in {"idle", "wait_lookup", "wait_first", "wait_second"}
        BY <2>1 DEF Waits
      <3>2. pc[c] = "wait_second" => c \in Nested
        BY <1>1 DEF PoolInv, Types, CallTypes, Calls
      <3> QED
        BY <3>1, <3>2, HeldSteps DEF HoldsOne
    <2>4. One = {c \in Nested : pc[c] = "wait_second"}
      BY <2>3 DEF One, Calls
    <2>5. Cardinality({}) = 0
      BY FS_EmptySet
    <2>6. Cardinality(One) = MaxSize
      BY <1>1, <2>1, <2>2, <2>5, CallsAreFinite, PoolAssumption DEF PoolInv, Balance
    <2> QED
      BY <2>4, <2>6 DEF FullHouse
  <1> QED
    BY <1>1, PoolInvAlways, PTL

\* With more connections than calls of get_or_create_user_api_groups at once,
\* something can always move: a connection is free for a call that waits, or a
\* call that does not wait holds one it will give back.
THEOREM PoolSuffices ==
  ASSUME Cardinality(Nested) < MaxSize
  PROVE  Spec => [](queue # << >> => free > 0 \/ \E c \in Calls : pc[c] \notin Waits \cup {"idle"})
  <1>1. ~FullHouse
    <2>1. \A S \in SUBSET Nested : Cardinality(S) <= Cardinality(Nested)
      BY PoolAssumption, FS_Subset
    <2>2. Cardinality(Nested) \in Nat
      BY PoolAssumption, FS_CardinalityType
    <2>3. Cardinality({c \in Nested : pc[c] = "wait_second"}) <= Cardinality(Nested)
      BY <2>1
    <2> QED
      BY <2>2, <2>3, PoolAssumption DEF FullHouse
  <1>2. TypeOK /\ StallOnlyByNestedCalls =>
          (queue # << >> => free > 0 \/ \E c \in Calls : pc[c] \notin Waits \cup {"idle"})
    BY <1>1, PoolAssumption DEF TypeOK, StallOnlyByNestedCalls
  <1> QED
    BY <1>2, PoolTypes, PoolStalls, PTL
=============================================================================
