------------------------------ MODULE ConnPool ------------------------------
(***************************************************************************)
(* The connection pool (deadpool, no wait timeout) and the calls that      *)
(* share it.  Nearly every store function takes one connection and gives   *)
(* it back.  get_or_create_user_api_groups, for a user without groups,     *)
(* opens a transaction on one connection and, holding it, resolves the     *)
(* user's tenant, which takes a second one from the same pool.             *)
(***************************************************************************)
EXTENDS Naturals, Sequences, FiniteSets

CONSTANTS
  Single,  \* calls that need one connection at a time
  Nested,  \* calls of get_or_create_user_api_groups
  MaxSize  \* the size of the pool

ASSUME PoolAssumption ==
  /\ IsFiniteSet(Single) /\ IsFiniteSet(Nested)
  /\ Single \cap Nested = {}
  /\ MaxSize \in Nat \ {0}

Calls == Single \cup Nested

VARIABLES
  pc,    \* where each call is
  queue, \* calls waiting for a connection, oldest first
  free   \* connections in the pool

vars == <<pc, queue, free>>

(* Where a call is, and how many connections it has there.  A call comes    *)
(* back to "idle" when it has been answered, and may be made again.         *)
Waits == {"wait_lookup", "wait_first", "wait_second"}
Held(step) ==
  CASE step \in {"idle", "wait_lookup", "between", "wait_first"} -> 0
    [] step \in {"lookup", "first", "wait_second", "last"} -> 1
    [] step = "second" -> 2

Steps == {"idle", "lookup", "between", "first", "second", "last"} \cup Waits

Init ==
  /\ pc = [c \in Calls |-> "idle"]
  /\ queue = << >>
  /\ free = MaxSize

Goto(c, step) == pc' = [pc EXCEPT ![c] = step]

\* Pool::get: a connection if one is free and nobody is before us, or a place
\* in the queue.
Acquire(c, waiting, holding) ==
  IF free > 0 /\ queue = << >>
  THEN free' = free - 1 /\ queue' = queue /\ Goto(c, holding)
  ELSE free' = free /\ queue' = Append(queue, c) /\ Goto(c, waiting)

\* The step a waiting call gets to.
After(step) ==
  CASE step = "wait_lookup" -> "lookup"
    [] step = "wait_first" -> "first"
    [] step = "wait_second" -> "second"

\* Mutant: a call that comes later is served before one that waits.
GrantLast ==
  /\ free > 0
  /\ queue # << >>
  /\ free' = free - 1
  /\ queue' = SubSeq(queue, 1, Len(queue) - 1)
  /\ Goto(queue[Len(queue)], After(pc[queue[Len(queue)]]))

\* A connection given back goes to the call that has waited longest.
Grant ==
  /\ free > 0
  /\ queue # << >>
  /\ free' = free - 1
  /\ queue' = Tail(queue)
  /\ Goto(Head(queue), After(pc[Head(queue)]))

-----------------------------------------------------------------------------
(* The calls.                                                              *)

\* A call begins with one connection; for a Nested call it is the one
\* get_api_groups_by_email takes.
Start(c) ==
  /\ pc[c] = "idle"
  /\ Acquire(c, "wait_lookup", "lookup")

Release(c, n, step) ==
  /\ free' = free + n
  /\ Goto(c, step)
  /\ UNCHANGED queue

\* The connection of the lookup is given back.  The user has groups and the
\* call ends (or the statement failed), or it goes on.
LookupDone(c) ==
  /\ pc[c] = "lookup"
  /\ \/ Release(c, 1, "idle")
     \/ c \in Nested /\ Release(c, 1, "between")

\* get_admin_conn, then the transaction.
TakeFirst(c) ==
  /\ pc[c] = "between"
  /\ Acquire(c, "wait_first", "first")

\* get_default_tenant, with the transaction open; or BEGIN failed.
TakeSecond(c) ==
  /\ pc[c] = "first"
  /\ \/ Acquire(c, "wait_second", "second")
     \/ Release(c, 1, "idle")

\* Mutant: the connection of the tenant lookup is not given back.
LeakSecond(c) ==
  /\ pc[c] = "second"
  /\ Release(c, 0, "last")

\* The tenant is resolved, or it fails and `?` drops both.
SecondDone(c) ==
  /\ pc[c] = "second"
  /\ \/ Release(c, 1, "last")
     \/ Release(c, 2, "idle")

\* Mutant: a rollback gives back the second connection again.
LastReleasesTwo(c) ==
  /\ pc[c] = "last"
  /\ Release(c, 2, "idle")

\* The inserts and the COMMIT, or a rollback: either way the last one is free.
LastDone(c) ==
  /\ pc[c] = "last"
  /\ Release(c, 1, "idle")

Handle(c) == LookupDone(c) \/ TakeFirst(c) \/ TakeSecond(c) \/ SecondDone(c) \/ LastDone(c)

Next ==
  \/ \E c \in Calls : Start(c) \/ Handle(c)
  \/ Grant

\* Tokio polls every task that can run, and a statement sent to the database
\* is answered or fails.  Nothing makes a client call.
Fairness ==
  /\ \A c \in Calls : WF_vars(Handle(c))
  /\ WF_vars(Grant)

Spec == Init /\ [][Next]_vars /\ Fairness

-----------------------------------------------------------------------------
(* What the pool promises.                                                 *)

TypeOK ==
  /\ pc \in [Calls -> Steps]
  /\ \A c \in Single : pc[c] \in {"idle", "wait_lookup", "lookup"}
  /\ queue \in Seq(Calls)
  /\ free \in 0..MaxSize

HoldsTwo(c) == pc[c] = "second"
HoldsOne(c) == Held(pc[c]) = 1

\* No connection is lost or duplicated, on any path of any call: those in the
\* pool and those held make up the pool.  Nor is a call that waits for one: the
\* queue is exactly the calls that wait, each once.
ConnectionsConserved ==
  /\ free + Cardinality({c \in Calls : HoldsOne(c)}) + 2 * Cardinality({c \in Calls : HoldsTwo(c)})
       = MaxSize
  /\ \A c \in Calls : pc[c] \in Waits <=> \E i \in 1..Len(queue) : queue[i] = c
  /\ \A i, j \in 1..Len(queue) : queue[i] = queue[j] => i = j

\* Every connection is held by a call that waits for a second one.
FullHouse == Cardinality({c \in Nested : pc[c] = "wait_second"}) = MaxSize

\* The server can stall in one way only: if a call waits and nothing but a new
\* call can happen, MaxSize nested calls hold one connection each and wait for
\* another.
StallOnlyByNestedCalls ==
  (queue # << >> /\ free = 0 /\ \A c \in Calls : pc[c] \in Waits \cup {"idle"}) => FullHouse

\* Short of that, every call that waits for a connection gets an answer,
\* however many calls come after it.
CallsAnsweredUnlessStalled ==
  \A c \in Calls : pc[c] \in Waits ~> (pc[c] = "idle" \/ FullHouse)
=============================================================================
