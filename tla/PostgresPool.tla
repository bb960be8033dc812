---------------------------- MODULE PostgresPool ----------------------------
(***************************************************************************)
(* A PostgreSQLDatabase: its connection pool, its transactions and their   *)
(* end (internal/backend/golang/ahdruntime/postgresql.go).                 *)
(*                                                                         *)
(* Callers are goroutines of the program. A transaction has a connection   *)
(* of its own from BeginTx to its end; the pool and the server are         *)
(* external, and any request to them may fail or time out. What a          *)
(* statement does is left out; a failed one aborts its transaction.        *)
(***************************************************************************)
EXTENDS Naturals, FiniteSets

CONSTANTS
    Callers,
    NoCaller,
    Transactions,
    NoTransaction,
    MaxConns        \* connections of the pool

ASSUME PoolAssumption ==
    /\ NoCaller \notin Callers /\ NoTransaction \notin Transactions
    /\ MaxConns \in Nat \ {0}

VARIABLES
    dbClosed,      \* state.closed
    listed,        \* state.transactions
    poolOpen,      \* pool.Close has not been called
    handles,       \* transactions the program has been given
    done,          \* per transaction: transaction.done
    holder,        \* per transaction: the caller that holds transaction.mu
    remote,        \* per transaction: what it is on the server
    call,          \* per caller: the step it is at, and the transaction it is about
    ending         \* the transactions PostgreSQLClose has still to roll back

poolVars == <<dbClosed, listed, poolOpen, handles, done, holder, remote, call, ending>>
dbVars   == <<dbClosed, listed, poolOpen, handles>>
txState  == <<done, holder, remote>>

Live == {"open", "aborted"}

PoolInit ==
    /\ dbClosed = FALSE /\ poolOpen = TRUE
    /\ listed = {} /\ handles = {} /\ ending = {}
    /\ done = [t \in Transactions |-> FALSE]
    /\ holder = [t \in Transactions |-> NoCaller]
    /\ remote = [t \in Transactions |-> "unused"]
    /\ call = [k \in Callers |-> [at |-> "idle", tx |-> NoTransaction]]

Moves(k, step, t) == call' = [call EXCEPT ![k] = [at |-> step, tx |-> t]]
Returned(k) == Moves(k, "idle", NoTransaction)
Locks(k, t) == holder[t] = NoCaller /\ holder' = [holder EXCEPT ![t] = k]
Unlocked(t) == holder' = [holder EXCEPT ![t] = NoCaller]
Becomes(t, what) == remote' = [remote EXCEPT ![t] = what]

\* Connections taken from the pool.
InUse ==
    {t \in Transactions : remote[t] \in Live} \cup
    {k \in Callers : call[k].at \in {"query", "category"}}
Acquired == poolOpen /\ Cardinality(InUse) < MaxConns

-----------------------------------------------------------------------------
(* PostgreSQLBegin. *)

\* The lookup refuses a closed database.
PgBegin(k) ==
    /\ call[k].at = "idle" /\ ~dbClosed
    /\ \E t \in Transactions :
          remote[t] = "unused" /\ (\A j \in Callers : call[j].tx # t) /\ Moves(k, "begin", t)
    /\ UNCHANGED <<dbVars, txState, ending>>

\* BeginTx on a connection of the pool; it may time out.
BeginTx(k) ==
    /\ call[k].at = "begin"
    /\ \/ Acquired /\ Becomes(call[k].tx, "open") /\ Moves(k, "register", call[k].tx)
       \/ Returned(k) /\ UNCHANGED remote
    /\ UNCHANGED <<dbVars, done, holder, ending>>

\* Mutant: nothing is asked again once the connection is there.
NotAsked == FALSE

ClosedMeanwhile == dbClosed

\* Under state.mu: a database closed in the meantime gets the transaction
\* rolled back, another one lists it.
Register(k) ==
    /\ call[k].at = "register"
    /\ LET t == call[k].tx
       IN IF ClosedMeanwhile
            THEN Becomes(t, "undone") /\ UNCHANGED <<listed, handles>>
            ELSE listed' = listed \cup {t} /\ handles' = handles \cup {t} /\ UNCHANGED remote
    /\ Returned(k)
    /\ UNCHANGED <<dbClosed, poolOpen, done, holder, ending>>

-----------------------------------------------------------------------------
(* Commit, rollback and statements of a transaction. *)

Asks(k, t, what) ==
    /\ call[k].at = "idle" /\ t \in handles
    /\ Moves(k, what, t)
    /\ UNCHANGED <<dbVars, txState, ending>>

\* Mutant: a statement does not ask whether its transaction is over.
NeverFinished(t) == FALSE

Finished(t) == done[t]

\* transaction.mu.Lock in Commit and Rollback: a finished transaction raises;
\* the caller marks it finished and the database forgets it.
LockToEnd(k) ==
    /\ call[k].at \in {"commit", "rollback"}
    /\ LET t == call[k].tx
       IN IF done[t]
            THEN holder[t] = NoCaller /\ Returned(k) /\ UNCHANGED <<done, holder, listed>>
            ELSE /\ Locks(k, t)
                 /\ done' = [done EXCEPT ![t] = TRUE]
                 /\ listed' = listed \ {t}
                 /\ Moves(k, IF call[k].at = "commit" THEN "committing" ELSE "undoing", t)
    /\ UNCHANGED <<dbClosed, poolOpen, handles, remote, ending>>

\* tx.Commit: an aborted transaction is rolled back, and so may an open one
\* be; the connection is released in every case.
PgCommit(k) ==
    /\ call[k].at = "committing"
    /\ LET t == call[k].tx
       IN /\ \E end \in {"committed", "undone"} :
                (remote[t] = "aborted" => end = "undone") /\ Becomes(t, end)
          /\ Unlocked(t)
    /\ Returned(k)
    /\ UNCHANGED <<dbVars, done, ending>>

\* tx.Rollback, for Rollback and for Close.
PgRollback(k) ==
    /\ call[k].at \in {"undoing", "closingOne"}
    /\ Becomes(call[k].tx, "undone") /\ Unlocked(call[k].tx)
    /\ IF call[k].at = "undoing" THEN Returned(k) ELSE Moves(k, "closing", NoTransaction)
    /\ UNCHANGED <<dbVars, done, ending>>

\* transaction.mu.Lock in TransactionExecute and TransactionQuery.
LockToRun(k) ==
    /\ call[k].at = "statement"
    /\ LET t == call[k].tx
       IN \/ Finished(t) /\ holder[t] = NoCaller /\ Returned(k) /\ UNCHANGED holder
          \/ ~Finished(t) /\ Locks(k, t) /\ Moves(k, "running", t)
    /\ UNCHANGED <<dbVars, done, remote, ending>>

\* The statement ends; a result with a type of the user's makes decodeResult
\* look its category up, with the lock still held.
RunStatement(k) ==
    /\ call[k].at = "running"
    /\ LET t == call[k].tx
       IN \/ \E state \in {remote[t], "aborted"} :
                Becomes(t, state) /\ Unlocked(t) /\ Returned(k)
          \/ remote[t] = "open" /\ Moves(k, "lookup", t) /\ UNCHANGED <<remote, holder>>
    /\ UNCHANGED <<dbVars, done, ending>>

-----------------------------------------------------------------------------
(* Statements on the pool: Execute, Query, Ping and category. *)

PgQuery(k) ==
    /\ call[k].at = "idle" /\ ~dbClosed
    /\ Moves(k, "acquire", NoTransaction)
    /\ UNCHANGED <<dbVars, txState, ending>>

\* onPool: a connection, or the timeout.
Acquire(k) ==
    /\ call[k].at \in {"acquire", "lookup"}
    /\ \/ /\ Acquired
          /\ Moves(k, IF call[k].at = "acquire" THEN "query" ELSE "category", call[k].tx)
          /\ UNCHANGED holder
       \/ /\ Returned(k)
          /\ IF call[k].at = "lookup" THEN Unlocked(call[k].tx) ELSE UNCHANGED holder
    /\ UNCHANGED <<dbVars, done, remote, ending>>

\* The statement ends and its connection is released; a query may look a
\* category up in its turn.
Release(k) ==
    /\ call[k].at \in {"query", "category"}
    /\ \/ call[k].at = "category" /\ Unlocked(call[k].tx) /\ Returned(k)
       \/ /\ call[k].at = "query" /\ UNCHANGED holder
          /\ Returned(k) \/ Moves(k, "acquire", NoTransaction)
    /\ UNCHANGED <<dbVars, done, remote, ending>>

-----------------------------------------------------------------------------
(* PostgreSQLClose. *)

\* The compare-and-swap; a second close returns at once.
PgClose(k) ==
    /\ call[k].at = "idle" /\ ~dbClosed
    /\ dbClosed' = TRUE
    /\ Moves(k, "listing", NoTransaction)
    /\ UNCHANGED <<listed, poolOpen, handles, txState, ending>>

\* Under state.mu.
TakeList(k) ==
    /\ call[k].at = "listing"
    /\ ending' = listed /\ listed' = {}
    /\ Moves(k, "closing", NoTransaction)
    /\ UNCHANGED <<dbClosed, poolOpen, handles, txState>>

\* One of the list: when nobody has finished it, it is rolled back.
CloseOne(k) ==
    /\ call[k].at = "closing"
    /\ \E t \in ending :
          /\ ending' = ending \ {t}
          /\ IF done[t]
               THEN holder[t] = NoCaller /\ UNCHANGED <<done, holder, call>>
               ELSE /\ Locks(k, t)
                    /\ done' = [done EXCEPT ![t] = TRUE]
                    /\ Moves(k, "closingOne", t)
    /\ UNCHANGED <<dbVars, remote>>

\* pool.Close: nothing is acquired from here on ...
ClosePool(k) ==
    /\ call[k].at = "closing" /\ ending = {}
    /\ poolOpen' = FALSE
    /\ Moves(k, "draining", NoTransaction)
    /\ UNCHANGED <<dbClosed, listed, handles, txState, ending>>

\* ... and it returns when every connection has come back.
Drained(k) ==
    /\ call[k].at = "draining" /\ InUse = {}
    /\ Returned(k)
    /\ UNCHANGED <<dbVars, txState, ending>>

-----------------------------------------------------------------------------
\* A call the program makes, and a call under way.
NewCall(k) ==
    \/ PgBegin(k) \/ PgQuery(k) \/ PgClose(k)
    \/ \E t \in Transactions, what \in {"commit", "rollback", "statement"} : Asks(k, t, what)

Continue(k) ==
    \/ BeginTx(k) \/ Register(k) \/ PgCommit(k) \/ PgRollback(k) \/ RunStatement(k)
    \/ Acquire(k) \/ Release(k) \/ TakeList(k) \/ ClosePool(k) \/ Drained(k)

TakeLock(k) == LockToEnd(k) \/ LockToRun(k) \/ CloseOne(k)

PoolNext == \E k \in Callers : NewCall(k) \/ Continue(k) \/ TakeLock(k)

\* A call under way goes on, since every request has a timeout, and a mutex of
\* Go is not withheld for ever from a goroutine that waits for it. Nothing
\* makes the program begin another call.
PoolFairness == \A k \in Callers : WF_poolVars(Continue(k)) /\ SF_poolVars(TakeLock(k))

PoolSpec == PoolInit /\ [][PoolNext]_poolVars /\ PoolFairness

-----------------------------------------------------------------------------
\* Where a call can be.
Steps ==
    {"idle", "begin", "register", "commit", "rollback", "statement", "committing", "undoing",
     "running", "lookup", "category", "acquire", "query", "listing", "closing", "closingOne",
     "draining"}

\* Type invariant.
PoolTypes ==
    /\ dbClosed \in BOOLEAN /\ poolOpen \in BOOLEAN
    /\ listed \subseteq handles /\ handles \subseteq Transactions /\ ending \subseteq Transactions
    /\ done \in [Transactions -> BOOLEAN]
    /\ holder \in [Transactions -> Callers \cup {NoCaller}]
    /\ remote \in [Transactions -> {"unused", "committed", "undone"} \cup Live]
    /\ call \in [Callers -> [at : Steps, tx : Transactions \cup {NoTransaction}]]

\* A statement of a transaction runs inside it: however commit, rollback and
\* close of other callers fall, its connection is never one that has already
\* gone back to the pool.
StatementInside ==
    \A k \in Callers :
        call[k].at \in {"running", "lookup", "category", "committing", "undoing", "closingOne"}
            => remote[call[k].tx] \in Live

\* "rolls back every transaction still open on the database": close comes
\* to its end, although it waits for every connection: a transaction that
\* escaped its list would hold one for ever.
PoolCloses == dbClosed ~> (~poolOpen /\ \A k \in Callers : call[k].at # "draining")
=============================================================================
