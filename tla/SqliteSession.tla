--------------------------- MODULE SqliteSession ---------------------------
(***************************************************************************)
(* A program's SQLite session: the request/answer link to its one helper   *)
(* process (ahdruntime/sqlite.go) and what the helper does with a request  *)
(* (cmd/ahdsqlite/main.go). Every Database of the program is a connection  *)
(* of the helper to the same file; other processes lock that file and may  *)
(* create the destination of a backup. The helper may die at any moment.   *)
(*                                                                         *)
(* A row that is written is a number; the file is the set of rows          *)
(* committed to it. SQLite itself (locks, atomic commit, rollback of what  *)
(* was not committed) is modelled by how the helper uses it.               *)
(***************************************************************************)
EXTENDS Naturals

CONSTANTS
    MaxOpens,    \* bound on the Databases a program opens
    MaxRequests,    \* bound on its requests
    MaxWrites    \* bound on the rows it writes

ASSUME SqliteAssumption == MaxOpens \in Nat /\ MaxRequests \in Nat /\ MaxWrites \in Nat

Handles == 1..MaxOpens
Rows    == 1..MaxWrites

VARIABLES
    engine,      \* the process: "none", "up" or "gone"
    failure,     \* helper.failure is set
    stage,       \* how far the request under way is
    request,     \* that request
    asked, decoded,  \* its number, and the number of the last response decoded
    reply,       \* the response to it: "none", "ok" or "error"
    conn,        \* per Database: "unused", "open" or "closed"
    autocommit, pending,  \* per connection: SQLite's transaction state
    owner,       \* who may write: a Database, Other or Nobody
    file,        \* the rows committed
    written,     \* the last row the program wrote
    hardLinks,   \* the file system has hard links
    temporary,   \* the backup's temporary file
    destination, \* the file at the path of the backup
    counted,     \* ghost, per Database: the rows its transaction has taken
    doubtful,    \* ghost: the rows the request under way would commit
    promised,    \* ghost: the rows the program was told are committed
    refused,     \* ghost: rows of statements that may fail and keep them, and did
    abandoned    \* ghost: the Databases whose transaction a failure has ended

pipeVars   == <<engine, failure, stage, request, asked, decoded, reply>>
txVars     == <<autocommit, pending, owner, file>>
backupVars == <<hardLinks, temporary, destination>>
ghostVars  == <<counted, doubtful, promised, refused, abandoned>>
sqliteVars == <<pipeVars, conn, txVars, written, backupVars, ghostVars>>

Nobody == 0
Other  == MaxOpens + 1
NoFile  == [kind |-> "none", rows |-> {}]
Foreign == [kind |-> "foreign", rows |-> {}]
Partial == [kind |-> "partial", rows |-> {}]
Snapshot(rows) == [kind |-> "whole", rows |-> rows]
NoRequest == [op |-> "none", db |-> 0]

\* execute and query both run any one SQL statement. "write": one that has no
\* effect when it is answered with an error. "keepingWrite": one that may keep
\* its rows then, because it says so (INSERT OR FAIL), or because query steps
\* it (INSERT ... RETURNING) and cannot represent a value of the result. "read":
\* one that writes nothing. The statements BEGIN, COMMIT and ROLLBACK do what
\* the methods of these names do.
Writes == {"write", "keepingWrite"}
Operations == Writes \cup {"read", "begin", "commit", "rollback", "backup", "close"}
Requests == {[op |-> "open", db |-> 0]} \cup [op : Operations, db : Handles]

SqliteInit ==
    /\ engine = "none" /\ failure = FALSE
    /\ stage = "idle" /\ request = NoRequest
    /\ asked = 0 /\ decoded = 0 /\ reply = "none"
    /\ conn = [h \in Handles |-> "unused"]
    /\ autocommit = [h \in Handles |-> TRUE]
    /\ pending = [h \in Handles |-> {}]
    /\ owner = Nobody /\ file = {} /\ written = 0
    /\ hardLinks \in BOOLEAN
    /\ temporary = NoFile /\ destination = NoFile
    /\ counted = [h \in Handles |-> {}] /\ doubtful = {} /\ promised = {}
    /\ refused = {} /\ abandoned = {}

-----------------------------------------------------------------------------
(* The program's side: ahdSQLiteHelper.call.                               *)

\* Only handles that SQLite.open gave out are used.
Usable(r) ==
    IF r.op = "open" THEN \E h \in Handles : conn[h] = "unused"
    ELSE /\ conn[r.db] # "unused"
         /\ r.op \in Writes => written < MaxWrites

\* The rows a request commits if it succeeds.
Commits(r) ==
    CASE r.op \in Writes -> IF autocommit[r.db] THEN {written + 1} ELSE {}
      [] r.op = "commit" -> pending[r.db]
      [] OTHER -> {}

\* The first call starts the helper; the request is written to its input.
Call(r) ==
    /\ stage = "idle" /\ ~failure /\ engine # "gone" /\ asked < MaxRequests
    /\ Usable(r)
    /\ engine' = "up"
    /\ stage' = "sent" /\ request' = r
    /\ asked' = asked + 1
    /\ written' = IF r.op \in Writes THEN written + 1 ELSE written
    /\ doubtful' = Commits(r)
    /\ UNCHANGED <<failure, decoded, reply, conn, txVars, backupVars, counted, promised,
                   refused, abandoned>>

\* The helper is gone: the request cannot be written.
CallDead ==
    /\ stage = "idle" /\ ~failure /\ engine = "gone" /\ asked < MaxRequests
    /\ asked' = asked + 1 /\ failure' = TRUE
    /\ UNCHANGED <<engine, stage, request, decoded, reply, conn, txVars, written,
                   backupVars, ghostVars>>

\* The rows the program counts on being in the transaction of h: those whose
\* statement succeeded, until it has begun, committed or rolled back.
Counts(h) ==
    IF h # request.db \/ reply = "error" THEN counted[h]
    ELSE CASE request.op \in Writes /\ doubtful = {} -> counted[h] \cup {written}
           [] request.op \in {"begin", "commit", "rollback"} -> {}
           [] OTHER -> counted[h]

Decode ==
    /\ stage = "replied"
    /\ stage' = "idle" /\ request' = NoRequest /\ reply' = "none"
    /\ decoded' = asked
    /\ counted' = [h \in Handles |-> Counts(h)]
    /\ promised' = IF reply = "ok" THEN promised \cup doubtful ELSE promised
    /\ doubtful' = {}
    /\ refused' = IF reply = "error" /\ request.op = "keepingWrite"
                    THEN refused \cup {written} ELSE refused
    /\ abandoned' = IF reply = "ok" /\ request.op = "begin"
                      THEN abandoned \ {request.db} ELSE abandoned
    /\ UNCHANGED <<engine, failure, asked, conn, txVars, written, backupVars>>

\* Mutant: an error of the transport is returned and not remembered.
Transient == FALSE

\* helper.failure is permanent.
Permanent == TRUE

\* End of file where a response should be.
DecodeFails ==
    /\ stage \notin {"idle", "replied"} /\ engine = "gone"
    /\ failure' = Permanent
    /\ stage' = "idle" /\ request' = NoRequest /\ reply' = "none"
    /\ counted' = [h \in Handles |-> {}]
    /\ UNCHANGED <<engine, asked, decoded, conn, txVars, written, backupVars,
                   doubtful, promised, refused, abandoned>>

-----------------------------------------------------------------------------
(* The helper: serve and handle.                                           *)

Serving(op) == engine = "up" /\ stage = "sent" /\ request.op \in op
db == request.db
Respond(answer) == stage' = "handled" /\ reply' = answer
pipeRest == <<engine, failure, request, asked, decoded>>

\* open: the next handle, or SQLite cannot open the file.
Open ==
    /\ Serving({"open"})
    /\ \/ /\ Respond("ok")
          /\ LET h == CHOOSE g \in Handles : conn[g] = "unused" /\ \A k \in 1..(g - 1) : conn[k] # "unused"
             IN  conn' = [conn EXCEPT ![h] = "open"]
       \/ Respond("error") /\ UNCHANGED conn
    /\ UNCHANGED <<pipeRest, txVars, written, backupVars, ghostVars>>

\* A closed Database: close succeeds again, everything else fails.
OnClosed ==
    /\ Serving(Operations) /\ conn[db] = "closed"
    /\ Respond(IF request.op = "close" THEN "ok" ELSE "error")
    /\ UNCHANGED <<pipeRest, conn, txVars, written, backupVars, ghostVars>>

OnOpen(op) == Serving(op) /\ conn[db] = "open"

Failed == Respond("error")

\* A statement that only reads, lastInsertId, and any request that SQLite or a
\* recovered panic answers with an error and without effect (a syntax error, a
\* constraint, a lock that was not given within the busy timeout).
NoEffect ==
    /\ OnOpen(Operations)
    /\ \/ request.op = "read" /\ Respond("ok")
       \/ request.op # "backup" /\ Failed
    /\ UNCHANGED <<pipeRest, conn, txVars, written, backupVars, ghostVars>>

\* One statement, in the transaction of the connection or in one of its own,
\* which ends when execute or query closes the statement, whatever they answer.
StatementWrites ==
    /\ OnOpen(Writes)
    /\ owner \in {Nobody, db}
    /\ Respond("ok") \/ (request.op = "keepingWrite" /\ Failed)
    /\ IF autocommit[db]
         THEN file' = file \cup {written} /\ UNCHANGED <<pending, owner>>
         ELSE /\ pending' = [pending EXCEPT ![db] = @ \cup {written}]
              /\ owner' = db /\ UNCHANGED file
    /\ UNCHANGED <<pipeRest, conn, autocommit, written, backupVars, ghostVars>>

\* SQLite ends the transaction of h; its lock goes with it.
EndTransaction(h) ==
    /\ autocommit' = [autocommit EXCEPT ![h] = TRUE]
    /\ pending' = [pending EXCEPT ![h] = {}]
    /\ owner' = IF owner = h THEN Nobody ELSE owner

InTransaction == ~autocommit[db]

\* Some failures make SQLite roll the whole transaction back: a constraint under
\* INSERT OR ROLLBACK, RAISE(ROLLBACK) in a trigger, a full disk, an I/O error.
\* The helper answers with an error as for any other failure.
FailureRollsBack ==
    /\ OnOpen(Writes \cup {"read", "commit", "rollback"}) /\ InTransaction
    /\ Failed
    /\ EndTransaction(db) /\ UNCHANGED file
    /\ abandoned' = abandoned \cup {db}
    /\ UNCHANGED <<pipeRest, conn, written, backupVars, counted, doubtful, promised, refused>>

\* Only outside a transaction.
Begin ==
    /\ OnOpen({"begin"})
    /\ ~InTransaction
    /\ Respond("ok")
    /\ autocommit' = [autocommit EXCEPT ![db] = FALSE]
    /\ UNCHANGED <<pipeRest, conn, pending, owner, file, written, backupVars, ghostVars>>

Commit ==
    /\ OnOpen({"commit"})
    /\ InTransaction
    /\ Respond("ok")
    /\ file' = file \cup pending[db]
    /\ EndTransaction(db)
    /\ UNCHANGED <<pipeRest, conn, written, backupVars, ghostVars>>

Rollback ==
    /\ OnOpen({"rollback"})
    /\ InTransaction
    /\ Respond("ok")
    /\ EndTransaction(db) /\ UNCHANGED file
    /\ UNCHANGED <<pipeRest, conn, written, backupVars, ghostVars>>

\* Mutant: close does not look at the transaction.
CloseAnyhow == TRUE

MayClose == autocommit[db]

\* The handle stays known, so that it can be closed again. Closing a
\* connection rolls its transaction back, but there is none.
CloseDatabase ==
    /\ OnOpen({"close"})
    /\ MayClose
    /\ Respond("ok")
    /\ conn' = [conn EXCEPT ![db] = "closed"]
    /\ EndTransaction(db) /\ UNCHANGED file
    /\ UNCHANGED <<pipeRest, written, backupVars, ghostVars>>

Reply ==
    /\ engine = "up" /\ stage = "handled"
    /\ stage' = "replied"
    /\ UNCHANGED <<engine, failure, request, asked, decoded, reply, conn, txVars,
                   written, backupVars, ghostVars>>

\* The process dies: SQLite's journal makes the next reader roll back what was
\* not committed. A response that was written can still be read.
HelperDies ==
    /\ engine = "up"
    /\ engine' = "gone"
    /\ autocommit' = [h \in Handles |-> TRUE]
    /\ pending' = [h \in Handles |-> {}]
    /\ owner' = IF owner = Other THEN Other ELSE Nobody
    /\ UNCHANGED <<failure, stage, request, asked, decoded, reply, conn, file,
                   written, backupVars, ghostVars>>

-----------------------------------------------------------------------------
(* backup: check, copy under one read transaction, verify, publish.        *)

Stage(place) == stage' = place /\ UNCHANGED reply
\* The deferred removal of the temporary file.
GiveUpBackup == Respond("error") /\ temporary' = NoFile

CheckDestination ==
    /\ OnOpen({"backup"})
    /\ IF autocommit[db] /\ destination = NoFile THEN Stage("copying") ELSE Respond("error")
    /\ UNCHANGED <<pipeRest, conn, txVars, written, backupVars, ghostVars>>

\* Mutant: the error of the copy is not looked at.
PublishAnyhow == Stage("publishing") /\ UNCHANGED temporary

CopyFails == GiveUpBackup

Copy ==
    /\ engine = "up" /\ stage = "copying"
    /\ \/ temporary = NoFile /\ temporary' = Partial /\ Stage("copying")
       \/ temporary = Partial /\ temporary' = Snapshot(file) /\ Stage("verifying")
       \/ CopyFails
    /\ UNCHANGED <<pipeRest, conn, txVars, written, hardLinks, destination, ghostVars>>

verifyBackup ==
    /\ engine = "up" /\ stage = "verifying"
    /\ \/ Stage("publishing") /\ UNCHANGED temporary
       \/ GiveUpBackup
    /\ UNCHANGED <<pipeRest, conn, txVars, written, hardLinks, destination, ghostVars>>

\* Mutant: the finished file is renamed over whatever is there.
RenameOver == destination' = temporary /\ temporary' = NoFile /\ Respond("ok")

\* publishNoReplace: with hard links the file gets its name only if that name
\* is free.
LinkIfAbsent ==
    IF destination = NoFile
    THEN destination' = temporary /\ UNCHANGED temporary /\ Stage("linked")
    ELSE UNCHANGED destination /\ GiveUpBackup

Publish ==
    /\ engine = "up" /\ stage = "publishing" /\ hardLinks
    /\ LinkIfAbsent
    /\ UNCHANGED <<pipeRest, conn, txVars, written, hardLinks, ghostVars>>

\* Then the temporary name goes. Should that fail, the call does, although the
\* backup has been published.
RemoveTemporary ==
    /\ engine = "up" /\ stage = "linked"
    /\ temporary' = NoFile
    /\ Respond("ok") \/ Respond("error")
    /\ UNCHANGED <<pipeRest, conn, txVars, written, hardLinks, destination, ghostVars>>

\* Without hard links: the name is looked at, then the file renamed.
PublishChecks ==
    /\ engine = "up" /\ stage = "publishing" /\ ~hardLinks
    /\ IF destination = NoFile THEN Stage("renaming") /\ UNCHANGED temporary ELSE GiveUpBackup
    /\ UNCHANGED <<pipeRest, conn, txVars, written, hardLinks, destination, ghostVars>>

PublishRenames ==
    /\ engine = "up" /\ stage = "renaming"
    /\ destination' = temporary /\ temporary' = NoFile
    /\ Respond("ok")
    /\ UNCHANGED <<pipeRest, conn, txVars, written, hardLinks, ghostVars>>

-----------------------------------------------------------------------------
(* Other processes.                                                        *)

OtherLocks ==
    /\ owner' = CASE owner = Nobody -> Other [] owner = Other -> Nobody [] OTHER -> owner
    /\ UNCHANGED <<pipeVars, conn, autocommit, pending, file, written, backupVars, ghostVars>>

OtherCreates ==
    /\ destination = NoFile
    /\ destination' = Foreign
    /\ UNCHANGED <<pipeVars, conn, txVars, written, hardLinks, temporary, ghostVars>>

-----------------------------------------------------------------------------
Handle ==
    \/ Open \/ OnClosed \/ NoEffect
    \/ StatementWrites \/ FailureRollsBack \/ Begin \/ Commit \/ Rollback \/ CloseDatabase
    \/ CheckDestination \/ Copy \/ verifyBackup
    \/ Publish \/ RemoveTemporary \/ PublishChecks \/ PublishRenames
    \/ Reply

SqliteNext ==
    \/ \E r \in Requests : Call(r)
    \/ CallDead \/ Decode \/ DecodeFails
    \/ Handle \/ HelperDies
    \/ OtherLocks \/ OtherCreates

SqliteSpec == SqliteInit /\ [][SqliteNext]_sqliteVars

\* The program's goroutine and the helper go on; nobody has to die or to lock.
SqliteFairSpec == SqliteSpec /\ WF_sqliteVars(Handle) /\ WF_sqliteVars(Decode \/ DecodeFails)

-----------------------------------------------------------------------------
\* Type invariant: at most one connection is writing, and a connection outside
\* a transaction has nothing pending.
SqliteTypes ==
    /\ engine \in {"none", "up", "gone"} /\ failure \in BOOLEAN
    /\ stage \in {"idle", "sent", "copying", "verifying", "publishing", "linked",
                  "renaming", "handled", "replied"}
    /\ request \in Requests \cup {NoRequest}
    /\ asked \in 0..MaxRequests /\ decoded \in 0..asked
    /\ reply \in {"none", "ok", "error"}
    /\ conn \in [Handles -> {"unused", "open", "closed"}]
    /\ autocommit \in [Handles -> BOOLEAN]
    /\ pending \in [Handles -> SUBSET Rows]
    /\ \A h \in Handles : pending[h] # {} => ~autocommit[h] /\ owner = h
    /\ owner \in {Nobody, Other} \cup Handles
    /\ file \subseteq Rows /\ written \in 0..MaxWrites
    /\ hardLinks \in BOOLEAN
    /\ {temporary, destination} \subseteq
          {NoFile, Foreign, Partial} \cup {Snapshot(rows) : rows \in SUBSET Rows}
    /\ counted \in [Handles -> SUBSET Rows]
    /\ doubtful \subseteq Rows /\ promised \subseteq Rows
    /\ refused \subseteq Rows /\ abandoned \subseteq Handles

\* A row is where the program was told it is. The file holds what was committed,
\* and beyond that at most the rows of the one request whose answer was lost
\* with the helper, and those of statements that failed and may keep what they
\* wrote. As long as the helper lives, the rows a transaction took are in it
\* until the program ends it, unless SQLite ended it for a failure.
RowsAsTold ==
    /\ promised \subseteq file /\ file \subseteq promised \cup doubtful \cup refused
    /\ stage = "idle" /\ engine = "up" =>
          \A h \in Handles \ abandoned : counted[h] \subseteq pending[h]

\* What docs/SQLITE.md:258 says, "A failing statement does **not** end the
\* transaction by itself": as long as the helper lives, the rows a transaction
\* took are in it until the program ends it. execute and query pass every
\* statement to SQLite and report its failure without a look at the
\* transaction, which a failure may have ended.
TransactionKept ==
    stage = "idle" /\ engine = "up" => \A h \in Handles : counted[h] \subseteq pending[h]

\* A backup that is there is whole, and when backupTo has succeeded it holds
\* every row that had been committed before the call. Where the file system has
\* hard links, backupTo never overwrites a file.
BackupComplete ==
    /\ destination.kind # "partial" /\ destination.rows \subseteq file
    /\ stage = "replied" /\ request.op = "backup" /\ reply = "ok"
         => destination.kind = "whole" /\ promised \subseteq destination.rows
BackupKept ==
    /\ []BackupComplete
    /\ [][hardLinks /\ destination # NoFile => UNCHANGED destination]_sqliteVars

\* The link keeps the contract of CallLink, although responses carry no number:
\* each request is settled by its own response or by a failure that is
\* permanent.
SqliteCalls == INSTANCE CallLink WITH
    phase <- IF stage = "idle" THEN "idle" ELSE "waiting",
    answered <- decoded, broken <- failure
SqliteKeepsCallLink == SqliteCalls!Spec
=============================================================================
