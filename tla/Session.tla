------------------------------ MODULE Session ------------------------------
(***************************************************************************)
(* What MySqlConnection keeps in the session: transactions, the autocommit *)
(* mode and the current database (connection.h: use_database,              *)
(* start_transaction, commit_transaction, rollback_transaction,            *)
(* get_timeout).                                                           *)
(*                                                                         *)
(* Each of these functions is a sequence of execute() calls, so each runs  *)
(* through the retries of module Connection, any of which may replace the  *)
(* session by a new one.  The server's side of a session is external.      *)
(***************************************************************************)
EXTENDS Connection

CONSTANTS
  Databases, NoDatabase,
  Writes,                  \* queries by which the user modifies data
  set_autocommit_0,        \* the queries of the functions: SET @@autocommit = 0
  set_autocommit_1,        \* SET @@autocommit = 1
  start_query,             \* START TRANSACTION
  rollback_query,          \* ROLLBACK
  timeout_query,           \* SHOW VARIABLES LIKE 'wait_timeout'
  UseQuery                 \* [Databases -> Queries]: USE d

FunctionQueries == {set_autocommit_0, set_autocommit_1, start_query, rollback_query,
                    timeout_query}
UseQueries == {UseQuery[d] : d \in Databases}

ASSUME SessionAssumption ==
  /\ FunctionQueries \subseteq Queries
  /\ set_autocommit_0 \notin {set_autocommit_1, start_query, rollback_query, timeout_query}
  /\ set_autocommit_1 \notin {start_query, rollback_query, timeout_query}
  /\ start_query \notin {rollback_query, timeout_query} /\ rollback_query # timeout_query
  /\ Writes \subseteq Queries \ RowQueries
  /\ UseQuery \in [Databases -> Queries \ RowQueries]
  /\ \A d, e \in Databases : UseQuery[d] = UseQuery[e] => d = e
  /\ NoDatabase \notin Databases
  /\ FunctionQueries \cap (Writes \cup UseQueries) = {} /\ Writes \cap UseQueries = {}
  /\ FunctionQueries \cap RowQueries = {timeout_query}

VARIABLES
  db,               \* db_
  session,          \* the server's session: mode, open transaction, database
  committed,        \* the writes that are durable
  fn,               \* the function in progress, or "none"
  at,               \* how many of its statements it has sent
  fret,             \* what it returned, or is going to return
  \* History, read by properties and by the bound on Writes only:
  last,             \* the last function or query the user called
  issued,           \* the writes the user has sent; each is sent once
  began,            \* start_transaction changed the session, nothing ended it yet
  promised,         \* writes of that transaction that were reported as done
  replaced,         \* its session has ended since
  doubt             \* db_ was set without the session in use having selected it

serverVars == <<session, committed>>
scriptVars == <<fn, at, fret, db>>
bookVars   == <<last, issued, began, promised, doubt>>
sessionVars == <<vars, serverVars, scriptVars, bookVars, replaced>>

-----------------------------------------------------------------------------
(***************************************************************************)
(* The server's side of a session (external).                              *)
(***************************************************************************)
Fresh(d) == [autocommit |-> TRUE, in_tx |-> FALSE, db |-> d, pending |-> {}]
NoSession == Fresh(NoDatabase)

\* Statements that commit what is pending: START TRANSACTION does, and
\* switching autocommit on again.
Commits(q) == q = start_query \/ (q = set_autocommit_1 /\ ~session.autocommit)
Transactional == session.in_tx \/ ~session.autocommit

DatabaseOf(q) == CHOOSE d \in Databases : UseQuery[d] = q

SessionAfter(q) ==
  [autocommit |-> q = set_autocommit_1 \/ (session.autocommit /\ q # set_autocommit_0),
   in_tx   |-> q = start_query \/ (session.in_tx /\ q # rollback_query /\ ~Commits(q)),
   db      |-> IF q \in UseQueries THEN DatabaseOf(q) ELSE session.db,
   pending |-> IF Commits(q) \/ q = rollback_query THEN {}
               ELSE session.pending \cup ({q} \cap IF Transactional THEN Writes ELSE {})]

DurableAfter(q) ==
  CASE Commits(q)                       -> committed \cup session.pending
    [] q \in Writes /\ ~Transactional -> committed \cup {q}
    [] OTHER                            -> committed

\* What a step of the connection is for the server: a run of the query of the
\* call, a new session, which selects db_, or the end of one, which rolls back.
RanNow == runs' = runs + 1
SessionBecomes(s) ==
  /\ session' = IF ~alive' THEN NoSession ELSE IF alive THEN s ELSE Fresh(db')
  /\ replaced' = (replaced \/ ~alive')

Server ==
  /\ SessionBecomes(IF RanNow THEN SessionAfter(call.text) ELSE session)
  /\ committed' = IF RanNow THEN DurableAfter(call.text) ELSE committed

-----------------------------------------------------------------------------
(***************************************************************************)
(* The functions.  One is called when no call is in progress; it sends its *)
(* next statement when the one before has returned.                        *)
(***************************************************************************)
\* The history of a transaction ends with the first call after its end.
Calling(name) ==
  /\ pc = "idle" /\ fn = "none" /\ last' = name
  /\ IF last \in {"commit", "rollback"} THEN began' = FALSE /\ promised' = {}
                                        ELSE UNCHANGED <<began, promised>>

Sends(name, n, q) == execute(q) /\ fn' = name /\ at' = n /\ UNCHANGED serverVars
Sent(name, n) == pc = "idle" /\ fn = name /\ at = n
Returns(r) == fn' = "none" /\ at' = 0 /\ fret' = r /\ UNCHANGED <<vars, serverVars>>

Succeeded == ret = "success"

\* start_transaction tests its two statements by "if (this->execute(...))": a
\* statement that worked ends it with false.
StartTransaction ==
  /\ pc = "idle" /\ fn = "none" /\ last' = "start"
  /\ Sends("start", 1, set_autocommit_0)
  /\ began' = FALSE /\ promised' = {} /\ replaced' = ~alive
  /\ UNCHANGED <<fret, db, issued, doubt>>

\* A change of the code: the two tests the other way round.
StartContinuesOnSuccess ==
  /\ \/ Sent("start", 1) /\ Succeeded /\ Sends("start", 2, start_query) /\ UNCHANGED fret
     \/ Sent("start", 2) /\ ~Succeeded /\ Sends("start", 3, set_autocommit_1) /\ UNCHANGED fret
     \/ Sent("start", 1) /\ ~Succeeded /\ Returns(FALSE)
     \/ Sent("start", 2) /\ Succeeded /\ Returns(TRUE)
     \/ Sent("start", 3) /\ Returns(FALSE)
  /\ UNCHANGED <<db, bookVars, replaced>>
StartContinues ==
  /\ \/ Sent("start", 1) /\ ~Succeeded /\ Sends("start", 2, start_query) /\ UNCHANGED fret
     \/ Sent("start", 2) /\ Succeeded /\ Sends("start", 3, set_autocommit_1) /\ UNCHANGED fret
     \/ Sent("start", 1) /\ Succeeded /\ Returns(FALSE)
     \/ Sent("start", 2) /\ ~Succeeded /\ Returns(TRUE)
     \/ Sent("start", 3) /\ Returns(FALSE)
  /\ UNCHANGED <<db, bookVars, replaced>>

\* A slip: the error code of mysql_commit negated.
NegatedResult(o) == o = "ok"
\* mysql_commit returns nonzero on failure, and that is what is returned.
CommitResult(o) == o # "ok"

\* mysql_commit goes to the server without the retries of execute().
CommitTransaction(o) ==
  /\ Calling("commit") /\ Exchange(o)
  /\ UNCHANGED <<stmts, cache, allow_reconnects, text, callVars, history,
                 db, issued, doubt>>
  /\ fn' = "commit" /\ at' = 1 /\ fret' = CommitResult(o)
  /\ SessionBecomes(IF Ran(o) = 1 THEN [session EXCEPT !.pending = {}, !.in_tx = FALSE]
                                  ELSE session)
  /\ committed' = IF Ran(o) = 1 THEN committed \cup session.pending ELSE committed

\* A slip: autocommit is left off.
CommitOnly ==
  /\ Sent("commit", 1) /\ Returns(fret) /\ UNCHANGED <<db, bookVars, replaced>>
CommitContinues ==
  /\ \/ Sent("commit", 1) /\ Sends("commit", 2, set_autocommit_1)
     \/ Sent("commit", 2) /\ Returns(fret)
  /\ UNCHANGED <<fret, db, bookVars, replaced>>

\* A slip: autocommit is switched on first, which commits.
FirstAutocommit == <<set_autocommit_1, rollback_query>>
RollbackOrder == <<rollback_query, set_autocommit_1>>

RollbackTransaction ==
  /\ Calling("rollback") /\ Sends("rollback", 1, RollbackOrder[1])
  /\ UNCHANGED <<fret, db, issued, doubt, replaced>>
RollbackContinues ==
  /\ \/ /\ Sent("rollback", 1) /\ Sends("rollback", 2, RollbackOrder[2])
        /\ fret' = Succeeded
     \/ Sent("rollback", 2) /\ Returns(fret)
  /\ UNCHANGED <<db, bookVars, replaced>>

UseDatabase(d) ==
  /\ Calling("use") /\ Sends("use", 1, UseQuery[d])
  /\ UNCHANGED <<fret, db, issued, doubt, replaced>>

\* A slip: db_ is set even if the statement failed.
SetsAnyway == DatabaseOf(call.text)
NewDatabase == IF Succeeded THEN DatabaseOf(call.text) ELSE db
UseReturns ==
  /\ Sent("use", 1) /\ Returns(Succeeded) /\ db' = NewDatabase
  /\ doubt' = IF Succeeded THEN ~answered ELSE doubt
  /\ UNCHANGED <<last, issued, began, promised, replaced>>

\* get_timeout reads the result of execute() without testing it: after an
\* error that is a null pointer, and the rest of the run is undefined.  A result
\* without rows gives the default.
GetTimeout ==
  /\ Calling("timeout") /\ Sends("timeout", 1, timeout_query)
  /\ UNCHANGED <<fret, db, issued, doubt, replaced>>
TimeoutReturns ==
  /\ Sent("timeout", 1) /\ Succeeded /\ Returns(TRUE)
  /\ UNCHANGED <<db, bookVars, replaced>>
TimeoutUndefined ==
  /\ Sent("timeout", 1) /\ ~Succeeded /\ fn' = "undefined" /\ at' = 0
  /\ UNCHANGED <<vars, serverVars, fret, db, bookVars, replaced>>

-----------------------------------------------------------------------------
(***************************************************************************)
(* The other calls of the user, and the steps of the connection.           *)
(***************************************************************************)
Write(w) ==
  /\ w \in Writes \ issued /\ issued' = issued \cup {w}
  /\ Calling("write") /\ Sends("write", 1, w)
  /\ UNCHANGED <<fret, db, doubt, replaced>>
WriteReturns ==
  /\ Sent("write", 1) /\ Returns(Succeeded)
  /\ promised' = promised \cup IF Succeeded /\ began THEN {call.text} ELSE {}
  /\ UNCHANGED <<db, last, issued, began, doubt, replaced>>

\* The life cycle of the object; connect() and the constructor choose db_,
\* connect() before it knows whether it gets a session for it.
Manage ==
  /\ Calling("manage")
  /\ \E b \in BOOLEAN : \/ Connect(b) /\ db' \in Databases
                        \/ set_allow_reconnects(b) /\ UNCHANGED db
  /\ Server /\ UNCHANGED <<fn, at, fret, issued>>
  /\ doubt' = (alive /\ (doubt \/ db' # db))

Make ==
  /\ \E b \in BOOLEAN : Construct(b)
  /\ db' \in Databases /\ Server /\ doubt' = FALSE
  /\ UNCHANGED <<fn, at, fret, last, issued, began, promised>>

Unmake == Calling("manage") /\ Destroy /\ UNCHANGED <<scriptVars, issued, doubt>> /\ Server

\* A statement of a function, or of the user, on its way.
Proceed ==
  /\ CallStep /\ UNCHANGED <<scriptVars, last, issued, promised>> /\ Server
  /\ began' = IF RanNow /\ fn = "start" THEN call.text # set_autocommit_1 ELSE began
  /\ doubt' = (doubt /\ ~(alive' /\ ~alive))

Drop == ServerDrop /\ UNCHANGED <<scriptVars, bookVars>> /\ Server

SessionInit ==
  /\ Init
  /\ db \in Databases /\ session = NoSession /\ committed = {}
  /\ fn = "none" /\ at = 0 /\ fret = FALSE
  /\ last = "none" /\ issued = {} /\ began = FALSE /\ promised = {}
  /\ replaced = TRUE /\ doubt = FALSE

\* The steps of the thread inside a function of the connection.
FunctionStep ==
  Proceed \/ StartContinues \/ CommitContinues \/ RollbackContinues
    \/ UseReturns \/ TimeoutReturns \/ TimeoutUndefined \/ WriteReturns

SessionNext ==
  \/ FunctionStep
  \/ StartTransaction \/ RollbackTransaction \/ GetTimeout
  \/ \E o \in Outcomes : CommitTransaction(o)
  \/ \E d \in Databases : UseDatabase(d)
  \/ \E w \in Writes : Write(w)
  \/ Manage \/ Make \/ Unmake \/ Drop

\* A call into the client library returns, and the function goes on.
SessionSpec == SessionInit /\ [][SessionNext]_sessionVars /\ WF_sessionVars(FunctionStep)

-----------------------------------------------------------------------------
(***************************************************************************)
(* Properties.                                                             *)
(***************************************************************************)
\* Types, and that a session exists for this module exactly when it does for
\* the connection.
SessionTypeOK ==
  /\ TypeOK /\ db \in Databases
  /\ session \in [autocommit : BOOLEAN, in_tx : BOOLEAN, pending : SUBSET Writes,
                  db : Databases \cup {NoDatabase}]
  /\ (session.db = NoDatabase <=> ~alive)
  /\ committed \subseteq issued /\ issued \subseteq Writes /\ promised \subseteq issued
  /\ fn \in {"none", "start", "commit", "rollback", "use", "timeout", "write", "undefined"}
  /\ at \in 0..3 /\ fret \in BOOLEAN
  /\ began \in BOOLEAN /\ replaced \in BOOLEAN /\ doubt \in BOOLEAN
  /\ last \in {"none", "manage", "start", "commit", "rollback", "use", "timeout", "write"}

Done(name) == fn = "none" /\ last = name

\* start_transaction never returns true for a transaction it has begun: its
\* tests of execute() are inverted (connection.h:212, 217), so true means that
\* the session is as it was.  That is for one session serving the whole call.
StartReportsTheOpposite == Done("start") /\ ~replaced => ~(fret /\ began)

\* commit_transaction returns false for a commit that worked (connection.h:228);
\* every write reported as done since start_transaction is then durable, if
\* one session served them all.
CommitFalseKeepsAll ==
  Done("commit") /\ ~fret /\ ~replaced => promised \subseteq committed

\* After rollback_transaction returned true none of the writes since
\* start_transaction is durable, if one session served them all.
RollbackTrueKeepsNone ==
  Done("rollback") /\ fret /\ began /\ ~replaced => promised \cap committed = {}

\* The ends of a transaction switch autocommit on again whatever their first
\* statement did; only a refused SET leaves it off, and they do not say so.
AutocommitRestored ==
  Done("commit") \/ Done("rollback") => session.autocommit \/ ret = "error"

\* The current database of the session is the one a reconnect would select,
\* unless db_ was set without the session: by a use_database that reports as
\* done what the session never answered, or by a connect() that fails because
\* the handle is connected already, and has overwritten db_ (connection.h:59).
DatabaseIsKnown == alive /\ fn = "none" /\ ~doubt => session.db = db

\* With reconnects off use_database sets db_ only to what the session has
\* selected: the first of the exceptions above needs the retries.
DoubtNeedsReconnect ==
  [][fn = "use" /\ doubt' /\ ~doubt => allow_reconnects]_sessionVars

\* get_timeout dereferences a null pointer (connection.h:187) only when its
\* query has failed and the handle still says so: a call that has lost its
\* answer and gave up after a reconnect that worked returns the default.
TimeoutUndefinedAfterError == fn = "undefined" => errno # "none"

\* Every function returns, whichever of its statements fail and however often
\* the session is dropped and replaced meanwhile.  One is in progress
\* in every other state, so the thread is outside of them again and again.
FunctionsReturn == []<>(fn \in {"none", "undefined"})
=============================================================================
