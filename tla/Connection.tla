----------------------------- MODULE Connection -----------------------------
(***************************************************************************)
(* MySqlConnection (connection.h): one client handle, the cache of its     *)
(* prepared statements, and the two query paths with their reconnects.     *)
(*                                                                         *)
(* The object is used by one thread.  What interleaves with it is the      *)
(* server and the network, so every call into the client library is a step *)
(* of its own and the server may drop the session between any two of them. *)
(* The client library and the server are external: they are modelled by    *)
(* the outcomes the code distinguishes.                                    *)
(***************************************************************************)
EXTENDS RetrySafety, FiniteSets

CONSTANTS
  Queries,          \* query texts
  RowQueries,       \* those that return rows; the others modify data
  QueryText,        \* the characters of each of them
  PtrKeys, StrKeys, \* keys of cache_ (pointers) and of cache_strs_ (strings)
  InitialText,      \* the text each key denotes at first
  ReusedBuffers,    \* pointers whose characters the caller overwrites later
  Stmts,            \* the statement handles there is memory for
  NoStmt, NoKey, NoQuery,
  MaxReconnectAttempts

Keys == PtrKeys \cup StrKeys

ASSUME ConnectionAssumption ==
  /\ RowQueries \subseteq Queries /\ NoQuery \notin Queries
  /\ QueryText \in [Queries -> QueryTexts]
  /\ PtrKeys \cap StrKeys = {} /\ NoKey \notin Keys
  /\ InitialText \in [Keys -> Queries]
  /\ ReusedBuffers \subseteq PtrKeys
  /\ NoStmt \notin Stmts
  /\ MaxReconnectAttempts \in Nat

VARIABLES
  link,             \* handle_ has an open socket, as far as the client knows
  alive,            \* the server still holds the session of that socket
  errno,            \* mysql_errno(&handle_): "none", "lost" or "other"
  stmts,            \* [Stmts -> statement record], the heap of handles
  cache,            \* cache_ and cache_strs_: [Keys -> Stmts or NoStmt]
  allow_reconnects,
  text,             \* the characters behind each key
  pc,               \* "none": no object; "idle": no call in progress
  call,             \* arguments of the call in progress, or of the last one
  stmt,             \* the local of base_prepared_query, get_prepared_statement
  attempts,         \* loop counter of the base_..._query functions
  prepare_attempts, \* loop counter of get_prepared_statement
  ret,              \* how the last call ended: "success" or "error"
  \* History, read by properties only:
  runs,             \* how often the server ran the query of this call
  answered,         \* its latest run was answered, on the current session
  silent,           \* it ended with a failure of which handle_ has no error
  reconnects,       \* calls of reconnect() made by this call
  uncached          \* handles prepared by calls that do not cache

handleVars == <<link, alive, errno>>
frameVars  == <<call, attempts, prepare_attempts, ret>>
callVars   == <<pc, stmt, frameVars>>
history    == <<runs, answered, silent, reconnects, uncached>>
vars == <<handleVars, stmts, cache, allow_reconnects, text, callVars, history>>

-----------------------------------------------------------------------------
(***************************************************************************)
(* The client library and the server (external).                           *)
(***************************************************************************)
\* A statement handle is unallocated, initialised, prepared on the current
\* session, or prepared on a session that is gone.
Free     == [state |-> "free", sql |-> NoQuery]
Unnamed  == [state |-> "init", sql |-> NoQuery]
Prepared(q) == [state |-> "prepared", sql |-> q]
Stale(q) == [state |-> "stale", sql |-> q]

Open == {s \in Stmts : stmts[s].state # "free"}

\* A command is answered, refused by the server, or lost with the connection:
\* before the server ran it, or after ("lost_after").
Outcomes == {"ok", "rejected", "lost", "lost_after"}

Exchange(o) ==
  /\ o # "lost" => link /\ alive
  /\ link'  = (link  /\ o \in {"ok", "rejected"})
  /\ alive' = (alive /\ o \in {"ok", "rejected"})
  /\ errno' = CASE o = "ok" -> "none" [] o = "rejected" -> "other" [] OTHER -> "lost"

\* Reading the rows of a result.  They may have arrived before the session
\* was dropped; a query without rows has nothing left to read.
Fetch(o) ==
  \/ o = "ok" /\ errno' = "none" /\ UNCHANGED <<link, alive>>
  \/ o \in {"rejected", "lost"} /\ call.text \in RowQueries /\ Exchange(o)

Ran(o) == IF o \in {"ok", "lost_after"} THEN 1 ELSE 0

\* The server ends the session: idle timeout, kill, restart.
ServerDrop ==
  /\ alive /\ alive' = FALSE
  /\ UNCHANGED <<link, errno, stmts, cache, allow_reconnects, text, callVars, history>>

-----------------------------------------------------------------------------
(***************************************************************************)
(* The statement cache and reconnect().                                    *)
(***************************************************************************)
NothingCached == [k \in Keys |-> NoStmt]
Cached == {cache[k] : k \in Keys} \ {NoStmt}

WithoutStmts(S) == [s \in Stmts |-> IF s \in S THEN Free ELSE stmts[s]]

\* A new session knows none of the statements prepared on the one before.
OnNewSession(f) ==
  [s \in Stmts |-> IF f[s].state = "prepared" THEN Stale(f[s].sql) ELSE f[s]]

\* mysql_stmt_close tells the server; on a dead link that may reveal the loss.
CloseMayNotice(S) == link /\ ~alive /\ S # {}

\* A slip: the string cache is not cleared with the pointer cache.
ClearsPointersOnly ==
  cache' = [k \in Keys |-> IF k \in StrKeys THEN cache[k] ELSE NoStmt]
\* close_all_statements forgets every entry; the handles are closed by the
\* action it is part of (WithoutStmts(Cached)).
close_all_statements == cache' = NothingCached

\* reconnect(): close_all_statements, then mysql_real_connect, which fails on
\* a handle that still has its socket.  "also" are the handles its caller
\* closes in the same step.
reconnect(ok, also) ==
  /\ close_all_statements
  /\ IF ok
     THEN /\ ~link \/ CloseMayNotice(Cached)
          /\ stmts' = OnNewSession(WithoutStmts(Cached \cup also))
          /\ link' = TRUE /\ alive' = TRUE /\ errno' = "none"
     ELSE /\ stmts' = WithoutStmts(Cached \cup also)
          /\ link' \in {link, link /\ ~CloseMayNotice(Cached)}
          /\ alive' = alive
          /\ errno' \in IF link' THEN {"other"} ELSE {"lost", "other"}

is_connection_lost(e) == e = "lost"

\* A slip: allow_reconnects_ is not consulted.
RetriesAlways(e) == is_connection_lost(e)
MayRetry(e) == allow_reconnects /\ is_connection_lost(e)

\* A slip: one attempt too many.
OneTooMany(n) == n <= MaxReconnectAttempts + 1
\* The condition of the three retry loops.
TriesLeft(n) == n <= MaxReconnectAttempts

-----------------------------------------------------------------------------
(***************************************************************************)
(* How a call begins and ends.                                             *)
(***************************************************************************)
Calls == [op : {"execute", "prepared"}, key : Keys \cup {NoKey}, text : Queries,
          do_cache : BOOLEAN, args_match : BOOLEAN]

Begin(c, first) ==
  /\ pc = "idle" /\ pc' = first
  /\ call' = c /\ ret' = "pending" /\ stmt' = NoStmt
  /\ attempts' = 0 /\ prepare_attempts' = 0
  /\ runs' = 0 /\ answered' = FALSE /\ silent' = FALSE /\ reconnects' = 0
  /\ UNCHANGED <<handleVars, stmts, cache, allow_reconnects, text, uncached>>

Return(r) == pc' = "idle" /\ ret' = r /\ stmt' = NoStmt

\* A slip: the message is read before the failing call, not after it.
MessageOfBefore == IF errno = "none" THEN "success" ELSE "error"
\* A call that gives up returns mysql_error(&handle_).  That text is empty when
\* no error is set, and callers tell failure from success by "error.empty()".
ErrorMessage == IF errno' = "none" THEN "success" ELSE "error"

\* History of one run of the query with outcome o, and of a retry.
Runs(o) == runs' = runs + Ran(o) /\ answered' = (o = "ok")
Retries == reconnects' = reconnects + 1 /\ answered' = FALSE

-----------------------------------------------------------------------------
(***************************************************************************)
(* The public operations other than queries.  Each is one step: none of    *)
(* them reads state before a library call and uses it after.               *)
(***************************************************************************)
NotOnHandle == <<text, attempts, prepare_attempts, call, ret, stmt,
                 history>>

\* The constructor, on its own or followed by connect() in make(), which
\* destroys the object again when it cannot connect.
Construct(connected) ==
  /\ pc = "none" /\ pc' = "idle"
  /\ link' = connected /\ alive' = connected /\ errno' = "none"
  /\ cache' = NothingCached /\ allow_reconnects' = TRUE
  /\ UNCHANGED <<stmts, NotOnHandle>>

Destroy ==
  /\ pc = "idle" /\ pc' = "none"
  /\ close_all_statements
  /\ stmts' = OnNewSession(WithoutStmts(Cached))
  /\ link' = FALSE /\ alive' = FALSE /\ errno' = "none"
  /\ UNCHANGED <<allow_reconnects, NotOnHandle>>

\* connect() and the public reconnect(); the credentials are left out.
Connect(ok) ==
  /\ pc = "idle" /\ reconnect(ok, {})
  /\ UNCHANGED <<pc, allow_reconnects, NotOnHandle>>

set_allow_reconnects(b) ==
  /\ pc = "idle" /\ allow_reconnects' = b
  /\ UNCHANGED <<handleVars, stmts, cache, pc, NotOnHandle>>

ping(o) ==
  /\ pc = "idle" /\ o \in {"ok", "lost"} /\ Exchange(o)
  /\ UNCHANGED <<stmts, cache, allow_reconnects, pc, NotOnHandle>>

\* A slip: the handle is closed but its entry stays.
ClosedNotErased(k) == cache' = cache
Erase(k) == cache' = [cache EXCEPT ![k] = NoStmt]

close_statement(k) ==
  /\ pc = "idle" /\ cache[k] # NoStmt
  /\ stmts' = WithoutStmts({cache[k]}) /\ Erase(k)
  /\ \/ UNCHANGED handleVars
     \/ CloseMayNotice({cache[k]}) /\ Exchange("lost")
  /\ UNCHANGED <<allow_reconnects, pc, NotOnHandle>>

\* The caller writes another query into a buffer it has passed before
\* (external: cache_ takes the pointer for the query).
ReuseBuffer(k, q) ==
  /\ pc = "idle" /\ k \in ReusedBuffers
  /\ text' = [text EXCEPT ![k] = q]
  /\ UNCHANGED <<handleVars, stmts, cache, allow_reconnects, callVars, history>>

-----------------------------------------------------------------------------
(***************************************************************************)
(* execute() and base_text_query.                                          *)
(***************************************************************************)
TextCall(q) == [op |-> "execute", key |-> NoKey, text |-> q,
                do_cache |-> FALSE, args_match |-> TRUE]

execute(q) == Begin(TextCall(q), "text_query")

\* mysql_real_query
TextQuery(o) ==
  /\ pc = "text_query"
  /\ Exchange(o) /\ Runs(o)
  /\ CASE o = "ok"         -> pc' = "text_store" /\ UNCHANGED <<ret, stmt>>
       [] MayRetry(errno') -> pc' = "text_reconnect" /\ UNCHANGED <<ret, stmt>>
       [] OTHER            -> Return(ErrorMessage)
  /\ UNCHANGED <<stmts, cache, allow_reconnects, text, call,
                 attempts, prepare_attempts, silent, reconnects, uncached>>

\* mysql_store_result
TextStore(o) ==
  /\ pc = "text_store" /\ Fetch(o)
  /\ IF MayRetry(errno') /\ is_safe_retry_query(QueryText[call.text])
     THEN pc' = "text_reconnect" /\ UNCHANGED <<ret, stmt>>
     ELSE Return(ErrorMessage)
  /\ UNCHANGED <<stmts, cache, allow_reconnects, text, call,
                 attempts, prepare_attempts, history>>

\* A slip: a failing reconnect() goes round the loop again, uncounted.
RetriesReconnecting(ok) ==
  /\ pc = "text_reconnect" /\ reconnect(ok, {})
  /\ pc' = IF ok THEN "text_query" ELSE pc
  /\ attempts' = IF ok THEN attempts + 1 ELSE attempts
  /\ UNCHANGED <<ret, stmt, allow_reconnects, text, call, prepare_attempts,
                 history>>

\* reconnect() and the next turn of the loop, or the end of it: then the call
\* returns the message of the connection it has just restored.
TextReconnect(ok) ==
  /\ pc = "text_reconnect" /\ reconnect(ok, {}) /\ Retries
  /\ attempts' = IF ok THEN attempts + 1 ELSE attempts
  /\ IF ok /\ TriesLeft(attempts')
     THEN pc' = "text_query" /\ UNCHANGED <<ret, stmt>>
     ELSE Return(ErrorMessage)
  /\ UNCHANGED <<allow_reconnects, text, call, prepare_attempts,
                 runs, silent, uncached>>

-----------------------------------------------------------------------------
(***************************************************************************)
(* prepared(): get_prepared_statement, base_prepared_query_inner and the   *)
(* loop of base_prepared_query around both.                                *)
(***************************************************************************)
prepared(k, do_cache, args_match) ==
  Begin([op |-> "prepared", key |-> k, text |-> text[k],
         do_cache |-> do_cache, args_match |-> args_match], "prepared_get")

\* The lookup, whether or not the call caches; after a miss mysql_stmt_init.
CacheHit ==
  /\ pc = "prepared_get" /\ cache[call.key] # NoStmt
  /\ stmt' = cache[call.key] /\ pc' = "prepared_run"
  /\ UNCHANGED <<handleVars, stmts, cache, allow_reconnects, text, frameVars, history>>

CacheMiss(s) ==
  /\ pc = "prepared_get" /\ cache[call.key] = NoStmt
  /\ stmts[s].state = "free"
  /\ stmts' = [stmts EXCEPT ![s] = Unnamed]
  /\ stmt' = s /\ pc' = "prepare" /\ prepare_attempts' = 0
  /\ UNCHANGED <<handleVars, cache, allow_reconnects, text,
                 call, attempts, ret, history>>

NoHandle ==
  /\ pc = "prepared_get" /\ cache[call.key] = NoStmt
  /\ errno' = "other" /\ Return("error")
  /\ UNCHANGED <<link, alive, stmts, cache, allow_reconnects, text,
                 call, attempts, prepare_attempts, history>>

\* mysql_stmt_prepare; a statement that could not be prepared is closed.
StmtPrepared ==
  /\ pc = "prepare" /\ Exchange("ok")
  /\ stmts' = [stmts EXCEPT ![stmt] = Prepared(call.text)]
  /\ IF call.do_cache
     THEN cache' = [cache EXCEPT ![call.key] = stmt] /\ UNCHANGED uncached
     ELSE uncached' = uncached \cup {stmt} /\ UNCHANGED cache
  /\ pc' = "prepared_run"
  /\ UNCHANGED <<allow_reconnects, text, stmt, frameVars,
                 runs, answered, silent, reconnects>>

NotPrepared ==
  /\ IF MayRetry(errno')
     THEN pc' = "prepare_reconnect" /\ UNCHANGED <<ret, stmt, stmts>>
     ELSE Return(ErrorMessage) /\ stmts' = WithoutStmts({stmt})
  /\ UNCHANGED <<cache, allow_reconnects, text, call, attempts, prepare_attempts,
                 runs, answered, reconnects, uncached>>

PrepareFailed(o) ==
  /\ pc = "prepare" /\ o # "ok" /\ Exchange(o) /\ UNCHANGED silent
  /\ NotPrepared

\* A statement call fails in the client library: the error is set on the
\* statement and the handle, which the code asks, keeps the one it had.  If
\* that is none, nothing tells the failure from success.
FailsLocally == UNCHANGED handleVars /\ silent' = (errno = "none")

PrepareLocalError == pc = "prepare" /\ FailsLocally /\ NotPrepared

\* Two slips: the handle outlives the loop; it is closed before a retry.
NeverCloses(again) == {}
ClosesEarly(again) == {stmt}
\* The handle is closed when the loop of get_prepared_statement ends.
ClosedWith(again) == IF again THEN {} ELSE {stmt}

PrepareReconnect(ok) ==
  LET n == IF ok THEN prepare_attempts + 1 ELSE prepare_attempts
      again == ok /\ TriesLeft(n)
  IN /\ pc = "prepare_reconnect" /\ reconnect(ok, ClosedWith(again)) /\ Retries
     /\ prepare_attempts' = n
     /\ IF again THEN pc' = "prepare" /\ UNCHANGED <<ret, stmt>>
                 ELSE Return(ErrorMessage)
     /\ UNCHANGED <<allow_reconnects, text, call, attempts, runs, silent, uncached>>

\* What follows a failing bind, execute or store: the code of the handle, not
\* of the statement, decides.
StatementFailed ==
  IF MayRetry(errno') THEN pc' = "prepared_reconnect" /\ UNCHANGED <<ret, stmt>>
                      ELSE Return(ErrorMessage)

notRun == <<stmts, cache, allow_reconnects, text, call,
            attempts, prepare_attempts, reconnects, uncached>>

WrongArguments ==
  /\ pc = "prepared_run" /\ ~call.args_match /\ Return("error")
  /\ UNCHANGED <<handleVars, notRun, runs, answered, silent>>

\* mysql_stmt_execute; only a statement of this session can be run.
StmtExecute(o) ==
  /\ pc = "prepared_run" /\ call.args_match
  /\ o \in {"ok", "lost_after"} => stmts[stmt].state = "prepared"
  /\ Exchange(o) /\ Runs(o)
  /\ IF o = "ok" THEN pc' = "prepared_store" /\ UNCHANGED <<ret, stmt>>
                 ELSE StatementFailed
  /\ UNCHANGED <<notRun, silent>>

\* mysql_stmt_bind_param, mysql_stmt_execute or mysql_stmt_store_result fails in
\* the client library.
StmtLocalError ==
  /\ pc \in {"prepared_run", "prepared_store"} /\ call.args_match
  /\ FailsLocally /\ StatementFailed /\ answered' = FALSE
  /\ UNCHANGED <<notRun, runs>>

\* mysql_stmt_store_result
StoreResult(o) ==
  /\ pc = "prepared_store" /\ Fetch(o)
  /\ IF o = "ok" THEN Return("success") ELSE StatementFailed
  /\ UNCHANGED <<notRun, runs, answered, silent>>

PreparedReconnect(ok) ==
  /\ pc = "prepared_reconnect" /\ reconnect(ok, {}) /\ Retries
  /\ attempts' = IF ok THEN attempts + 1 ELSE attempts
  /\ IF ok /\ TriesLeft(attempts')
     THEN pc' = "prepared_get" /\ stmt' = NoStmt /\ UNCHANGED ret
     ELSE Return(ErrorMessage)
  /\ UNCHANGED <<allow_reconnects, text, call, prepare_attempts,
                 runs, silent, uncached>>

-----------------------------------------------------------------------------
Init ==
  /\ link = FALSE /\ alive = FALSE /\ errno = "none"
  /\ stmts = [s \in Stmts |-> Free] /\ cache = NothingCached
  /\ allow_reconnects = TRUE /\ text = InitialText
  /\ pc = "none" /\ stmt = NoStmt /\ ret = "none"
  /\ \E q \in Queries : call = TextCall(q)
  /\ attempts = 0 /\ prepare_attempts = 0
  /\ runs = 0 /\ answered = FALSE /\ silent = FALSE /\ reconnects = 0 /\ uncached = {}

\* The steps of the thread that is inside a call.
CallStep ==
  \/ \E o \in Outcomes : \/ TextQuery(o) \/ TextStore(o)
                         \/ PrepareFailed(o) \/ StmtExecute(o) \/ StoreResult(o)
  \/ \E ok \in BOOLEAN : TextReconnect(ok) \/ PrepareReconnect(ok) \/ PreparedReconnect(ok)
  \/ \E s \in Stmts : CacheMiss(s)
  \/ CacheHit \/ NoHandle \/ StmtPrepared \/ WrongArguments
  \/ PrepareLocalError \/ StmtLocalError

\* The calls its user may make.
UserStep ==
  \/ \E b \in BOOLEAN : Construct(b) \/ Connect(b) \/ set_allow_reconnects(b)
  \/ \E o \in Outcomes : ping(o)
  \/ \E q \in Queries : execute(q)
  \/ \E k \in Keys : \/ close_statement(k)
                     \/ \E q \in Queries : ReuseBuffer(k, q)
                     \/ \E c, a \in BOOLEAN : prepared(k, c, a)
  \/ Destroy

Next == CallStep \/ UserStep \/ ServerDrop

\* A library call returns, and the thread inside a call goes on.  Nothing is
\* assumed of the user and of the server.
Spec == Init /\ [][Next]_vars /\ WF_vars(CallStep)

-----------------------------------------------------------------------------
(***************************************************************************)
(* Properties.                                                             *)
(***************************************************************************)
CallPcs == {"text_query", "text_store", "text_reconnect", "prepared_get", "prepare",
            "prepare_reconnect", "prepared_run", "prepared_store", "prepared_reconnect"}
InCall == pc \in CallPcs

StmtRecords == [state : {"free", "init", "prepared", "stale"}, sql : Queries \cup {NoQuery}]

\* Types; in particular the loop counters never pass the limit by more than
\* the one increment that ends their loop.
TypeOK ==
  /\ link \in BOOLEAN /\ alive \in BOOLEAN /\ (alive => link)
  /\ errno \in {"none", "lost", "other"}
  /\ stmts \in [Stmts -> StmtRecords]
  /\ cache \in [Keys -> Stmts \cup {NoStmt}]
  /\ allow_reconnects \in BOOLEAN
  /\ text \in [Keys -> Queries]
  /\ pc \in CallPcs \cup {"none", "idle"}
  /\ call \in Calls
  /\ stmt \in Stmts \cup {NoStmt}
  /\ attempts \in 0..(MaxReconnectAttempts + 1)
  /\ prepare_attempts \in 0..(MaxReconnectAttempts + 1)
  /\ ret \in {"none", "pending", "success", "error"}
  /\ runs \in Nat /\ answered \in BOOLEAN /\ silent \in BOOLEAN /\ reconnects \in Nat
  /\ uncached \subseteq Stmts

\* Every entry of the two caches is a handle prepared on the session in use,
\* and no handle has two entries: reconnects, at whatever point of a call,
\* leave no entry of the session before (close_all_statements).
CacheSound ==
  /\ \A s \in Cached : stmts[s].state = "prepared"
  /\ \A j, k \in Keys : cache[j] = cache[k] /\ cache[j] # NoStmt => j = k

\* The handle a call works on is never closed under it: it stays initialised
\* while it is being prepared, across reconnects that close every cached
\* statement, and it is prepared on this session when it is run and read.
StatementInUseIsOpen ==
  /\ pc \in {"prepare", "prepare_reconnect"} => stmts[stmt] = Unnamed /\ stmt \notin Cached
  /\ pc \in {"prepared_run", "prepared_store"} => stmts[stmt].state = "prepared"

\* An open handle is cached, in use by the call in progress, or was prepared
\* by a call that does not cache, which nobody closes: every error path of
\* get_prepared_statement gives back the handle it allocated.
OnlyUncachedLeak ==
  Open \subseteq Cached \cup uncached
                 \cup (IF pc \in {"prepare", "prepare_reconnect"} THEN {stmt} ELSE {})

\* A prepared call runs the query it was given, whatever was cached, closed,
\* reconnected and reallocated before; a buffer the caller has reused is the
\* exception that the pointer cache makes.
ExecutesRequestedText ==
  pc \in {"prepared_run", "prepared_store"} /\ call.key \notin ReusedBuffers
    => stmts[stmt].sql = call.text

\* The two nested loops of a prepared call multiply: the number of sessions
\* one call may open is the square of what one loop allows.
ReconnectsBounded ==
  reconnects <= IF call.op = "execute"
                THEN MaxReconnectAttempts + 1
                ELSE (MaxReconnectAttempts + 1) * (MaxReconnectAttempts + 1)

\* A call that reports success without its query having been answered has used
\* up the attempts of one of its loops, whatever was lost, refused and
\* reconnected on the way.  The exception is a statement call that failed in
\* the client library alone (FailsLocally): the code reports the error of the
\* handle for it (connection.h:423, 430, 436, 482), which has none.
UnansweredOnlyWhenExhausted ==
  ret = "success" /\ ~answered /\ ~silent
    => \/ attempts > MaxReconnectAttempts
       \/ prepare_attempts > MaxReconnectAttempts

\* With reconnects off, nothing a query does opens a session: session state
\* (transaction, current database) can only be lost, never silently replaced.
NoReconnectWhenDisallowed ==
  [][InCall /\ ~allow_reconnects => (alive' => alive) /\ reconnects' = reconnects]_vars

\* Every call returns, however often the session is dropped meanwhile.
CallReturns == InCall ~> pc = "idle"

\* The contract of a query, which knows nothing of statements and sessions.
Contract == INSTANCE QueryCall WITH
  MaxRuns <- MaxReconnectAttempts + 1,
  phase   <- IF InCall THEN "running" ELSE "idle",
  allow   <- allow_reconnects,
  outcome <- ret
MeetsContract == Contract!Spec

\* What the comments say (connection.h:315, 333, 382, 463: "Reconnect and retry
\* the query"): a session opened by a call is used to run its query again, so
\* a success is the answer of that session.  Nothing is said of a statement
\* call that failed without an error of the handle, which retries nothing.
RetriesAfterReconnect == ret = "success" /\ ~silent => answered
=============================================================================
