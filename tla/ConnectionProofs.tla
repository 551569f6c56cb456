-------------------------- MODULE ConnectionProofs --------------------------
(***************************************************************************)
(* The cache of prepared statements is sound, whatever the server, the     *)
(* network and the user do and however many attempts the loops are given.  *)
(***************************************************************************)
EXTENDS Connection, TLAPS

PreparedPcs == {"prepared_get", "prepare", "prepare_reconnect",
                "prepared_run", "prepared_store", "prepared_reconnect"}

Preparing == {"prepare", "prepare_reconnect"}
Running   == {"prepared_run", "prepared_store"}

\* What the program counter says of the locals of the call in progress.
LocalsOK ==
  /\ pc = "none" => cache = NothingCached
  /\ InCall => attempts <= MaxReconnectAttempts
  /\ pc \in PreparedPcs => call.key \in Keys
  /\ pc \in Preparing =>
       /\ prepare_attempts <= MaxReconnectAttempts
       /\ stmt \in Stmts /\ cache[call.key] = NoStmt
  /\ pc \in Running => stmt \in Stmts

\* The texts a cached statement, and the statement in use, were prepared from.
TextsOK ==
  /\ \A k \in Keys \ ReusedBuffers :
       cache[k] # NoStmt => stmts[cache[k]].sql = text[k]
  /\ pc \in PreparedPcs => call.text = text[call.key]
  /\ ExecutesRequestedText

\* The inductive invariant.
IInv == /\ TypeOK /\ LocalsOK
        /\ CacheSound /\ StatementInUseIsOpen /\ OnlyUncachedLeak /\ TextsOK

-----------------------------------------------------------------------------
LEMMA RecordsTyped ==
  /\ Free \in StmtRecords /\ Unnamed \in StmtRecords
  /\ \A q \in Queries : Prepared(q) \in StmtRecords
  /\ \A q \in Queries \cup {NoQuery} : Stale(q) \in StmtRecords
  BY DEF Free, Unnamed, Prepared, Stale, StmtRecords

LEMMA WithoutTyped ==
  ASSUME TypeOK, NEW S
  PROVE  WithoutStmts(S) \in [Stmts -> StmtRecords]
  BY RecordsTyped DEF TypeOK, WithoutStmts

LEMMA OnNewSessionTyped ==
  ASSUME NEW f \in [Stmts -> StmtRecords]
  PROVE  OnNewSession(f) \in [Stmts -> StmtRecords]
<1>1. \A s \in Stmts : f[s].sql \in Queries \cup {NoQuery}
  BY DEF StmtRecords
<1> QED
  BY <1>1, RecordsTyped DEF OnNewSession

\* One exchange with the server keeps the types of the handle.
LEMMA ExchangeTyped ==
  ASSUME TypeOK, NEW o \in Outcomes, Exchange(o)
  PROVE  /\ link' \in BOOLEAN /\ alive' \in BOOLEAN /\ (alive' => link')
         /\ errno' \in {"none", "lost", "other"}
  BY DEF TypeOK, Exchange, Outcomes

\* The history variables of a run and of a retry keep their types.
LEMMA RunsTyped ==
  ASSUME TypeOK, NEW o \in Outcomes, Runs(o)
  PROVE  runs' \in Nat /\ answered' \in BOOLEAN
<1>1. runs \in Nat /\ Ran(o) \in Nat
  BY DEF TypeOK, Ran
<1>2. runs' = runs + Ran(o) /\ answered' = (o = "ok")
  BY DEF Runs
<1> QED
  BY <1>1, <1>2

LEMMA RetriesTyped ==
  ASSUME TypeOK, Retries
  PROVE  reconnects' \in Nat /\ answered' \in BOOLEAN
<1>1. reconnects' \in Nat
  <2>1. reconnects \in Nat /\ reconnects' = reconnects + 1
    BY DEF TypeOK, Retries
  <2> QED
    BY <2>1
<1>2. answered' \in BOOLEAN
  BY DEF Retries
<1> QED
  BY <1>1, <1>2

\* A failure that the client library sets on the statement alone.
LEMMA FailsLocallyTyped ==
  ASSUME TypeOK, FailsLocally
  PROVE  /\ UNCHANGED <<link, alive, errno>> /\ errno \in {"none", "lost", "other"}
         /\ silent' \in BOOLEAN /\ (silent' <=> errno = "none")
<1>1. silent' = (errno = "none") /\ (errno = "none") \in BOOLEAN
  BY Zenon DEF FailsLocally
<1>2. silent' \in BOOLEAN /\ (silent' <=> errno = "none")
  BY <1>1, Zenon
<1>3. UNCHANGED <<link, alive, errno>>
  BY DEF FailsLocally, handleVars
<1> QED
  BY <1>2, <1>3 DEF TypeOK

LEMMA FetchTyped ==
  ASSUME TypeOK, NEW o \in Outcomes, Fetch(o)
  PROVE  /\ link' \in BOOLEAN /\ alive' \in BOOLEAN /\ (alive' => link')
         /\ errno' \in {"none", "lost", "other"}
  BY ExchangeTyped DEF TypeOK, Fetch

\* What reconnect() does to the statements: no entry is left, the handles in
\* "also" are closed with the cached ones, and a handle that is being prepared
\* is not touched.
LEMMA ReconnectEffect ==
  ASSUME TypeOK, NEW ok, NEW also \in SUBSET Stmts, reconnect(ok, also)
  PROVE  /\ link' \in BOOLEAN /\ alive' \in BOOLEAN /\ (alive' => link')
         /\ errno' \in {"none", "lost", "other"}
         /\ cache' = NothingCached
         /\ stmts' \in [Stmts -> StmtRecords]
         /\ \A s \in Stmts : stmts'[s].state # "free" =>
              stmts[s].state # "free" /\ s \notin Cached \cup also
         /\ \A s \in Stmts \ (Cached \cup also) :
              stmts[s] = Unnamed => stmts'[s] = Unnamed
<1> DEFINE W == WithoutStmts(Cached \cup also)
<1>1. W \in [Stmts -> StmtRecords]
  BY WithoutTyped
<1>2. OnNewSession(W) \in [Stmts -> StmtRecords]
  BY <1>1, OnNewSessionTyped
<1>3. stmts' \in {W, OnNewSession(W)}
  BY DEF reconnect
<1>4. \A s \in Stmts : W[s] = IF s \in Cached \cup also THEN Free ELSE stmts[s]
  BY DEF WithoutStmts
<1>5. \A s \in Stmts : OnNewSession(W)[s] =
         IF W[s].state = "prepared" THEN Stale(W[s].sql) ELSE W[s]
  BY DEF OnNewSession
<1> HIDE DEF W
<1>6. /\ stmts' \in [Stmts -> StmtRecords]
      /\ \A s \in Stmts : stmts'[s].state # "free" =>
           stmts[s].state # "free" /\ s \notin Cached \cup also
      /\ \A s \in Stmts \ (Cached \cup also) :
           stmts[s] = Unnamed => stmts'[s] = Unnamed
  <2>1. Free.state = "free" /\ Unnamed.state = "init" /\ \A q : Stale(q).state = "stale"
    BY DEF Free, Unnamed, Stale
  <2>2. CASE stmts' = W
    BY <1>1, <1>4, <2>1, <2>2
  <2>3. CASE stmts' = OnNewSession(W)
    BY <1>2, <1>4, <1>5, <2>1, <2>3
  <2> QED
    BY <1>3, <2>2, <2>3
<1>7. link' \in BOOLEAN /\ alive' \in BOOLEAN /\ (alive' => link')
      /\ errno' \in {"none", "lost", "other"}
  BY DEF TypeOK, reconnect, CloseMayNotice
<1>8. cache' = NothingCached
  BY DEF reconnect, close_all_statements
<1> QED
  BY <1>6, <1>7, <1>8

-----------------------------------------------------------------------------
(***************************************************************************)
(* Most steps either leave the statements and their cache alone, or are a  *)
(* reconnect.  Both kinds keep the invariant if they keep the types and    *)
(* the locals and begin to work on no statement.                           *)
(***************************************************************************)
TakesNoStatement ==
  /\ pc' \in Preparing \cup Running => pc \in Preparing \cup Running /\ stmt' = stmt
  /\ pc' \in Preparing <=> pc \in Preparing
  /\ pc' \in PreparedPcs =>
       \/ pc \in PreparedPcs /\ call' = call
       \/ pc' \notin Running /\ call'.text = text[call'.key]

LEMMA QuietStep ==
  ASSUME IInv, TypeOK', LocalsOK', TakesNoStatement,
         UNCHANGED <<stmts, cache, text, uncached>>
  PROVE  IInv'
<1> USE DEF IInv, TakesNoStatement, Preparing, Running
<1>1. Cached' = Cached /\ Open' = Open
  BY DEF Cached, Open
<1>2. CacheSound'
  BY <1>1 DEF CacheSound
<1>3. StatementInUseIsOpen'
  BY <1>1 DEF StatementInUseIsOpen
<1>4. OnlyUncachedLeak'
  BY <1>1 DEF OnlyUncachedLeak
<1>5. TextsOK'
  BY DEF TextsOK, ExecutesRequestedText, PreparedPcs
<1> QED
  BY <1>2, <1>3, <1>4, <1>5

LEMMA NoEntries ==
  ASSUME cache' = NothingCached
  PROVE  Cached' = {} /\ \A k \in Keys : cache'[k] = NoStmt
  BY DEF Cached, NothingCached

LEMMA ReconnectStep ==
  ASSUME IInv, NEW ok, NEW also \in SUBSET Stmts, reconnect(ok, also),
         TypeOK', LocalsOK', UNCHANGED <<text, uncached>>,
         pc' \notin Running,
         pc' \in Preparing => pc \in Preparing /\ stmt' = stmt /\ also = {},
         pc \in Preparing => pc' \in Preparing \/ also = {stmt},
         pc' \in PreparedPcs => pc \in PreparedPcs /\ call' = call
  PROVE  IInv'
<1> USE DEF IInv
<1> DEFINE Effect ==
      /\ cache' = NothingCached
      /\ \A s \in Stmts : stmts'[s].state # "free" =>
           stmts[s].state # "free" /\ s \notin Cached \cup also
      /\ \A s \in Stmts \ (Cached \cup also) :
           stmts[s] = Unnamed => stmts'[s] = Unnamed
<1>1. Effect
  BY ReconnectEffect
<1> HIDE DEF Effect
<1>2. Cached' = {} /\ \A k \in Keys : cache'[k] = NoStmt
  BY <1>1, NoEntries DEF Effect
<1>3. CacheSound'
  BY <1>2 DEF CacheSound
<1>4. StatementInUseIsOpen'
  BY <1>1, <1>2 DEF Effect, StatementInUseIsOpen, Preparing, Running, LocalsOK
<1>5. OnlyUncachedLeak'
  <2>1. Open' \subseteq uncached \cup (IF pc \in Preparing /\ also = {} THEN {stmt} ELSE {})
    BY <1>1 DEF Effect, Open, OnlyUncachedLeak, Preparing
  <2> QED
    BY <1>2, <2>1 DEF OnlyUncachedLeak, Preparing
<1>6. TextsOK'
  BY <1>2 DEF TextsOK, ExecutesRequestedText, Running
<1> QED
  BY <1>3, <1>4, <1>5, <1>6

-----------------------------------------------------------------------------
LEMMA TextCallTyped == \A q \in Queries : TextCall(q) \in Calls
  BY DEF TextCall, Calls

LEMMA InitIInv == Init => IInv
<1> SUFFICES ASSUME Init PROVE IInv
  OBVIOUS
<1> USE ConnectionAssumption DEF Init
<1>1. Cached = {} /\ Open = {}
  BY DEF Cached, Open, NothingCached, Free
<1>2. TypeOK
  <2>1. stmts \in [Stmts -> StmtRecords]
    BY RecordsTyped
  <2>2. call \in Calls
    <3>1. PICK q \in Queries : call = TextCall(q)
      OBVIOUS
    <3> QED
      BY <3>1, TextCallTyped
  <2>3. /\ cache \in [Keys -> Stmts \cup {NoStmt}] /\ text \in [Keys -> Queries]
        /\ attempts \in 0..(MaxReconnectAttempts + 1)
        /\ prepare_attempts \in 0..(MaxReconnectAttempts + 1)
    BY DEF NothingCached
  <2> QED
    BY <2>1, <2>2, <2>3 DEF TypeOK
<1>3. LocalsOK
  BY DEF LocalsOK, InCall, CallPcs, PreparedPcs, Preparing, Running
<1>4. CacheSound /\ StatementInUseIsOpen /\ OnlyUncachedLeak
  BY <1>1 DEF CacheSound, StatementInUseIsOpen, OnlyUncachedLeak, NothingCached
<1>5. TextsOK
  BY DEF TextsOK, ExecutesRequestedText, NothingCached, PreparedPcs
<1> QED
  BY <1>2, <1>3, <1>4, <1>5 DEF IInv

\* The start of either kind of call.
LEMMA BeginStep ==
  ASSUME IInv, NEW c \in Calls, NEW first, Begin(c, first),
         \/ first = "text_query"
         \/ first = "prepared_get" /\ c.key \in Keys /\ c.text = text[c.key]
  PROVE  IInv'
<1> USE DEF IInv, Begin
<1>1. TypeOK'
  <2>1. /\ pc' \in CallPcs /\ call' \in Calls /\ stmt' \in Stmts \cup {NoStmt}
        /\ ret' = "pending" /\ answered' \in BOOLEAN /\ silent' \in BOOLEAN
    BY DEF CallPcs
  <2>2. /\ attempts' \in 0..(MaxReconnectAttempts + 1)
        /\ prepare_attempts' \in 0..(MaxReconnectAttempts + 1)
        /\ runs' \in Nat /\ reconnects' \in Nat
    BY ConnectionAssumption
  <2>3. UNCHANGED <<link, alive, errno, stmts, cache, allow_reconnects, text, uncached>>
    BY DEF handleVars
  <2> QED
    BY <2>1, <2>2, <2>3 DEF TypeOK
<1>2. LocalsOK'
  BY ConnectionAssumption DEF LocalsOK, Preparing, Running, PreparedPcs
<1>3. TakesNoStatement
  BY DEF TakesNoStatement, Preparing, Running, PreparedPcs
<1> QED
  BY <1>1, <1>2, <1>3, QuietStep

\* The operations that are not queries.
LEMMA ConstructStep ==
  ASSUME IInv, NEW b \in BOOLEAN, Construct(b)
  PROVE  IInv'
<1> USE DEF IInv, Construct, NotOnHandle, history
<1>1. cache' = cache
  BY DEF LocalsOK
<1>2. TypeOK'
  BY <1>1 DEF TypeOK
<1>3. LocalsOK'
  BY DEF LocalsOK, InCall, CallPcs, PreparedPcs, Preparing, Running
<1>4. TakesNoStatement
  BY DEF TakesNoStatement, Preparing, Running, PreparedPcs
<1> QED
  BY <1>1, <1>2, <1>3, <1>4, QuietStep

LEMMA DestroyStep ==
  ASSUME IInv, Destroy
  PROVE  IInv'
<1> USE DEF IInv, Destroy, NotOnHandle, history, close_all_statements
<1> DEFINE W == WithoutStmts(Cached)
<1>1. W \in [Stmts -> StmtRecords] /\ stmts' = OnNewSession(W)
  BY WithoutTyped
<1>2. stmts' \in [Stmts -> StmtRecords]
  BY <1>1, OnNewSessionTyped
<1>3. \A s \in Stmts : stmts'[s].state # "free" => stmts[s].state # "free" /\ s \notin Cached
  <2>1. Free.state = "free" /\ \A q : Stale(q).state = "stale"
    BY DEF Free, Stale
  <2>2. \A s \in Stmts : W[s] = IF s \in Cached THEN Free ELSE stmts[s]
    BY DEF WithoutStmts
  <2>3. \A s \in Stmts : stmts'[s] = IF W[s].state = "prepared" THEN Stale(W[s].sql) ELSE W[s]
    BY <1>1 DEF OnNewSession
  <2> QED
    BY <2>1, <2>2, <2>3
<1>4. Cached' = {} /\ \A k \in Keys : cache'[k] = NoStmt
  BY NoEntries
<1>5. TypeOK'
  BY <1>2, <1>4 DEF TypeOK, NothingCached
<1>6. LocalsOK'
  BY DEF LocalsOK, InCall, CallPcs, PreparedPcs, Preparing, Running
<1>7. CacheSound' /\ StatementInUseIsOpen' /\ OnlyUncachedLeak'
  BY <1>3, <1>4 DEF CacheSound, StatementInUseIsOpen, OnlyUncachedLeak, Open
<1>8. TextsOK'
  BY <1>4 DEF TextsOK, ExecutesRequestedText, PreparedPcs
<1> QED
  BY <1>5, <1>6, <1>7, <1>8

LEMMA ConnectStep ==
  ASSUME IInv, NEW b \in BOOLEAN, Connect(b)
  PROVE  IInv'
<1> USE DEF IInv, Connect, NotOnHandle, history
<1>1. reconnect(b, {}) /\ {} \in SUBSET Stmts
  OBVIOUS
<1>2. /\ link' \in BOOLEAN /\ alive' \in BOOLEAN /\ (alive' => link')
      /\ errno' \in {"none", "lost", "other"}
      /\ cache' = NothingCached /\ stmts' \in [Stmts -> StmtRecords]
  BY <1>1, ReconnectEffect
<1>3. TypeOK'
  BY <1>2 DEF TypeOK, NothingCached
<1>4. LocalsOK'
  BY DEF LocalsOK, InCall, CallPcs, PreparedPcs, Preparing, Running
<1> QED
  BY <1>1, <1>3, <1>4, ReconnectStep DEF Preparing, Running, PreparedPcs

LEMMA SettingsStep ==
  ASSUME IInv, \/ \E b \in BOOLEAN : set_allow_reconnects(b)
               \/ \E o \in Outcomes : ping(o)
               \/ ServerDrop
               \/ UNCHANGED vars
  PROVE  IInv'
<1> USE DEF IInv, NotOnHandle, vars, handleVars, callVars, frameVars, history
<1>1. /\ UNCHANGED <<stmts, cache, pc, call, stmt, attempts, prepare_attempts,
                    ret, text, runs, answered, silent, reconnects, uncached>>
      /\ allow_reconnects' \in BOOLEAN
  BY DEF set_allow_reconnects, ping, ServerDrop, TypeOK
<1>2. /\ link' \in BOOLEAN /\ alive' \in BOOLEAN /\ (alive' => link')
      /\ errno' \in {"none", "lost", "other"}
  <2>1. CASE \E o \in Outcomes : ping(o)
    BY <2>1, ExchangeTyped DEF ping
  <2>2. CASE (\E b \in BOOLEAN : set_allow_reconnects(b)) \/ UNCHANGED vars
    <3>1. UNCHANGED <<link, alive, errno>>
      BY <2>2 DEF set_allow_reconnects
    <3> QED
      BY <3>1 DEF TypeOK
  <2>3. CASE ServerDrop
    BY <2>3 DEF ServerDrop, TypeOK
  <2> QED
    BY <2>1, <2>2, <2>3
<1>3. TypeOK'
  BY <1>1, <1>2 DEF TypeOK
<1>4. LocalsOK'
  BY <1>1 DEF LocalsOK, InCall
<1>5. TakesNoStatement
  BY <1>1 DEF TakesNoStatement, TextsOK
<1> QED
  BY <1>1, <1>3, <1>4, <1>5, QuietStep

LEMMA CloseStep ==
  ASSUME IInv, NEW k \in Keys, close_statement(k)
  PROVE  IInv'
<1> USE DEF IInv, close_statement, NotOnHandle, history, Erase
<1>1. cache[k] \in Stmts /\ cache \in [Keys -> Stmts \cup {NoStmt}]
  BY DEF TypeOK
<1>2. /\ cache'[k] = NoStmt
      /\ \A j \in Keys \ {k} : cache'[j] = cache[j] /\ cache[j] # cache[k]
  BY <1>1 DEF CacheSound
<1>3. Cached' = Cached \ {cache[k]}
  BY <1>1, <1>2 DEF Cached
<1>4. \A s \in Stmts : stmts'[s] = IF s = cache[k] THEN Free ELSE stmts[s]
  BY DEF WithoutStmts
<1>5. TypeOK'
  <2>1. stmts' \in [Stmts -> StmtRecords]
    BY WithoutTyped
  <2>2. cache' \in [Keys -> Stmts \cup {NoStmt}]
    BY <1>1
  <2>3. /\ link' \in BOOLEAN /\ alive' \in BOOLEAN /\ (alive' => link')
        /\ errno' \in {"none", "lost", "other"}
    <3>1. CASE UNCHANGED handleVars
      BY <3>1 DEF handleVars, TypeOK
    <3>2. CASE Exchange("lost")
      BY <3>2, ExchangeTyped DEF Outcomes
    <3> QED
      BY <3>1, <3>2
  <2> QED
    BY <2>1, <2>2, <2>3 DEF TypeOK
<1>6. LocalsOK'
  BY DEF LocalsOK, InCall, CallPcs, PreparedPcs, Preparing, Running
<1>7. CacheSound'
  <2>1. Cached \subseteq Stmts
    BY <1>1 DEF Cached
  <2>2. \A s \in Cached' : stmts'[s].state = "prepared"
    BY <1>3, <1>4, <2>1 DEF CacheSound
  <2>3. \A i, j \in Keys : cache'[i] = cache'[j] /\ cache'[i] # NoStmt => i = j
    BY <1>2 DEF CacheSound
  <2> QED
    BY <2>2, <2>3 DEF CacheSound
<1>8. StatementInUseIsOpen'
  BY DEF StatementInUseIsOpen
<1>9. OnlyUncachedLeak'
  <2>1. Free.state = "free"
    BY DEF Free
  <2>2. Open' \subseteq Open \ {cache[k]}
    BY <1>4, <2>1 DEF Open
  <2> QED
    BY <1>3, <2>2 DEF OnlyUncachedLeak
<1>10. TextsOK'
  BY <1>1, <1>2, <1>4 DEF TextsOK, ExecutesRequestedText, PreparedPcs, TypeOK
<1> QED
  BY <1>5, <1>6, <1>7, <1>8, <1>9, <1>10

LEMMA ReuseStep ==
  ASSUME IInv, NEW k \in Keys, NEW q \in Queries, ReuseBuffer(k, q)
  PROVE  IInv'
<1> USE DEF IInv, ReuseBuffer, handleVars, callVars, frameVars, history
<1>1. TypeOK'
  BY DEF TypeOK
<1>2. LocalsOK'
  BY DEF LocalsOK, InCall
<1>3. Cached' = Cached /\ Open' = Open
  BY DEF Cached, Open
<1>4. CacheSound' /\ StatementInUseIsOpen' /\ OnlyUncachedLeak'
  BY <1>3 DEF CacheSound, StatementInUseIsOpen, OnlyUncachedLeak
<1>5. TextsOK'
  <2>1. \A j \in Keys \ ReusedBuffers : text'[j] = text[j]
    BY DEF TypeOK
  <2> QED
    BY <2>1 DEF TextsOK, ExecutesRequestedText, PreparedPcs
<1> QED
  BY <1>1, <1>2, <1>4, <1>5

-----------------------------------------------------------------------------
\* The steps of a text query.
LEMMA TextStep ==
  ASSUME IInv, NEW o \in Outcomes, TextQuery(o) \/ TextStore(o)
  PROVE  IInv'
<1> USE DEF IInv, TextQuery, TextStore, Return, ErrorMessage
<1>1. /\ link' \in BOOLEAN /\ alive' \in BOOLEAN /\ (alive' => link')
      /\ errno' \in {"none", "lost", "other"}
  BY ExchangeTyped, FetchTyped
<1>2. /\ pc \in {"text_query", "text_store"}
      /\ pc' \in {"text_store", "text_reconnect", "idle"}
      /\ ret' \in {ret, "success", "error"} /\ stmt' \in {stmt, NoStmt}
      /\ UNCHANGED <<stmts, cache, allow_reconnects, text, call,
                     attempts, prepare_attempts, silent, reconnects, uncached>>
  BY DEF Outcomes, history
<1>3. runs' \in Nat /\ answered' \in BOOLEAN
  <2>1. CASE TextQuery(o)
    BY <2>1, RunsTyped
  <2>2. CASE TextStore(o)
    BY <2>2 DEF TypeOK, history
  <2> QED
    BY <2>1, <2>2
<1>4. TypeOK'
  BY <1>1, <1>2, <1>3 DEF TypeOK, CallPcs
<1>5. LocalsOK'
  BY <1>2 DEF LocalsOK, InCall, CallPcs, PreparedPcs, Preparing, Running
<1>6. TakesNoStatement
  BY <1>2 DEF TakesNoStatement, PreparedPcs, Preparing, Running
<1> QED
  BY <1>2, <1>4, <1>5, <1>6, QuietStep

\* The reconnects of the two outer loops.
LEMMA OuterReconnectStep ==
  ASSUME IInv, NEW ok \in BOOLEAN, TextReconnect(ok) \/ PreparedReconnect(ok)
  PROVE  IInv'
<1> USE DEF IInv, TextReconnect, PreparedReconnect, Return, ErrorMessage
<1>1. reconnect(ok, {}) /\ {} \in SUBSET Stmts
  OBVIOUS
<1>2. /\ link' \in BOOLEAN /\ alive' \in BOOLEAN /\ (alive' => link')
      /\ errno' \in {"none", "lost", "other"}
      /\ cache' = NothingCached /\ stmts' \in [Stmts -> StmtRecords]
  BY <1>1, ReconnectEffect
<1>3. /\ pc \in {"text_reconnect", "prepared_reconnect"}
      /\ pc' \in {"text_query", "prepared_get", "idle"}
      /\ pc' = "prepared_get" => pc = "prepared_reconnect"
      /\ ret' \in {ret, "success", "error"} /\ stmt' \in {stmt, NoStmt}
      /\ UNCHANGED <<allow_reconnects, text, call, prepare_attempts, runs, uncached>>
  OBVIOUS
<1>4. /\ attempts \in 0..MaxReconnectAttempts
      /\ attempts' \in {attempts, attempts + 1}
      /\ pc' # "idle" => attempts' <= MaxReconnectAttempts
  BY DEF TypeOK, LocalsOK, InCall, CallPcs, TriesLeft
<1>5. reconnects' \in Nat /\ answered' \in BOOLEAN
  BY RetriesTyped
<1>6. TypeOK'
  <2>1. attempts' \in 0..(MaxReconnectAttempts + 1)
    BY <1>4, ConnectionAssumption
  <2> QED
    BY <1>2, <1>3, <1>5, <2>1 DEF TypeOK, CallPcs, NothingCached
<1>7. LocalsOK'
  BY <1>3, <1>4 DEF LocalsOK, InCall, CallPcs, PreparedPcs, Preparing, Running
<1> QED
  BY <1>1, <1>3, <1>6, <1>7, ReconnectStep DEF PreparedPcs, Preparing, Running

-----------------------------------------------------------------------------
\* The steps of a prepared call.
LEMMA CacheHitStep ==
  ASSUME IInv, CacheHit
  PROVE  IInv'
<1> USE DEF IInv, CacheHit, frameVars, history, handleVars
<1>1. /\ pc = "prepared_get" /\ pc' = "prepared_run" /\ stmt' = cache[call.key]
      /\ UNCHANGED <<link, alive, errno, stmts, cache, allow_reconnects, text, call,
                     attempts, prepare_attempts, ret, runs, answered, silent, reconnects,
                     uncached>>
  OBVIOUS
<1>2. call.key \in Keys /\ cache[call.key] \in Stmts /\ cache[call.key] \in Cached
  BY DEF LocalsOK, PreparedPcs, TypeOK, Cached
<1>3. TypeOK'
  BY <1>1, <1>2 DEF TypeOK, CallPcs
<1>4. LocalsOK'
  BY <1>1, <1>2 DEF LocalsOK, InCall, CallPcs, PreparedPcs, Preparing, Running
<1>5. Cached' = Cached /\ Open' = Open
  BY <1>1 DEF Cached, Open
<1>6. CacheSound' /\ StatementInUseIsOpen' /\ OnlyUncachedLeak'
  BY <1>1, <1>2, <1>5 DEF CacheSound, StatementInUseIsOpen, OnlyUncachedLeak
<1>7. TextsOK'
  BY <1>1, <1>2 DEF TextsOK, ExecutesRequestedText, PreparedPcs
<1> QED
  BY <1>3, <1>4, <1>6, <1>7

LEMMA CacheMissStep ==
  ASSUME IInv, NEW s \in Stmts, CacheMiss(s)
  PROVE  IInv'
<1> USE DEF IInv, CacheMiss, history, handleVars
<1>1. /\ pc = "prepared_get" /\ pc' = "prepare" /\ stmt' = s
      /\ cache[call.key] = NoStmt /\ prepare_attempts' = 0
      /\ UNCHANGED <<link, alive, errno, cache, allow_reconnects, text, call,
                     attempts, ret, runs, answered, silent, reconnects, uncached>>
  OBVIOUS
<1>2. /\ stmts[s].state = "free" /\ stmts'[s] = Unnamed
      /\ \A x \in Stmts \ {s} : stmts'[x] = stmts[x]
  BY DEF TypeOK
<1>3. call.key \in Keys
  BY DEF LocalsOK, PreparedPcs
<1>4. s \notin Cached
  BY <1>2 DEF CacheSound
<1>5. TypeOK'
  <2>1. stmts' \in [Stmts -> StmtRecords]
    BY RecordsTyped DEF TypeOK
  <2>2. prepare_attempts' \in 0..(MaxReconnectAttempts + 1)
    BY <1>1, ConnectionAssumption
  <2> QED
    BY <1>1, <2>1, <2>2 DEF TypeOK, CallPcs
<1>6. LocalsOK'
  BY <1>1, <1>3, ConnectionAssumption
  DEF LocalsOK, InCall, CallPcs, PreparedPcs, Preparing, Running
<1>7. Cached' = Cached /\ Cached \subseteq Stmts
  BY <1>1 DEF Cached, TypeOK
<1>8. CacheSound'
  BY <1>1, <1>2, <1>4, <1>7 DEF CacheSound
<1>9. StatementInUseIsOpen'
  BY <1>1, <1>2, <1>4, <1>7 DEF StatementInUseIsOpen
<1>10. OnlyUncachedLeak'
  <2>1. Open' \subseteq Open \cup {s}
    BY <1>2 DEF Open
  <2> QED
    BY <1>1, <1>7, <2>1 DEF OnlyUncachedLeak
<1>11. TextsOK'
  <2>1. \A k \in Keys : cache[k] # NoStmt => cache[k] \in Stmts \ {s}
    BY <1>4 DEF Cached, TypeOK
  <2> QED
    BY <1>1, <1>2, <2>1 DEF TextsOK, ExecutesRequestedText, PreparedPcs
<1> QED
  BY <1>5, <1>6, <1>8, <1>9, <1>10, <1>11

LEMMA StmtPreparedStep ==
  ASSUME IInv, StmtPrepared
  PROVE  IInv'
<1> USE DEF IInv, StmtPrepared, frameVars
<1>1. /\ pc = "prepare" /\ pc' = "prepared_run"
      /\ UNCHANGED <<allow_reconnects, text, stmt, call, attempts, prepare_attempts, ret,
                     runs, answered, silent, reconnects>>
  OBVIOUS
<1>2. /\ stmt \in Stmts /\ call.key \in Keys /\ cache[call.key] = NoStmt
      /\ stmt \notin Cached /\ call.text = text[call.key] /\ call.text \in Queries
  <2>1. stmt \in Stmts /\ cache[call.key] = NoStmt /\ call.key \in Keys
    BY DEF LocalsOK, PreparedPcs, Preparing
  <2>2. stmt \notin Cached
    BY DEF StatementInUseIsOpen
  <2>3. call.text = text[call.key]
    BY DEF TextsOK, PreparedPcs
  <2> QED
    BY <2>1, <2>2, <2>3 DEF TypeOK
<1>3. /\ stmts'[stmt] = Prepared(call.text)
      /\ \A x \in Stmts \ {stmt} : stmts'[x] = stmts[x]
  BY <1>2 DEF TypeOK
<1>4. Prepared(call.text).state = "prepared" /\ Prepared(call.text).sql = call.text
  BY DEF Prepared
<1>5. \/ /\ uncached' = uncached
         /\ cache'[call.key] = stmt
         /\ \A k \in Keys \ {call.key} : cache'[k] = cache[k]
      \/ cache' = cache /\ uncached' = uncached \cup {stmt}
  BY <1>2 DEF TypeOK
<1>6. TypeOK'
  <2>1. stmts' \in [Stmts -> StmtRecords]
    BY <1>2, RecordsTyped DEF TypeOK
  <2>2. cache' \in [Keys -> Stmts \cup {NoStmt}] /\ uncached' \subseteq Stmts
    BY <1>2 DEF TypeOK
  <2>3. /\ link' \in BOOLEAN /\ alive' \in BOOLEAN /\ (alive' => link')
        /\ errno' \in {"none", "lost", "other"}
    BY ExchangeTyped DEF Outcomes
  <2> QED
    BY <1>1, <2>1, <2>2, <2>3 DEF TypeOK, CallPcs
<1>7. LocalsOK'
  BY <1>1, <1>2 DEF LocalsOK, InCall, CallPcs, PreparedPcs, Preparing, Running
<1>8. Cached \subseteq Stmts /\ ConnectionAssumption
  BY ConnectionAssumption DEF Cached, TypeOK
<1>9. \/ uncached' = uncached /\ Cached' = Cached \cup {stmt}
      \/ uncached' = uncached \cup {stmt} /\ Cached' = Cached
  <2>1. stmt # NoStmt
    BY <1>2, ConnectionAssumption
  <2> QED
    BY <1>2, <1>5, <2>1 DEF Cached
<1>10. CacheSound'
  <2>1. \A s \in Cached' : stmts'[s].state = "prepared"
    BY <1>3, <1>4, <1>8, <1>9 DEF CacheSound
  <2>2. \A j \in Keys : cache[j] # stmt
    BY <1>2, ConnectionAssumption DEF Cached
  <2>3. \A j, k \in Keys : cache'[j] = cache'[k] /\ cache'[j] # NoStmt => j = k
    BY <1>2, <1>5, <2>2 DEF CacheSound
  <2> QED
    BY <2>1, <2>3 DEF CacheSound
<1>11. StatementInUseIsOpen'
  BY <1>1, <1>3, <1>4 DEF StatementInUseIsOpen
<1>12. OnlyUncachedLeak'
  <2>1. Open' \subseteq Open \cup {stmt}
    BY <1>3 DEF Open
  <2> QED
    BY <1>1, <1>9, <2>1 DEF OnlyUncachedLeak
<1>13. TextsOK'
  <2>1. \A k \in Keys : cache[k] # NoStmt => cache[k] \in Stmts \ {stmt}
    BY <1>2 DEF Cached, TypeOK
  <2>2. \A k \in Keys \ ReusedBuffers :
          cache'[k] # NoStmt => stmts'[cache'[k]].sql = text'[k]
    BY <1>1, <1>2, <1>3, <1>4, <1>5, <2>1 DEF TextsOK
  <2> QED
    BY <1>1, <1>2, <1>3, <1>4, <2>2 DEF TextsOK, ExecutesRequestedText
<1> QED
  BY <1>6, <1>7, <1>10, <1>11, <1>12, <1>13

LEMMA NotPreparedStep ==
  ASSUME IInv, PrepareLocalError \/ \E o \in Outcomes : PrepareFailed(o)
  PROVE  IInv'
<1> USE DEF IInv, PrepareFailed, PrepareLocalError, NotPrepared, Return, ErrorMessage
<1>1. /\ pc = "prepare" /\ pc' \in {"prepare_reconnect", "idle"}
      /\ ret' \in {ret, "success", "error"}
      /\ stmt' = IF pc' = "idle" THEN NoStmt ELSE stmt
      /\ stmts' = IF pc' = "idle" THEN WithoutStmts({stmt}) ELSE stmts
      /\ UNCHANGED <<cache, allow_reconnects, text, call, attempts, prepare_attempts,
                     runs, answered, reconnects, uncached>>
  OBVIOUS
<1>2. /\ link' \in BOOLEAN /\ alive' \in BOOLEAN /\ (alive' => link')
      /\ errno' \in {"none", "lost", "other"} /\ silent' \in BOOLEAN
  BY ExchangeTyped DEF FailsLocally, handleVars, TypeOK
<1>3. stmt \in Stmts /\ stmt \notin Cached
  BY DEF LocalsOK, Preparing, StatementInUseIsOpen
<1>4. TypeOK'
  <2>1. stmts' \in [Stmts -> StmtRecords]
    BY <1>1, WithoutTyped DEF TypeOK
  <2> QED
    BY <1>1, <1>2, <2>1 DEF TypeOK, CallPcs
<1>5. LocalsOK'
  BY <1>1, <1>3 DEF LocalsOK, InCall, CallPcs, PreparedPcs, Preparing, Running
<1>6. CASE pc' = "prepare_reconnect"
  <2>1. TakesNoStatement
    BY <1>1, <1>6 DEF TakesNoStatement, PreparedPcs, Preparing, Running
  <2> QED
    BY <1>1, <1>4, <1>5, <1>6, <2>1, QuietStep
<1>7. CASE pc' = "idle"
  <2>1. Free.state = "free" /\ \A s \in Stmts : stmts'[s] = IF s = stmt THEN Free ELSE stmts[s]
    BY <1>1, <1>7 DEF WithoutStmts, Free
  <2>2. Cached' = Cached /\ Cached \subseteq Stmts
    BY <1>1 DEF Cached, TypeOK
  <2>3. Open' \subseteq Open \ {stmt}
    BY <2>1 DEF Open
  <2>4. CacheSound'
    BY <1>1, <1>3, <2>1, <2>2 DEF CacheSound
  <2>5. StatementInUseIsOpen' /\ OnlyUncachedLeak'
    BY <1>1, <1>7, <2>2, <2>3 DEF StatementInUseIsOpen, OnlyUncachedLeak
  <2>6. TextsOK'
    <3>1. \A k \in Keys : cache[k] # NoStmt => cache[k] \in Stmts \ {stmt}
      BY <1>3 DEF Cached, TypeOK
    <3> QED
      BY <1>1, <1>7, <2>1, <3>1 DEF TextsOK, ExecutesRequestedText, PreparedPcs
  <2> QED
    BY <1>4, <1>5, <2>4, <2>5, <2>6
<1> QED
  BY <1>1, <1>6, <1>7

LEMMA PrepareReconnectStep ==
  ASSUME IInv, NEW ok \in BOOLEAN, PrepareReconnect(ok)
  PROVE  IInv'
<1> USE DEF IInv
<1> DEFINE n == IF ok THEN prepare_attempts + 1 ELSE prepare_attempts
           again == ok /\ TriesLeft(n)
           also == IF again THEN {} ELSE {stmt}
<1>1. /\ pc = "prepare_reconnect" /\ reconnect(ok, also) /\ Retries
      /\ prepare_attempts' = n
      /\ pc' = IF again THEN "prepare" ELSE "idle"
      /\ ret' \in {ret, "success", "error"}
      /\ stmt' = IF again THEN stmt ELSE NoStmt
      /\ UNCHANGED <<allow_reconnects, text, call, attempts, runs, silent, uncached>>
  BY DEF PrepareReconnect, ClosedWith, Return, ErrorMessage
<1>2. /\ prepare_attempts \in 0..MaxReconnectAttempts
      /\ stmt \in Stmts /\ call.key \in Keys
  <2>1. stmt \in Stmts /\ call.key \in Keys /\ prepare_attempts <= MaxReconnectAttempts
    BY <1>1 DEF LocalsOK, Preparing, PreparedPcs
  <2>2. prepare_attempts \in 0..(MaxReconnectAttempts + 1)
    BY DEF TypeOK
  <2> QED
    BY <2>1, <2>2, ConnectionAssumption
<1>3. again => n <= MaxReconnectAttempts
  BY DEF TriesLeft
<1>4. n \in 0..(MaxReconnectAttempts + 1)
  BY <1>2, ConnectionAssumption
<1> HIDE DEF n, again
<1>5. also \in SUBSET Stmts
  BY <1>2
<1>6. /\ link' \in BOOLEAN /\ alive' \in BOOLEAN /\ (alive' => link')
      /\ errno' \in {"none", "lost", "other"}
      /\ cache' = NothingCached /\ stmts' \in [Stmts -> StmtRecords]
  BY <1>1, <1>5, ReconnectEffect
<1>7. TypeOK'
  <2>1. reconnects' \in Nat /\ answered' \in BOOLEAN
    BY <1>1, RetriesTyped
  <2>2. cache' \in [Keys -> Stmts \cup {NoStmt}]
    BY <1>6 DEF NothingCached
  <2> QED
    BY <1>1, <1>2, <1>4, <1>6, <2>1, <2>2 DEF TypeOK, CallPcs
<1>8. LocalsOK'
  BY <1>1, <1>2, <1>3, <1>6 DEF LocalsOK, InCall, CallPcs, PreparedPcs, Preparing, Running,
                                NothingCached
<1> QED
  BY <1>1, <1>5, <1>7, <1>8, ReconnectStep DEF PreparedPcs, Preparing, Running

\* Everything that happens to a statement once it is prepared, and the failure
\* to allocate one.
LEMMA RunStep ==
  ASSUME IInv,
         \/ NoHandle \/ WrongArguments \/ StmtLocalError
         \/ \E o \in Outcomes : StmtExecute(o) \/ StoreResult(o)
  PROVE  IInv'
<1> USE DEF IInv
<1>1. /\ link' \in BOOLEAN /\ alive' \in BOOLEAN /\ (alive' => link')
      /\ errno' \in {"none", "lost", "other"} /\ silent' \in BOOLEAN
  <2>1. CASE NoHandle
    BY <2>1 DEF NoHandle, TypeOK, history
  <2>2. CASE WrongArguments \/ StmtLocalError
    BY <2>2, FailsLocallyTyped DEF WrongArguments, StmtLocalError, handleVars, TypeOK
  <2>3. CASE \E o \in Outcomes : StmtExecute(o) \/ StoreResult(o)
    BY <2>3, ExchangeTyped, FetchTyped DEF StmtExecute, StoreResult, TypeOK
  <2> QED
    BY <2>1, <2>2, <2>3
<1>2. /\ pc \in PreparedPcs \ Preparing
      /\ pc' \in {"prepared_store", "prepared_reconnect", "idle"}
      /\ pc' \in Running => pc \in Running /\ stmt' = stmt
      /\ ret' \in {ret, "success", "error"} /\ stmt' \in {stmt, NoStmt}
      /\ UNCHANGED <<stmts, cache, allow_reconnects, text, call,
                     attempts, prepare_attempts, reconnects, uncached>>
  BY DEF NoHandle, WrongArguments, StmtLocalError, StmtExecute, StoreResult,
         StatementFailed, Return, ErrorMessage, notRun, history,
         PreparedPcs, Preparing, Running
<1>3. runs' \in Nat /\ answered' \in BOOLEAN
  <2>1. CASE \E o \in Outcomes : StmtExecute(o)
    BY <2>1, RunsTyped DEF StmtExecute
  <2>2. CASE runs' = runs /\ answered' \in {answered, FALSE}
    BY <2>2 DEF TypeOK
  <2> QED
    BY <2>1, <2>2 DEF NoHandle, WrongArguments, StmtLocalError, StoreResult, history
<1>4. TypeOK'
  BY <1>1, <1>2, <1>3 DEF TypeOK, CallPcs
<1>5. LocalsOK'
  BY <1>2 DEF LocalsOK, InCall, CallPcs, PreparedPcs, Preparing, Running
<1>6. TakesNoStatement
  BY <1>2 DEF TakesNoStatement, PreparedPcs, Preparing, Running
<1> QED
  BY <1>2, <1>4, <1>5, <1>6, QuietStep

-----------------------------------------------------------------------------
LEMMA NextIInv == IInv /\ [Next]_vars => IInv'
<1> SUFFICES ASSUME IInv, [Next]_vars PROVE IInv'
  OBVIOUS
<1>1. CASE CallStep
  BY <1>1, TextStep, OuterReconnectStep, CacheHitStep, CacheMissStep, StmtPreparedStep,
     NotPreparedStep, PrepareReconnectStep, RunStep
  DEF CallStep
<1>2. ASSUME NEW q \in Queries, execute(q) PROVE IInv'
  <2>1. Begin(TextCall(q), "text_query") /\ TextCall(q) \in Calls
    BY <1>2, TextCallTyped DEF execute
  <2> QED
    BY <2>1, BeginStep
<1>3. ASSUME NEW k \in Keys, NEW c \in BOOLEAN, NEW a \in BOOLEAN, prepared(k, c, a)
      PROVE  IInv'
  <2> DEFINE d == [op |-> "prepared", key |-> k, text |-> text[k],
                   do_cache |-> c, args_match |-> a]
  <2>1. Begin(d, "prepared_get")
    BY <1>3 DEF prepared
  <2>2. text[k] \in Queries
    BY DEF IInv, TypeOK
  <2>3. d \in Calls /\ d.key = k /\ d.text = text[k]
    BY <2>2 DEF Calls
  <2> HIDE DEF d
  <2> QED
    BY <2>1, <2>3, BeginStep
<1>4. CASE UserStep
  BY <1>2, <1>3, <1>4, ConstructStep, ConnectStep, SettingsStep, CloseStep, ReuseStep,
     DestroyStep
  DEF UserStep
<1>5. CASE ServerDrop \/ UNCHANGED vars
  BY <1>5, SettingsStep
<1> QED
  BY <1>1, <1>4, <1>5 DEF Next

THEOREM Invariance == Spec => []IInv
  BY InitIInv, NextIInv, PTL DEF Spec

\* Types, and the bounds of the two loop counters.
THEOREM Typing == Spec => []TypeOK
<1>1. IInv => TypeOK
  BY DEF IInv
<1> QED
  BY <1>1, Invariance, PTL

\* Every cached handle is prepared on the session in use and cached once.
THEOREM CacheIsSound == Spec => []CacheSound
<1>1. IInv => CacheSound
  BY DEF IInv
<1> QED
  BY <1>1, Invariance, PTL

\* No reconnect closes the handle that a call is preparing, running or reading.
THEOREM InUseIsOpen == Spec => []StatementInUseIsOpen
<1>1. IInv => StatementInUseIsOpen
  BY DEF IInv
<1> QED
  BY <1>1, Invariance, PTL

\* Only the handles of calls that do not cache are left open without an owner.
THEOREM LeaksAreUncached == Spec => []OnlyUncachedLeak
<1>1. IInv => OnlyUncachedLeak
  BY DEF IInv
<1> QED
  BY <1>1, Invariance, PTL

\* A prepared call runs the query it was given.
THEOREM RequestedTextRuns == Spec => []ExecutesRequestedText
<1>1. IInv => ExecutesRequestedText
  BY DEF IInv, TextsOK
<1> QED
  BY <1>1, Invariance, PTL

-----------------------------------------------------------------------------
(***************************************************************************)
(* The retry loops: how often a call reconnects, that none does when       *)
(* reconnects are off, and what a success without an answer means, for     *)
(* every number of attempts.                                               *)
(***************************************************************************)
TextPcs      == {"text_query", "text_store", "text_reconnect"}
ReconnectPcs == {"text_reconnect", "prepare_reconnect", "prepared_reconnect"}

-----------------------------------------------------------------------------
(***************************************************************************)
(* The kinds of steps, as far as the loops are concerned.                  *)
(***************************************************************************)
\* A step of a call that does not reconnect.
Advances ==
  /\ pc \in CallPcs /\ pc' # "prepared_get"
  /\ \/ pc' = "idle"
     \/ pc \in TextPcs /\ pc' \in TextPcs /\ ret' = ret
     \/ pc \in PreparedPcs /\ pc' \in PreparedPcs /\ ret' = ret
  /\ UNCHANGED <<allow_reconnects, call, attempts, reconnects>> /\ (alive' => alive)
  /\ pc' \in ReconnectPcs => allow_reconnects
  /\ pc' \in Preparing =>
       \/ pc \in Preparing /\ prepare_attempts' = prepare_attempts
       \/ pc = "prepared_get" /\ prepare_attempts' = 0
  /\ pc' \in Running \cup {"prepared_reconnect"} =>
       pc \in {"prepared_get", "prepare"} \cup Running

\* A turn of the loop of a query, and of the loop inside its preparation.
OuterTurn ==
  /\ pc \in {"text_reconnect", "prepared_reconnect"}
  /\ UNCHANGED <<allow_reconnects, call>> /\ reconnects' = reconnects + 1
  /\ \/ pc' = "idle"
     \/ /\ pc' = IF pc = "text_reconnect" THEN "text_query" ELSE "prepared_get"
        /\ attempts' = attempts + 1 /\ ret' = ret

InnerTurn ==
  /\ pc = "prepare_reconnect"
  /\ UNCHANGED <<allow_reconnects, call, attempts>> /\ reconnects' = reconnects + 1
  /\ \/ pc' = "idle"
     \/ pc' = "prepare" /\ prepare_attempts' = prepare_attempts + 1 /\ ret' = ret

Begins ==
  /\ pc = "idle" /\ ret' = "pending"
  /\ attempts' = 0 /\ reconnects' = 0 /\ runs' = 0 /\ silent' = FALSE
  /\ \/ pc' = "text_query" /\ call'.op = "execute"
     \/ pc' = "prepared_get" /\ call'.op = "prepared"

\* An operation that is no query, and a step of the server.
Outside ==
  /\ pc \notin CallPcs /\ pc' \in {"idle", "none"}
  /\ UNCHANGED <<call, ret, attempts, prepare_attempts, reconnects, answered, silent>>

Pauses ==
  /\ UNCHANGED <<pc, call, ret, allow_reconnects, attempts, prepare_attempts, reconnects>>
  /\ alive' => alive

-----------------------------------------------------------------------------
LEMMA ExchangeEnds ==
  ASSUME NEW o, Exchange(o)
  PROVE  (alive' => alive) /\ (o \in {"rejected", "lost", "lost_after"} => errno' # "none")
<1>1. alive' => alive
  BY Zenon DEF Exchange
<1>2. o \in {"rejected", "lost", "lost_after"} => errno' # "none"
  BY DEF Exchange
<1> QED
  BY <1>1, <1>2

LEMMA FetchEnds ==
  ASSUME NEW o, Fetch(o)
  PROVE  (alive' => alive) /\ (o = "ok" \/ errno' # "none")
<1>1. CASE o = "ok" /\ alive' = alive
  BY <1>1, Zenon
<1>2. CASE o \in {"rejected", "lost"} /\ Exchange(o)
  BY <1>2, ExchangeEnds
<1> QED
  BY <1>1, <1>2 DEF Fetch

LEMMA RetryAllowed == \A e : MayRetry(e) => allow_reconnects
  BY Zenon DEF MayRetry

\* The steps of a call that are no reconnect.
LEMMA AdvanceSteps ==
  ASSUME NEW o \in Outcomes,
         \/ TextQuery(o) \/ TextStore(o) \/ PrepareFailed(o) \/ StmtExecute(o)
         \/ StoreResult(o) \/ CacheHit \/ NoHandle \/ StmtPrepared \/ WrongArguments
         \/ PrepareLocalError \/ StmtLocalError \/ \E s \in Stmts : CacheMiss(s)
  PROVE  Advances
<1> USE ExchangeEnds, FetchEnds, RetryAllowed
    DEF Advances, TextPcs, PreparedPcs, CallPcs, Preparing, Running, ReconnectPcs, Return
<1>1. CASE TextQuery(o)
  BY <1>1 DEF TextQuery
<1>2. CASE TextStore(o)
  BY <1>2 DEF TextStore, history
<1>3. CASE PrepareFailed(o) \/ PrepareLocalError
  BY <1>3 DEF PrepareFailed, PrepareLocalError, NotPrepared, FailsLocally, handleVars
<1>4. CASE StmtExecute(o)
  BY <1>4 DEF StmtExecute, StatementFailed, notRun
<1>5. CASE StoreResult(o)
  BY <1>5 DEF StoreResult, StatementFailed, notRun
<1>6. CASE CacheHit
  BY <1>6 DEF CacheHit, handleVars, frameVars, history
<1>7. CASE NoHandle
  BY <1>7 DEF NoHandle, history
<1>8. CASE StmtPrepared
  BY <1>8 DEF StmtPrepared, frameVars
<1>9. CASE WrongArguments
  BY <1>9 DEF WrongArguments, handleVars, notRun
<1>10. CASE StmtLocalError
  BY <1>10 DEF StmtLocalError, FailsLocally, StatementFailed, handleVars, notRun
<1>11. CASE \E s \in Stmts : CacheMiss(s)
  BY <1>11 DEF CacheMiss, handleVars, history
<1> QED
  BY <1>1, <1>2, <1>3, <1>4, <1>5, <1>6, <1>7, <1>8, <1>9, <1>10, <1>11

LEMMA ReconnectTurns ==
  ASSUME NEW ok \in BOOLEAN,
         TextReconnect(ok) \/ PrepareReconnect(ok) \/ PreparedReconnect(ok)
  PROVE  OuterTurn \/ InnerTurn
<1> USE DEF OuterTurn, InnerTurn, Return, Retries
<1>1. CASE TextReconnect(ok)
  BY <1>1 DEF TextReconnect
<1>2. CASE PrepareReconnect(ok)
  BY <1>2 DEF PrepareReconnect
<1>3. CASE PreparedReconnect(ok)
  BY <1>3 DEF PreparedReconnect
<1> QED
  BY <1>1, <1>2, <1>3

LEMMA UserSteps ==
  ASSUME UserStep
  PROVE  Begins \/ Outside
<1>1. CASE \/ \E q \in Queries : execute(q)
           \/ \E k \in Keys : \E c, a \in BOOLEAN : prepared(k, c, a)
  BY <1>1 DEF execute, prepared, Begin, TextCall, Begins
<1>2. CASE \/ \E b \in BOOLEAN : Construct(b) \/ Connect(b) \/ set_allow_reconnects(b)
           \/ \E o \in Outcomes : ping(o)
           \/ \E k \in Keys : close_statement(k) \/ \E q \in Queries : ReuseBuffer(k, q)
           \/ Destroy
  BY <1>2 DEF Construct, Connect, set_allow_reconnects, ping, close_statement, ReuseBuffer,
              Destroy, NotOnHandle, callVars, frameVars, history, Outside, CallPcs
<1> QED
  BY <1>1, <1>2 DEF UserStep

LEMMA StepKinds ==
  ASSUME [Next]_vars
  PROVE  Advances \/ OuterTurn \/ InnerTurn \/ Begins \/ Outside \/ Pauses
<1>1. CASE CallStep
  <2>1. "ok" \in Outcomes
    BY DEF Outcomes
  <2> QED
    BY <1>1, <2>1, AdvanceSteps, ReconnectTurns DEF CallStep
<1>2. CASE UserStep
  BY <1>2, UserSteps
<1>3. CASE ServerDrop \/ UNCHANGED vars
  BY <1>3 DEF ServerDrop, vars, handleVars, callVars, frameVars, history, Pauses
<1> QED
  BY <1>1, <1>2, <1>3 DEF Next

-----------------------------------------------------------------------------
(***************************************************************************)
(* Nothing a query does opens a session while reconnects are off.          *)
(***************************************************************************)
\* What the program counter says of the kind of the call, of its result and of
\* the switch.
FlowOK ==
  /\ pc \in TextPcs => call.op = "execute"
  /\ pc \in PreparedPcs => call.op = "prepared"
  /\ InCall => ret = "pending"
  /\ pc \in ReconnectPcs => allow_reconnects

LEMMA NextFlow == FlowOK /\ [Next]_vars => FlowOK'
<1> SUFFICES ASSUME FlowOK, [Next]_vars PROVE FlowOK'
  OBVIOUS
<1> USE DEF FlowOK, InCall, CallPcs, TextPcs, PreparedPcs, ReconnectPcs
<1>1. CASE Advances
  BY <1>1 DEF Advances
<1>2. CASE OuterTurn \/ InnerTurn
  BY <1>2 DEF OuterTurn, InnerTurn
<1>3. CASE Begins \/ Outside \/ Pauses
  BY <1>3 DEF Begins, Outside, Pauses
<1> QED
  BY <1>1, <1>2, <1>3, StepKinds

LEMMA Flow == Spec => []FlowOK
<1>1. Init => FlowOK
  BY DEF Init, FlowOK, InCall, CallPcs, TextPcs, PreparedPcs, ReconnectPcs
<1> QED
  BY <1>1, NextFlow, PTL DEF Spec

\* With reconnects off, no step of a call opens a session.
THEOREM DisallowedMeansNever == Spec => NoReconnectWhenDisallowed
<1>1. FlowOK /\ [Next]_vars =>
        [InCall /\ ~allow_reconnects => (alive' => alive) /\ reconnects' = reconnects]_vars
  <2> SUFFICES ASSUME FlowOK, [Next]_vars, InCall, ~allow_reconnects
               PROVE  (alive' => alive) /\ reconnects' = reconnects
    OBVIOUS
  <2>1. ~OuterTurn /\ ~InnerTurn
    BY DEF FlowOK, ReconnectPcs, OuterTurn, InnerTurn
  <2>2. ~Begins /\ ~Outside
    BY DEF InCall, CallPcs, Begins, Outside
  <2> QED
    BY <2>1, <2>2, StepKinds DEF Advances, Pauses
<1> QED
  BY <1>1, Flow, PTL DEF Spec, NoReconnectWhenDisallowed

-----------------------------------------------------------------------------
(***************************************************************************)
(* The number of sessions one call may open.                               *)
(***************************************************************************)
\* What n turns of the outer loop of a prepared call may reconnect.
Turns(n) == n * (MaxReconnectAttempts + 1)

\* The count of reconnects against the counters of the two loops.
CountOK ==
  /\ pc \in TextPcs => reconnects <= attempts
  /\ pc = "prepared_get" => reconnects <= Turns(attempts)
  /\ pc \in Preparing => reconnects <= Turns(attempts) + prepare_attempts
  /\ pc \in Running \cup {"prepared_reconnect"}
       => reconnects <= Turns(attempts) + MaxReconnectAttempts
  /\ ReconnectsBounded

LEMMA TurnsFacts ==
  /\ Turns(0) = 0
  /\ \A n \in Nat : Turns(n) \in Nat /\ Turns(n + 1) = Turns(n) + MaxReconnectAttempts + 1
  /\ \A n \in 0..MaxReconnectAttempts :
       Turns(n) + MaxReconnectAttempts + 1
         <= (MaxReconnectAttempts + 1) * (MaxReconnectAttempts + 1)
<1> DEFINE M == MaxReconnectAttempts + 1
<1>1. M \in Nat /\ Turns(0) = 0 * M
  BY ConnectionAssumption DEF Turns
<1>2. \A n \in Nat : Turns(n) = n * M /\ n * M \in Nat /\ (n + 1) * M = n * M + M
  BY <1>1 DEF Turns
<1>3. ASSUME NEW n \in 0..MaxReconnectAttempts
      PROVE  (n + 1) * M <= M * M
  <2>1. n \in Nat /\ M - (n + 1) \in Nat
    BY ConnectionAssumption
  <2> DEFINE d == M - (n + 1)
  <2>2. d * M \in Nat /\ M * M = (n + 1) * M + d * M
    BY <1>1, <2>1
  <2>3. (n + 1) * M \in Nat
    BY <1>1, <2>1
  <2> QED
    BY <2>2, <2>3
<1> HIDE DEF M
<1>4. ASSUME NEW n \in Nat
      PROVE  Turns(n) \in Nat /\ Turns(n + 1) = Turns(n) + M
  <2>1. n + 1 \in Nat
    OBVIOUS
  <2> QED
    BY <1>2, <2>1
<1>5. ASSUME NEW n \in 0..MaxReconnectAttempts
      PROVE  Turns(n) + M <= M * M
  <2>1. n \in Nat
    BY ConnectionAssumption
  <2> QED
    BY <1>2, <1>3, <2>1
<1>6. Turns(0) = 0
  BY <1>1
<1>7. \A x \in Nat : x + M = x + MaxReconnectAttempts + 1
  BY ConnectionAssumption DEF M
<1>8. \A n \in 0..MaxReconnectAttempts :
        Turns(n) + MaxReconnectAttempts + 1
          <= (MaxReconnectAttempts + 1) * (MaxReconnectAttempts + 1)
  <2>1. \A n \in 0..MaxReconnectAttempts : n \in Nat
    BY ConnectionAssumption
  <2> QED
    BY <1>4, <1>5, <1>7, <2>1 DEF M
<1> QED
  BY <1>4, <1>6, <1>7, <1>8

LEMMA NextCount == IInv /\ IInv' /\ FlowOK /\ CountOK /\ [Next]_vars => CountOK'
<1> SUFFICES ASSUME IInv, IInv', FlowOK, CountOK, [Next]_vars PROVE CountOK'
  OBVIOUS
<1>1. /\ attempts \in Nat /\ prepare_attempts \in Nat /\ reconnects \in Nat
      /\ attempts' \in Nat /\ prepare_attempts' \in Nat /\ reconnects' \in Nat
      /\ MaxReconnectAttempts \in Nat
  BY ConnectionAssumption DEF IInv, TypeOK
<1>2. /\ pc \in CallPcs => attempts <= MaxReconnectAttempts
      /\ pc \in Preparing => prepare_attempts <= MaxReconnectAttempts
  BY DEF IInv, LocalsOK, InCall
<1> DEFINE Sq == (MaxReconnectAttempts + 1) * (MaxReconnectAttempts + 1)
<1>3. /\ Sq \in Nat /\ MaxReconnectAttempts + 1 <= Sq
      /\ \A n \in 0..MaxReconnectAttempts : Turns(n) + MaxReconnectAttempts + 1 <= Sq
      /\ \A n \in Nat : Turns(n) \in Nat /\ Turns(n + 1) = Turns(n) + MaxReconnectAttempts + 1
      /\ Turns(0) = 0
  BY <1>1, TurnsFacts
<1>4. ReconnectsBounded <=>
        reconnects <= IF call.op = "execute" THEN MaxReconnectAttempts + 1 ELSE Sq
  BY DEF ReconnectsBounded
<1>5. ReconnectsBounded' <=>
        reconnects' <= IF call'.op = "execute" THEN MaxReconnectAttempts + 1 ELSE Sq
  BY DEF ReconnectsBounded
<1> HIDE DEF Sq
<1> USE <1>1, <1>2, <1>3, <1>4, <1>5
    DEF CountOK, TextPcs, PreparedPcs, CallPcs, Preparing, Running
<1>6. CASE Advances
  BY <1>6 DEF Advances
<1>7. CASE OuterTurn
  BY <1>7 DEF OuterTurn, FlowOK
<1>8. CASE InnerTurn
  BY <1>8 DEF InnerTurn, FlowOK
<1>9. CASE Begins
  BY <1>9 DEF Begins
<1>10. CASE Outside \/ Pauses
  BY <1>10 DEF Outside, Pauses
<1> QED
  BY <1>6, <1>7, <1>8, <1>9, <1>10, StepKinds

\* One call reconnects at most once per turn of its loop, and a prepared call
\* at most once per turn of the two.
THEOREM ReconnectsAreBounded == Spec => []ReconnectsBounded
<1>1. Init => CountOK
  <2> SUFFICES ASSUME Init PROVE CountOK
    OBVIOUS
  <2>1. 0 <= (MaxReconnectAttempts + 1) * (MaxReconnectAttempts + 1)
        /\ 0 <= MaxReconnectAttempts + 1
    BY ConnectionAssumption
  <2> QED
    BY <2>1 DEF Init, CountOK, ReconnectsBounded, TextPcs, Preparing, Running
<1>2. CountOK => ReconnectsBounded
  BY DEF CountOK
<1> QED
  BY <1>1, <1>2, NextCount, Invariance, Flow, PTL DEF Spec

-----------------------------------------------------------------------------
(***************************************************************************)
(* What a success without an answer means.                                 *)
(***************************************************************************)
AnswersOK ==
  /\ pc \in {"text_store", "prepared_store"} => answered
  /\ UnansweredOnlyWhenExhausted

LEMMA AnswerSteps ==
  ASSUME TypeOK, FlowOK, AnswersOK, NEW o \in Outcomes,
         \/ TextQuery(o) \/ TextStore(o) \/ PrepareFailed(o) \/ StmtExecute(o)
         \/ StoreResult(o) \/ CacheHit \/ NoHandle \/ StmtPrepared \/ WrongArguments
         \/ PrepareLocalError \/ StmtLocalError \/ \E s \in Stmts : CacheMiss(s)
  PROVE  AnswersOK'
<1> USE ExchangeEnds, FetchEnds, FailsLocallyTyped
    DEF AnswersOK, UnansweredOnlyWhenExhausted, Return, ErrorMessage,
        FlowOK, InCall, CallPcs, Outcomes
<1>1. CASE TextQuery(o)
  BY <1>1 DEF TextQuery, Runs
<1>2. CASE TextStore(o)
  BY <1>2 DEF TextStore, history
<1>3. CASE PrepareFailed(o) \/ PrepareLocalError
  BY <1>3 DEF PrepareFailed, PrepareLocalError, NotPrepared
<1>4. CASE StmtExecute(o)
  BY <1>4 DEF StmtExecute, StatementFailed, notRun, Runs
<1>5. CASE StoreResult(o)
  BY <1>5 DEF StoreResult, StatementFailed, notRun
<1>6. CASE CacheHit \/ StmtPrepared
  BY <1>6 DEF CacheHit, StmtPrepared, frameVars, history
<1>7. CASE NoHandle \/ WrongArguments
  BY <1>7 DEF NoHandle, WrongArguments, history
<1>8. CASE StmtLocalError
  BY <1>8 DEF StmtLocalError, StatementFailed
<1>9. CASE \E s \in Stmts : CacheMiss(s)
  BY <1>9 DEF CacheMiss, history
<1> QED
  BY <1>1, <1>2, <1>3, <1>4, <1>5, <1>6, <1>7, <1>8, <1>9

\* A reconnect that fails sets an error, and one that succeeds ends its loop
\* only past the last attempt.
LEMMA AnswerTurns ==
  ASSUME IInv, FlowOK, AnswersOK, NEW ok \in BOOLEAN,
         TextReconnect(ok) \/ PrepareReconnect(ok) \/ PreparedReconnect(ok)
  PROVE  AnswersOK'
<1>1. \A also : reconnect(ok, also) /\ ~ok => errno' # "none"
  BY DEF reconnect
<1>2. /\ attempts \in Nat /\ prepare_attempts \in Nat /\ MaxReconnectAttempts \in Nat
      /\ \A n \in Nat : ~TriesLeft(n) => n > MaxReconnectAttempts
  BY ConnectionAssumption DEF IInv, TypeOK, TriesLeft
<1> USE <1>1, <1>2
    DEF AnswersOK, UnansweredOnlyWhenExhausted, Return, ErrorMessage, FlowOK, InCall, CallPcs
<1>3. CASE TextReconnect(ok)
  BY <1>3 DEF TextReconnect
<1>4. CASE PrepareReconnect(ok)
  BY <1>4 DEF PrepareReconnect
<1>5. CASE PreparedReconnect(ok)
  BY <1>5 DEF PreparedReconnect
<1> QED
  BY <1>3, <1>4, <1>5

LEMMA NextAnswers ==
  ASSUME IInv, FlowOK, AnswersOK, [Next]_vars
  PROVE  AnswersOK'
<1>1. CASE CallStep
  <2>1. "ok" \in Outcomes
    BY DEF Outcomes
  <2> QED
    BY <1>1, <2>1, AnswerSteps, AnswerTurns DEF CallStep, IInv
<1> USE DEF AnswersOK, UnansweredOnlyWhenExhausted
<1>2. CASE UserStep
  <2>1. CASE Begins
    BY <2>1 DEF Begins
  <2>2. CASE Outside
    BY <2>2 DEF Outside
  <2> QED
    BY <1>2, <2>1, <2>2, UserSteps
<1>3. CASE ServerDrop \/ UNCHANGED vars
  BY <1>3 DEF ServerDrop, vars, callVars, frameVars, history
<1> QED
  BY <1>1, <1>2, <1>3 DEF Next

\* A success without an answer has used up the attempts of a loop, or ended with
\* a failure that the client library set on the statement alone.
THEOREM OnlyExhaustionIsSilent == Spec => []UnansweredOnlyWhenExhausted
<1>1. Init => AnswersOK
  BY DEF Init, AnswersOK, UnansweredOnlyWhenExhausted
<1>2. IInv /\ FlowOK /\ AnswersOK /\ [Next]_vars => AnswersOK'
  BY NextAnswers
<1>3. AnswersOK => UnansweredOnlyWhenExhausted
  BY DEF AnswersOK
<1> QED
  BY <1>1, <1>2, <1>3, Invariance, Flow, PTL DEF Spec
-----------------------------------------------------------------------------
(***************************************************************************)
(* The connection implements QueryCall: every step of a call is a run of   *)
(* its query, its return, or nothing its caller can tell.                  *)
(***************************************************************************)
\* How often the query of the call has run, against the turns of its loop;
\* without reconnects there is one turn only.  A failure the handle does not
\* know of ends the call.
RunsOK ==
  /\ InCall => ~silent
  /\ InCall => runs <= attempts + 1
  /\ pc \in {"text_query", "prepared_get", "prepare", "prepare_reconnect", "prepared_run"}
       => runs <= attempts
  /\ pc \in {"text_store", "prepared_store"} => runs # 0
  /\ InCall /\ ~allow_reconnects => attempts = 0

CallInv == IInv /\ FlowOK /\ AnswersOK /\ RunsOK

-----------------------------------------------------------------------------
\* What one step of a call does to the count, and when the call may end.
Counts ==
  /\ pc \in CallPcs /\ pc' \in CallPcs \cup {"idle"}
  /\ allow_reconnects' = allow_reconnects
  /\ \/ runs' = runs
     \/ pc \in {"text_query", "prepared_run"} /\ runs' = runs + 1
  /\ IF pc' = "idle" THEN ret' \in {"success", "error"} /\ silent' \in BOOLEAN
                      ELSE UNCHANGED <<ret, silent>>
  /\ ret' = "success" /\ ~allow_reconnects /\ ~silent'
       => pc \in {"text_store", "prepared_store"} /\ runs' = runs
  /\ RunsOK'

LEMMA CountSteps ==
  ASSUME CallInv, NEW o \in Outcomes,
         \/ TextQuery(o) \/ TextStore(o) \/ PrepareFailed(o) \/ StmtExecute(o)
         \/ StoreResult(o) \/ CacheHit \/ NoHandle \/ StmtPrepared \/ WrongArguments
         \/ PrepareLocalError \/ StmtLocalError \/ \E s \in Stmts : CacheMiss(s)
  PROVE  Counts
<1>1. /\ runs \in Nat /\ attempts \in Nat /\ silent \in BOOLEAN
      /\ InCall => ret = "pending"
  BY DEF CallInv, IInv, TypeOK, FlowOK
<1> USE <1>1, ExchangeEnds, FetchEnds
    DEF CallInv, Counts, RunsOK, Return, ErrorMessage, InCall, CallPcs, Outcomes
<1>2. CASE TextQuery(o)
  BY <1>2 DEF TextQuery, Runs, Ran
<1>3. CASE TextStore(o)
  BY <1>3 DEF TextStore, history
<1>4. CASE PrepareFailed(o) \/ PrepareLocalError
  BY <1>4, FailsLocallyTyped DEF PrepareFailed, PrepareLocalError, NotPrepared, MayRetry,
                                 is_connection_lost, IInv
<1>5. CASE StmtExecute(o)
  BY <1>5 DEF StmtExecute, StatementFailed, notRun, Runs, Ran
<1>6. CASE StoreResult(o)
  BY <1>6 DEF StoreResult, StatementFailed, notRun
<1>7. CASE CacheHit \/ StmtPrepared
  BY <1>7 DEF CacheHit, StmtPrepared, frameVars, history
<1>8. CASE NoHandle \/ WrongArguments
  BY <1>8 DEF NoHandle, WrongArguments, notRun, history
<1>9. CASE StmtLocalError
  BY <1>9, FailsLocallyTyped DEF StmtLocalError, StatementFailed, MayRetry,
                                 is_connection_lost, notRun, IInv
<1>10. CASE \E s \in Stmts : CacheMiss(s)
  BY <1>10 DEF CacheMiss, history
<1> QED
  BY <1>2, <1>3, <1>4, <1>5, <1>6, <1>7, <1>8, <1>9, <1>10

LEMMA CountTurns ==
  ASSUME CallInv, NEW ok \in BOOLEAN,
         TextReconnect(ok) \/ PrepareReconnect(ok) \/ PreparedReconnect(ok)
  PROVE  Counts
<1>1. /\ runs \in Nat /\ attempts \in Nat /\ silent \in BOOLEAN
      /\ InCall => ret = "pending"
      /\ pc \in ReconnectPcs => allow_reconnects
  BY DEF CallInv, IInv, TypeOK, FlowOK
<1> USE <1>1
    DEF CallInv, Counts, RunsOK, Return, ErrorMessage, InCall, CallPcs, ReconnectPcs
<1>2. CASE TextReconnect(ok)
  BY <1>2 DEF TextReconnect
<1>3. CASE PrepareReconnect(ok)
  BY <1>3 DEF PrepareReconnect
<1>4. CASE PreparedReconnect(ok)
  BY <1>4 DEF PreparedReconnect
<1> QED
  BY <1>2, <1>3, <1>4

LEMMA NextRuns ==
  ASSUME CallInv, [Next]_vars
  PROVE  RunsOK'
<1>1. CASE CallStep
  <2>1. "ok" \in Outcomes
    BY DEF Outcomes
  <2> QED
    BY <1>1, <2>1, CountSteps, CountTurns DEF CallStep, Counts
<1>2. CASE UserStep
  <2>1. CASE Begins
    <3>1. ~silent'
      BY <2>1, Zenon DEF Begins
    <3> QED
      BY <2>1, <3>1 DEF RunsOK, Begins
  <2>2. CASE Outside
    BY <2>2 DEF RunsOK, Outside, InCall, CallPcs
  <2> QED
    BY <1>2, <2>1, <2>2, UserSteps
<1>3. CASE ServerDrop \/ UNCHANGED vars
  <2>1. UNCHANGED <<pc, attempts, runs, silent, allow_reconnects>>
    BY <1>3 DEF ServerDrop, vars, callVars, frameVars, history
  <2> QED
    BY <2>1 DEF CallInv, RunsOK, InCall
<1> QED
  BY <1>1, <1>2, <1>3 DEF Next

-----------------------------------------------------------------------------
\* A step of a call is a step of the contract.
LEMMA CallRefines ==
  ASSUME CallInv, Counts
  PROVE  [Contract!Next]_Contract!vars
<1>1. runs \in Nat /\ attempts \in Nat /\ MaxReconnectAttempts \in Nat
  BY ConnectionAssumption DEF CallInv, IInv, TypeOK
<1>2. pc \in CallPcs /\ attempts <= MaxReconnectAttempts
  BY DEF Counts, CallInv, IInv, LocalsOK, InCall
<1> USE <1>1, <1>2 DEF Counts, CallInv, RunsOK, InCall, CallPcs
<1>3. CASE pc' # "idle" /\ runs' = runs
  BY <1>3 DEF Contract!vars
<1>4. CASE pc' # "idle" /\ runs' # runs
  BY <1>4 DEF Contract!Next, Contract!Run, Contract!Limit
<1>5. CASE pc' = "idle"
  BY <1>5 DEF Contract!Next, Contract!Return, Contract!Limit
<1> QED
  BY <1>3, <1>4, <1>5

LEMMA UserRefines ==
  ASSUME CallInv, UserStep \/ ServerDrop \/ UNCHANGED vars
  PROVE  [Contract!Next]_Contract!vars
<1> USE DEF InCall, CallPcs
<1>1. CASE \/ \E q \in Queries : execute(q)
           \/ \E k \in Keys : \E c, a \in BOOLEAN : prepared(k, c, a)
  BY <1>1 DEF execute, prepared, Begin, Contract!Next, Contract!Begin
<1>2. CASE \E b \in BOOLEAN : Construct(b) \/ set_allow_reconnects(b)
  BY <1>2 DEF Construct, set_allow_reconnects, NotOnHandle, history, Contract!Next,
              Contract!SetAllow
<1>3. CASE \/ \E b \in BOOLEAN : Connect(b)
           \/ \E o \in Outcomes : ping(o)
           \/ \E k \in Keys : close_statement(k) \/ \E q \in Queries : ReuseBuffer(k, q)
           \/ Destroy
  BY <1>3 DEF Connect, ping, close_statement, ReuseBuffer, Destroy, NotOnHandle,
              callVars, frameVars, history, Contract!vars
<1>4. CASE ServerDrop \/ UNCHANGED vars
  BY <1>4 DEF ServerDrop, vars, callVars, frameVars, history, Contract!vars
<1> QED
  BY <1>1, <1>2, <1>3, <1>4 DEF UserStep

\* A query runs at most once per allowed attempt, at most once without
\* reconnects, and a success without them means that it ran exactly once, unless
\* the call ended with a failure set on the statement alone.
THEOREM ContractIsMet == Spec => MeetsContract
<1>1. Init => RunsOK /\ AnswersOK /\ Contract!Init
  BY DEF Init, RunsOK, AnswersOK, UnansweredOnlyWhenExhausted, InCall, CallPcs,
         Contract!Init
<1>2. IInv /\ FlowOK /\ AnswersOK /\ RunsOK /\ [Next]_vars
        => AnswersOK' /\ RunsOK' /\ [Contract!Next]_Contract!vars
  <2> SUFFICES ASSUME CallInv, [Next]_vars
               PROVE  AnswersOK' /\ RunsOK' /\ [Contract!Next]_Contract!vars
    BY DEF CallInv
  <2>1. AnswersOK' /\ RunsOK'
    BY NextAnswers, NextRuns DEF CallInv
  <2>2. CASE CallStep
    <3>1. "ok" \in Outcomes
      BY DEF Outcomes
    <3>2. Counts
      BY <2>2, <3>1, CountSteps, CountTurns DEF CallStep
    <3> QED
      BY <2>1, <3>2, CallRefines
  <2> QED
    BY <2>1, <2>2, UserRefines DEF Next
<1> QED
  BY <1>1, <1>2, Invariance, Flow, PTL DEF Spec, MeetsContract, Contract!Spec
=============================================================================
