--------------------------- MODULE SessionProofs ---------------------------
(***************************************************************************)
(* What the functions of a session return and leave behind, for every set  *)
(* of queries and databases and every number of attempts.                  *)
(***************************************************************************)
EXTENDS Session, ConnectionProofs

\* The last statement of the function in progress has returned.
Ended == pc = "idle" /\ fn # "none" /\ ~(fn = "commit" /\ at = 1)

\* Where each function is, and the statement it has sent.
ScriptOK ==
  /\ pc \in TextPcs \cup {"none", "idle"}
  /\ fn \in {"none", "undefined"} => pc \notin TextPcs
  /\ fn # "none" => pc # "none"
  /\ fn \notin {"none", "undefined"} => last = fn
  /\ fn = "start" => promised = {}
  /\ fn = "start" => \/ at = 1 /\ call.text = set_autocommit_0
                     \/ at = 2 /\ call.text = start_query
                     \/ at = 3 /\ call.text = set_autocommit_1
  /\ fn = "commit" => \/ at = 1 /\ pc = "idle"
                      \/ at = 2 /\ call.text = set_autocommit_1
  /\ fn = "rollback" => \/ at = 1 /\ call.text = rollback_query
                        \/ at = 2 /\ call.text = set_autocommit_1
  /\ fn = "use" => call.text \in UseQueries
  /\ fn = "timeout" => call.text = timeout_query
  /\ fn = "write" => call.text \in Writes \cap issued

\* What a call says of its result, and of the session.
ReplyOK ==
  /\ pc \in TextPcs => ret = "pending"
  /\ pc = "text_store" => answered
  /\ pc = "text_reconnect" => ~alive /\ allow_reconnects
  /\ pc = "none" => ~alive
  /\ ~alive => session = NoSession /\ replaced
  /\ Ended => /\ ret \in {"success", "error"}
              /\ ret = "error" => errno # "none"
              /\ ret = "success" /\ ~answered => allow_reconnects
              /\ fn = "undefined" => ret = "error"
  /\ session.pending \subseteq issued

Sessions == [autocommit : BOOLEAN, in_tx : BOOLEAN, pending : SUBSET Writes,
             db : Databases \cup {NoDatabase}]

BaseInv == IInv /\ SessionTypeOK /\ ScriptOK /\ ReplyOK

-----------------------------------------------------------------------------
(***************************************************************************)
(* What leads to each of the properties.  "~replaced" says that one        *)
(* session has served everything since start_transaction.                  *)
(***************************************************************************)
AutocommitInv ==
  /\ pc = "text_store" /\ call.text = set_autocommit_1 => session.autocommit
  /\ Ended /\ fn \in {"commit", "rollback"} /\ at = 2 => session.autocommit \/ ret = "error"
  /\ AutocommitRestored

StartInv ==
  /\ /\ fn = "start" /\ at \in {1, 2} /\ ~replaced
     /\ pc = "text_query" \/ (pc = "idle" /\ ret # "success")
     => ~began
  /\ StartReportsTheOpposite

\* The write that is on its way, or has just been answered.
WriteDone == fn = "write" /\ (pc = "text_store" \/ (pc = "idle" /\ ret = "success"))

CommitInv ==
  ~replaced =>
    /\ last \notin {"commit", "rollback"} => promised \subseteq committed \cup session.pending
    /\ last = "commit" /\ ~fret => promised \subseteq committed
    /\ WriteDone => call.text \in committed \cup session.pending

\* The transaction is open from the statement that began it to the run of
\* ROLLBACK; what it has written is pending, and gone afterwards.
OpenInv ==
  began /\ ~replaced /\ last \notin {"commit", "rollback"}
    => session.in_tx \/ ~session.autocommit

NonePersists == \A w \in promised : w \notin committed
UndoneInv ==
  /\ began /\ ~replaced
  /\ \/ last \notin {"commit", "rollback"}
     \/ last = "rollback" /\ (fret \/ (fn = last /\ at = 1))
  => NonePersists
WriteInv == began /\ ~replaced /\ fn = "write" => call.text \notin committed
PendingInv ==
  /\ began /\ ~replaced /\ fn = "rollback"
  /\ \/ at = 1 /\ (pc = "text_store" \/ (pc = "idle" /\ ret = "success"))
     \/ at = 2 /\ fret
  => session.pending = {}
RollbackInv == UndoneInv /\ WriteInv /\ PendingInv

DatabaseInv ==
  /\ alive /\ ~doubt /\ ~(fn = "use" /\ pc \in {"text_store", "idle"}) => session.db = db
  /\ alive /\ fn = "use" /\ pc \in {"text_store", "idle"} =>
       /\ pc = "text_store" \/ (ret = "success" /\ answered) => session.db = DatabaseOf(call.text)
       /\ ret = "error" /\ ~doubt => session.db = db

-----------------------------------------------------------------------------
(***************************************************************************)
(* The steps of a statement on its way, as the session sees them.          *)
(***************************************************************************)
OnTheWay == UNCHANGED <<fn, at, fret, db, last, issued, promised, allow_reconnects, call>>

Answered ==
  /\ pc = "text_query" /\ pc' = "text_store" /\ ret' = ret /\ answered' /\ alive /\ alive'
  /\ session' = SessionAfter(call.text) /\ committed' = DurableAfter(call.text)
  /\ began' = IF fn = "start" THEN call.text # set_autocommit_1 ELSE began
  /\ UNCHANGED <<replaced, doubt>>

\* Refused, or lost with the session.
Fails ==
  /\ pc \in {"text_query", "text_store"} /\ (pc = "text_store" => call.text \in RowQueries)
  /\ errno' # "none" /\ doubt' = doubt
  /\ \/ pc' = "idle" /\ ret' = "error"
     \/ pc' = "text_reconnect" /\ ret' = ret /\ ~alive' /\ allow_reconnects
  /\ \/ alive /\ alive' /\ UNCHANGED <<session, committed, began, replaced>>
     \/ /\ ~alive' /\ session' = NoSession /\ replaced'
        /\ committed' \in {committed, DurableAfter(call.text)} /\ began' \in BOOLEAN

Stored ==
  /\ pc = "text_store" /\ pc' = "idle" /\ ret' = "success"
  /\ UNCHANGED <<alive, answered, session, committed, began, replaced, doubt>>

Reconnected ==
  /\ pc = "text_reconnect" /\ UNCHANGED <<committed, began>> /\ replaced' /\ ~answered'
  /\ \/ /\ alive' /\ session' = Fresh(db) /\ ~doubt'
        /\ \/ pc' = "text_query" /\ ret' = ret
           \/ pc' = "idle" /\ ret' = "success"
        /\ allow_reconnects
     \/ /\ ~alive' /\ session' = NoSession /\ doubt' = doubt
        /\ pc' = "idle" /\ ret' = "error" /\ errno' # "none"

\* A step that leaves the count alone has run no query.
LEMMA RunsNotTwice == BaseInv => (runs' = runs => ~RanNow)
<1>1. BaseInv => runs \in Nat
  BY DEF BaseInv, IInv, TypeOK
<1> QED
  BY <1>1 DEF RanNow

\* What each outcome of a trip leaves of the session and of the error code.
LEMMA ExchangeCases ==
  ASSUME alive \in BOOLEAN, NEW o \in Outcomes, Exchange(o)
  PROVE  /\ o = "ok" => alive /\ alive' /\ errno' = "none"
         /\ o = "rejected" => alive /\ alive' /\ errno' = "other"
         /\ o \in {"lost", "lost_after"} => ~alive' /\ errno' = "lost"
<1>1. /\ o # "lost" => alive
      /\ alive' = (alive /\ o \in {"ok", "rejected"})
  BY Zenon DEF Exchange
<1>2. errno' = CASE o = "ok" -> "none" [] o = "rejected" -> "other" [] OTHER -> "lost"
  BY Zenon DEF Exchange
<1>3. alive' <=> alive /\ o \in {"ok", "rejected"}
  BY <1>1, Zenon
<1>4. /\ o = "ok" => errno' = "none"
      /\ o = "rejected" => errno' = "other"
      /\ o \in {"lost", "lost_after"} => errno' = "lost"
  BY <1>2
<1> QED
  BY <1>1, <1>3, <1>4 DEF Outcomes

\* A step inside a call is of one of the four kinds above.
LEMMA ProceedKinds ==
  ASSUME BaseInv, Proceed
  PROVE  OnTheWay /\ (Answered \/ Fails \/ Stored \/ Reconnected)
<1>1. /\ runs \in Nat /\ alive \in BOOLEAN /\ (alive => link) /\ doubt \in BOOLEAN
      /\ replaced \in BOOLEAN /\ began \in BOOLEAN
  BY DEF BaseInv, IInv, TypeOK, SessionTypeOK
<1>2. /\ ScriptOK /\ ReplyOK
  BY DEF BaseInv
<1>3. pc \in {"text_query", "text_store", "text_reconnect", "idle", "none"}
  BY <1>2 DEF ScriptOK, TextPcs
<1>4. /\ CallStep /\ UNCHANGED <<fn, at, fret, db, last, issued, promised>>
      /\ began' = IF RanNow /\ fn = "start" THEN call.text # set_autocommit_1 ELSE began
      /\ doubt' = (doubt /\ ~(alive' /\ ~alive))
      /\ session' = IF ~alive' THEN NoSession
                    ELSE IF alive THEN (IF RanNow THEN SessionAfter(call.text) ELSE session)
                    ELSE Fresh(db)
      /\ replaced' = (replaced \/ ~alive')
      /\ committed' = IF RanNow THEN DurableAfter(call.text) ELSE committed
  BY DEF Proceed, scriptVars, Server, SessionBecomes
<1>5. \/ \E o \in Outcomes : TextQuery(o) \/ TextStore(o)
      \/ \E ok \in BOOLEAN : TextReconnect(ok)
  BY <1>3, <1>4 DEF CallStep, PrepareFailed, StmtExecute, StoreResult, PrepareReconnect,
     PreparedReconnect, CacheMiss, CacheHit, NoHandle, StmtPrepared, WrongArguments,
     PrepareLocalError, StmtLocalError
<1>6. ASSUME NEW o \in Outcomes, TextQuery(o)
      PROVE  OnTheWay /\ (Answered \/ Fails)
  <2>1. /\ pc = "text_query" /\ Exchange(o) /\ runs' = runs + Ran(o)
        /\ UNCHANGED <<allow_reconnects, call>>
        /\ o = "ok" => pc' = "text_store" /\ ret' = ret
        /\ o # "ok" => \/ MayRetry(errno') /\ pc' = "text_reconnect" /\ ret' = ret
                       \/ pc' = "idle" /\ ret' = ErrorMessage
    <3>1. /\ pc = "text_query" /\ Exchange(o) /\ runs' = runs + Ran(o)
          /\ UNCHANGED <<allow_reconnects, call>>
      BY <1>6, Zenon DEF TextQuery, Runs
    <3>2. (CASE o = "ok"         -> pc' = "text_store" /\ UNCHANGED <<ret, stmt>>
             [] MayRetry(errno') -> pc' = "text_reconnect" /\ UNCHANGED <<ret, stmt>>
             [] OTHER            -> Return(ErrorMessage))
      BY <1>6, Zenon DEF TextQuery
    <3>3. CASE o = "ok"
      <4>1. ~MayRetry(errno')
        BY <3>1, <3>3, <1>1, ExchangeCases DEF MayRetry, is_connection_lost
      <4> QED
        BY <3>1, <3>2, <3>3, <4>1
    <3>4. CASE o # "ok"
      BY <3>1, <3>2, <3>4 DEF Return
    <3> QED
      BY <3>3, <3>4
  <2>2. OnTheWay
    BY <1>4, <2>1 DEF OnTheWay
  <2>3. CASE o = "ok"
    <3>1. RanNow /\ alive /\ alive'
      BY <1>1, <2>1, <2>3, ExchangeCases DEF RanNow, Ran
    <3>2. answered'
      BY <1>6, <2>3, Zenon DEF TextQuery, Runs
    <3> QED
      BY <1>1, <1>4, <2>1, <2>2, <2>3, <3>1, <3>2 DEF Answered
  <2>4. CASE o = "rejected"
    <3>1. ~RanNow /\ alive /\ alive' /\ errno' = "other"
      BY <1>1, <2>1, <2>4, ExchangeCases DEF RanNow, Ran
    <3> QED
      BY <1>1, <1>4, <2>1, <2>2, <2>4, <3>1 DEF Fails, MayRetry, is_connection_lost, ErrorMessage
  <2>5. CASE o \in {"lost", "lost_after"}
    <3>1. ~alive' /\ errno' = "lost"
      BY <1>1, <2>1, <2>5, ExchangeCases
    <3> QED
      BY <1>1, <1>4, <2>1, <2>2, <2>5, <3>1 DEF Fails, MayRetry, ErrorMessage
  <2> QED
    BY <2>3, <2>4, <2>5, <2>2 DEF Outcomes
<1>7. ASSUME NEW o \in Outcomes, TextStore(o)
      PROVE  OnTheWay /\ (Stored \/ Fails)
  <2>1. /\ pc = "text_store" /\ Fetch(o) /\ runs' = runs /\ answered' = answered
        /\ UNCHANGED <<allow_reconnects, call>>
        /\ \/ MayRetry(errno') /\ pc' = "text_reconnect" /\ ret' = ret
           \/ ~(errno' = "none" /\ MayRetry(errno')) /\ pc' = "idle" /\ ret' = ErrorMessage
    BY <1>7 DEF TextStore, history, Return, MayRetry, is_connection_lost
  <2>2. OnTheWay /\ ~RanNow
    BY <1>1, <1>4, <2>1 DEF OnTheWay, RanNow
  <2>3. CASE errno' = "none" /\ UNCHANGED <<link, alive>>
    <3>1. session' = session /\ replaced' = replaced
      BY <1>1, <1>2, <1>4, <2>2, <2>3 DEF ReplyOK
    <3> QED
      BY <1>1, <1>4, <2>1, <2>2, <2>3, <3>1 DEF Stored, ErrorMessage, MayRetry, is_connection_lost
  <2>4. CASE o = "rejected" /\ call.text \in RowQueries /\ Exchange(o)
    <3>1. alive /\ alive' /\ errno' = "other"
      BY <1>1, <2>4, ExchangeCases
    <3> QED
      BY <1>1, <1>4, <2>1, <2>2, <2>4, <3>1 DEF Fails, MayRetry, is_connection_lost, ErrorMessage
  <2>5. CASE o = "lost" /\ call.text \in RowQueries /\ Exchange(o)
    <3>1. ~alive' /\ errno' = "lost"
      BY <1>1, <2>5, ExchangeCases
    <3> QED
      BY <1>1, <1>4, <2>1, <2>2, <2>5, <3>1 DEF Fails, MayRetry, ErrorMessage
  <2> QED
    BY <2>1, <2>2, <2>3, <2>4, <2>5 DEF Fetch
<1>8. ASSUME NEW ok \in BOOLEAN, TextReconnect(ok)
      PROVE  OnTheWay /\ Reconnected
  <2>1. /\ pc = "text_reconnect" /\ reconnect(ok, {})
        /\ ~alive /\ replaced /\ allow_reconnects
        /\ UNCHANGED <<allow_reconnects, call, runs>> /\ ~answered'
        /\ \/ ok /\ pc' = "text_query" /\ ret' = ret
           \/ pc' = "idle" /\ ret' = ErrorMessage
    BY <1>2, <1>8 DEF TextReconnect, Retries, Return, ReplyOK
  <2>2. OnTheWay /\ ~RanNow
    BY <1>1, <1>4, <2>1 DEF OnTheWay, RanNow
  <2>3. IF ok THEN alive' /\ errno' = "none" ELSE alive' = alive /\ errno' # "none"
    BY <2>1 DEF reconnect
  <2> QED
    BY <1>1, <1>4, <2>1, <2>2, <2>3 DEF Reconnected, ErrorMessage
<1> QED
  BY <1>5, <1>6, <1>7, <1>8

-----------------------------------------------------------------------------
(***************************************************************************)
(* The other steps.                                                        *)
(***************************************************************************)
\* The history of a transaction that has ended is forgotten.
Forgets == IF last \in {"commit", "rollback"} THEN ~began' /\ promised' = {}
                                              ELSE UNCHANGED <<began, promised>>

\* A statement is sent: the first of a function, or its next one.
Asks == /\ pc = "idle" /\ pc' = "text_query" /\ ret' = "pending"
        /\ UNCHANGED <<alive, errno, allow_reconnects, session, committed, db, doubt>>

Called ==
  /\ Asks /\ fn = "none" /\ at' = 1 /\ last' = fn' /\ fret' = fret
  /\ \/ /\ fn' = "start" /\ call'.text = set_autocommit_0 /\ issued' = issued
        /\ ~began' /\ promised' = {} /\ replaced' = ~alive
     \/ /\ Forgets /\ replaced' = replaced
        /\ \/ fn' = "rollback" /\ call'.text = rollback_query /\ issued' = issued
           \/ fn' = "use" /\ call'.text \in UseQueries /\ issued' = issued
           \/ fn' = "timeout" /\ call'.text = timeout_query /\ issued' = issued
           \/ /\ fn' = "write" /\ call'.text \in Writes \ issued
              /\ issued' = issued \cup {call'.text}

Continued ==
  /\ Asks /\ fn' = fn /\ UNCHANGED <<last, issued, began, promised, replaced>>
  /\ \/ /\ fn = "start" /\ at = 1 /\ at' = 2 /\ call'.text = start_query
        /\ ret # "success" /\ fret' = fret
     \/ /\ fn = "start" /\ at = 2 /\ at' = 3 /\ call'.text = set_autocommit_1
        /\ ret = "success" /\ fret' = fret
     \/ fn = "commit" /\ at = 1 /\ at' = 2 /\ call'.text = set_autocommit_1 /\ fret' = fret
     \/ /\ fn = "rollback" /\ at = 1 /\ at' = 2 /\ call'.text = set_autocommit_1
        /\ fret' = (ret = "success")

Stays == UNCHANGED <<pc, ret, call, answered, alive, errno, allow_reconnects, session,
                     committed, last, issued, began, replaced>>

EndsFunction ==
  /\ pc = "idle" /\ Stays /\ fn' = "none" /\ at' = 0
  /\ \/ fn = "start" /\ (fret' => at = 2 /\ ret # "success") /\ fret' \in BOOLEAN
        /\ UNCHANGED <<db, promised, doubt>>
     \/ fn \in {"commit", "rollback"} /\ at = 2 /\ UNCHANGED <<fret, db, promised, doubt>>
     \/ /\ fn = "use" /\ fret' \in BOOLEAN /\ promised' = promised
        /\ db' = IF ret = "success" THEN DatabaseOf(call.text) ELSE db
        /\ IF ret = "success" THEN doubt' <=> ~answered ELSE doubt' = doubt
     \/ fn = "timeout" /\ fret' /\ UNCHANGED <<db, promised, doubt>>
     \/ /\ fn = "write" /\ fret' \in BOOLEAN /\ UNCHANGED <<db, doubt>>
        /\ \/ promised' = promised
           \/ ret = "success" /\ began /\ promised' = promised \cup {call.text}

Derails ==
  /\ pc = "idle" /\ Stays /\ fn = "timeout" /\ fn' = "undefined" /\ ret # "success"
  /\ at' = 0 /\ UNCHANGED <<fret, db, promised, doubt>>

Commit ==
  /\ pc = "idle" /\ fn = "none" /\ fn' = "commit" /\ at' = 1 /\ last' = "commit"
  /\ Forgets /\ fret' \in BOOLEAN
  /\ UNCHANGED <<pc, call, ret, answered, allow_reconnects, db, issued, doubt>>
  /\ \/ /\ ~fret' /\ alive /\ alive' /\ replaced' = replaced
        /\ session' = [session EXCEPT !.pending = {}, !.in_tx = FALSE]
        /\ committed' = committed \cup session.pending
     \/ fret' /\ alive /\ alive' /\ UNCHANGED <<session, committed, replaced>>
     \/ /\ fret' /\ ~alive' /\ session' = NoSession /\ replaced'
        /\ committed' \in {committed, committed \cup session.pending}

\* The life cycle of the connection.
Manages ==
  /\ fn = "none" /\ UNCHANGED <<fn, at, fret, call, ret, issued, committed>>
  /\ pc \notin TextPcs /\ pc' \in {"idle", "none"} /\ (pc' = "none" => ~alive')
  /\ db' \in Databases /\ doubt' \in BOOLEAN
  /\ \/ pc = "idle" /\ last' = "manage" /\ Forgets
     \/ pc = "none" /\ UNCHANGED <<last, began, promised>>
  /\ \/ ~alive' /\ session' = NoSession /\ replaced'
     \/ ~alive /\ alive' /\ session' = Fresh(db') /\ ~doubt' /\ replaced' = replaced
     \/ /\ alive /\ alive' /\ UNCHANGED <<session, replaced>>
        /\ ~doubt' => ~doubt /\ db' = db

Drops == /\ ~alive' /\ session' = NoSession /\ replaced'
         /\ UNCHANGED <<pc, ret, call, answered, errno, allow_reconnects, committed, fn, at,
                        fret, db, last, issued, began, promised, doubt>>

Rests == UNCHANGED sessionVars

-----------------------------------------------------------------------------
\* What sending a statement changes.
LEMMA SendsAsks ==
  ASSUME NEW name, NEW n, NEW q, Sends(name, n, q)
  PROVE  /\ pc = "idle" /\ pc' = "text_query" /\ ret' = "pending" /\ call'.text = q
         /\ UNCHANGED <<alive, errno, allow_reconnects, session, committed>>
         /\ fn' = name /\ at' = n
  BY DEF Sends, execute, Begin, TextCall, handleVars, serverVars

\* What returning from a function changes.
LEMMA ReturnsStays ==
  ASSUME NEW r, Returns(r)
  PROVE  /\ fn' = "none" /\ at' = 0 /\ fret' = r
         /\ UNCHANGED <<pc, ret, call, answered, alive, errno, allow_reconnects, session, committed>>
  BY DEF Returns, vars, handleVars, callVars, frameVars, history, serverVars

\* The first statements of the functions, and the writes of the user.
LEMMA CalledSteps ==
  ASSUME \/ StartTransaction \/ RollbackTransaction \/ GetTimeout
         \/ \E d \in Databases : UseDatabase(d)
         \/ \E w \in Writes : Write(w)
  PROVE  Called
<1>1. CASE StartTransaction
  BY <1>1, SendsAsks DEF StartTransaction, Called, Asks
<1>2. CASE RollbackTransaction
  BY <1>2, SendsAsks DEF RollbackTransaction, RollbackOrder, Calling, Called, Asks, Forgets
<1>3. CASE GetTimeout
  BY <1>3, SendsAsks DEF GetTimeout, Calling, Called, Asks, Forgets
<1>4. CASE \E d \in Databases : UseDatabase(d)
  BY <1>4, SendsAsks DEF UseDatabase, Calling, Called, Asks, Forgets, UseQueries
<1>5. CASE \E w \in Writes : Write(w)
  BY <1>5, SendsAsks DEF Write, Calling, Called, Asks, Forgets
<1> QED
  BY <1>1, <1>2, <1>3, <1>4, <1>5

\* The other steps of a function: its next statement, or its end.
LEMMA FunctionSteps ==
  ASSUME \/ StartContinues \/ CommitContinues \/ RollbackContinues
         \/ UseReturns \/ TimeoutReturns \/ TimeoutUndefined \/ WriteReturns
  PROVE  Continued \/ EndsFunction \/ Derails
<1> USE SendsAsks, ReturnsStays DEF Sent, Succeeded, bookVars
<1>1. CASE StartContinues
  BY <1>1 DEF StartContinues, Continued, EndsFunction, Asks, Stays
<1>2. CASE CommitContinues
  BY <1>2 DEF CommitContinues, Continued, EndsFunction, Asks, Stays
<1>3. CASE RollbackContinues
  BY <1>3 DEF RollbackContinues, RollbackOrder, Continued, EndsFunction, Asks, Stays
<1>4. CASE UseReturns
  BY <1>4 DEF UseReturns, NewDatabase, EndsFunction, Stays
<1>5. CASE TimeoutReturns
  BY <1>5 DEF TimeoutReturns, EndsFunction, Stays
<1>6. CASE TimeoutUndefined
  BY <1>6 DEF TimeoutUndefined, Derails, Stays, vars, handleVars, callVars, frameVars,
              history, serverVars
<1>7. CASE WriteReturns
  BY <1>7 DEF WriteReturns, EndsFunction, Stays
<1> QED
  BY <1>1, <1>2, <1>3, <1>4, <1>5, <1>6, <1>7

\* mysql_commit: done, refused, or lost with the session before or after.
LEMMA CommitKinds ==
  ASSUME BaseInv, NEW o \in Outcomes, CommitTransaction(o)
  PROVE  Commit
<1>1. alive \in BOOLEAN /\ (alive => link) /\ replaced \in BOOLEAN
  BY DEF BaseInv, IInv, TypeOK, SessionTypeOK
<1>2. /\ Calling("commit") /\ Exchange(o) /\ fn' = "commit" /\ at' = 1
      /\ UNCHANGED <<pc, call, ret, answered, allow_reconnects, db, issued, doubt>>
      /\ fret' = (o # "ok")
      /\ committed' = IF Ran(o) = 1 THEN committed \cup session.pending ELSE committed
      /\ SessionBecomes(IF Ran(o) = 1 THEN [session EXCEPT !.pending = {}, !.in_tx = FALSE]
                                      ELSE session)
  BY DEF CommitTransaction, CommitResult, callVars, frameVars, history
<1>3. /\ Forgets /\ pc = "idle" /\ fn = "none" /\ last' = "commit"
  BY <1>2 DEF Calling, Forgets
<1>4. CASE o = "ok"
  BY <1>1, <1>2, <1>3, <1>4, ExchangeCases DEF Commit, Ran, SessionBecomes
<1>5. CASE o = "rejected"
  BY <1>1, <1>2, <1>3, <1>5, ExchangeCases DEF Commit, Ran, SessionBecomes
<1>6. CASE o \in {"lost", "lost_after"}
  BY <1>1, <1>2, <1>3, <1>6, ExchangeCases DEF Commit, Ran, SessionBecomes
<1> QED
  BY <1>4, <1>5, <1>6 DEF Outcomes

\* What a step that runs no query does to the server.
LEMMA QuietServer ==
  ASSUME BaseInv, runs' = runs, alive' \in BOOLEAN, Server
  PROVE  /\ committed' = committed
         /\ \/ ~alive' /\ session' = NoSession /\ replaced'
            \/ ~alive /\ alive' /\ session' = Fresh(db') /\ replaced' = replaced
            \/ alive /\ alive' /\ session' = session /\ replaced' = replaced
<1>1. ~RanNow
  BY RunsNotTwice
<1>2. /\ committed' = IF RanNow THEN DurableAfter(call.text) ELSE committed
      /\ session' = IF ~alive' THEN NoSession
                    ELSE IF alive THEN (IF RanNow THEN SessionAfter(call.text) ELSE session)
                    ELSE Fresh(db')
      /\ replaced' = (replaced \/ ~alive')
  BY Zenon DEF Server, SessionBecomes
<1>3. replaced \in BOOLEAN
  BY DEF BaseInv, SessionTypeOK
<1>4. /\ replaced' \in BOOLEAN
      /\ replaced' <=> replaced \/ ~alive'
  BY <1>2, <1>3, Zenon
<1> QED
  BY <1>1, <1>2, <1>3, <1>4

\* Connecting, settings, construction and destruction.
LEMMA ManageKinds ==
  ASSUME BaseInv, Manage \/ Make \/ Unmake
  PROVE  Manages
<1>1. /\ runs \in Nat /\ alive \in BOOLEAN /\ (alive => link) /\ replaced \in BOOLEAN
      /\ doubt \in BOOLEAN /\ db \in Databases /\ ScriptOK /\ ReplyOK
  BY DEF BaseInv, IInv, TypeOK, SessionTypeOK
<1>3. CASE Manage
  <2>1. /\ pc = "idle" /\ pc' = "idle" /\ fn = "none" /\ last' = "manage" /\ Forgets
        /\ UNCHANGED <<fn, at, fret, issued>> /\ Server
        /\ doubt' = (alive /\ (doubt \/ db' # db))
        /\ \E b \in BOOLEAN : \/ Connect(b) /\ db' \in Databases
                              \/ set_allow_reconnects(b) /\ UNCHANGED db
    BY <1>3 DEF Manage, Calling, Forgets, Connect, set_allow_reconnects
  <2>2. /\ UNCHANGED <<runs, call, ret>> /\ db' \in Databases /\ alive' \in BOOLEAN
    BY <1>1, <2>1 DEF Connect, reconnect, set_allow_reconnects, NotOnHandle, history, handleVars
  <2> QED
    BY <1>1, <2>1, <2>2, QuietServer DEF Manages, TextPcs
<1>4. CASE Make
  <2>1. /\ pc = "none" /\ pc' = "idle" /\ alive' \in BOOLEAN /\ db' \in Databases
        /\ Server /\ ~doubt' /\ doubt' \in BOOLEAN
        /\ UNCHANGED <<fn, at, fret, last, issued, began, promised, runs, call, ret>>
    BY <1>4 DEF Make, Construct, NotOnHandle, history
  <2>2. fn = "none" /\ ~alive
    BY <1>1, <2>1 DEF ScriptOK, ReplyOK
  <2> QED
    BY <1>1, <2>1, <2>2, QuietServer DEF Manages, TextPcs
<1>5. CASE Unmake
  <2>1. /\ pc = "idle" /\ pc' = "none" /\ fn = "none" /\ last' = "manage" /\ Forgets
        /\ alive' = FALSE /\ Server
        /\ UNCHANGED <<fn, at, fret, db, issued, doubt, runs, call, ret>>
    BY <1>5 DEF Unmake, Destroy, Calling, Forgets, NotOnHandle, history, scriptVars
  <2> QED
    BY <1>1, <2>1, QuietServer DEF Manages, TextPcs
<1> QED
  BY <1>3, <1>4, <1>5

\* A session that is dropped rolls back and commits nothing.
LEMMA DropKinds ==
  ASSUME BaseInv, Drop
  PROVE  Drops
<1>1. /\ runs \in Nat /\ alive' = FALSE /\ Server /\ UNCHANGED <<scriptVars, bookVars>>
      /\ UNCHANGED <<link, errno, stmts, cache, allow_reconnects, text, callVars, history>>
  BY DEF Drop, ServerDrop, BaseInv, IInv, TypeOK
<1> QED
  BY <1>1, QuietServer DEF Drops, scriptVars, bookVars, callVars, frameVars, history

\* Every step of the session is of one of these kinds.
LEMMA SessionKinds ==
  ASSUME BaseInv, [SessionNext]_sessionVars
  PROVE  \/ OnTheWay /\ (Answered \/ Fails \/ Stored \/ Reconnected)
         \/ Called \/ Continued \/ EndsFunction \/ Derails \/ Commit
         \/ Manages \/ Drops \/ Rests
<1>1. CASE SessionNext
  BY <1>1, ProceedKinds, CalledSteps, FunctionSteps, CommitKinds, ManageKinds, DropKinds
  DEF SessionNext, FunctionStep
<1> QED
  BY <1>1 DEF Rests

-----------------------------------------------------------------------------
(***************************************************************************)
(* What each statement does to the session.                                *)
(***************************************************************************)
LEMMA AfterFields ==
  ASSUME session \in Sessions, NEW q
  PROVE  /\ SessionAfter(q).autocommit
              <=> q = set_autocommit_1 \/ (session.autocommit /\ q # set_autocommit_0)
         /\ SessionAfter(q).in_tx
              <=> q = start_query \/ (session.in_tx /\ q # rollback_query /\ ~Commits(q))
         /\ SessionAfter(q).db = IF q \in UseQueries THEN DatabaseOf(q) ELSE session.db
         /\ SessionAfter(q).pending =
              IF Commits(q) \/ q = rollback_query THEN {}
              ELSE session.pending \cup ({q} \cap IF Transactional THEN Writes ELSE {})
         /\ SessionAfter(q).autocommit \in BOOLEAN /\ SessionAfter(q).in_tx \in BOOLEAN
  BY DEF SessionAfter, Sessions

\* A statement keeps the type of the session.
LEMMA AfterTyped ==
  ASSUME session \in Sessions, NEW q,
         q \in UseQueries => DatabaseOf(q) \in Databases
  PROVE  SessionAfter(q) \in Sessions
<1>1. /\ SessionAfter(q).autocommit \in BOOLEAN /\ SessionAfter(q).in_tx \in BOOLEAN
      /\ SessionAfter(q).db \in Databases \cup {NoDatabase}
      /\ SessionAfter(q).pending \in SUBSET Writes
  BY AfterFields DEF Sessions
<1>2. SessionAfter(q) = [autocommit |-> SessionAfter(q).autocommit,
                         in_tx |-> SessionAfter(q).in_tx,
                         db |-> SessionAfter(q).db, pending |-> SessionAfter(q).pending]
  BY DEF SessionAfter
<1> QED
  BY <1>1, <1>2 DEF Sessions

\* USE names one of the databases.
LEMMA UsedDatabase ==
  ASSUME NEW q \in UseQueries
  PROVE  DatabaseOf(q) \in Databases /\ UseQuery[DatabaseOf(q)] = q
<1>1. PICK d \in Databases : UseQuery[d] = q
  BY DEF UseQueries
<1> QED
  BY <1>1 DEF DatabaseOf

\* A new session has autocommit on and nothing pending.
LEMMA FreshTyped ==
  /\ \A d \in Databases \cup {NoDatabase} : Fresh(d) \in Sessions
  /\ \A d : Fresh(d).db = d /\ Fresh(d).pending = {} /\ Fresh(d).autocommit
  /\ NoSession \in Sessions /\ NoSession.db = NoDatabase /\ NoSession.pending = {}
  /\ NoSession.autocommit
  BY DEF Fresh, NoSession, Sessions

\* Nothing that is pending or durable is lost by a statement that is no ROLLBACK.
LEMMA Effects ==
  ASSUME session \in Sessions, NEW q
  PROVE  /\ committed \subseteq DurableAfter(q)
         /\ DurableAfter(q) \subseteq committed \cup session.pending \cup ({q} \cap Writes)
         /\ SessionAfter(q).pending \subseteq session.pending \cup ({q} \cap Writes)
         /\ q # rollback_query =>
              committed \cup session.pending \subseteq DurableAfter(q) \cup SessionAfter(q).pending
         /\ q \in Writes => q \in DurableAfter(q) \cup SessionAfter(q).pending
         /\ q = rollback_query => SessionAfter(q).pending = {} /\ DurableAfter(q) = committed
         /\ q = set_autocommit_0 => ~SessionAfter(q).autocommit
         /\ q = start_query => SessionAfter(q).in_tx
         /\ q = set_autocommit_1 => SessionAfter(q).autocommit
         /\ q = set_autocommit_1 /\ session.pending = {} =>
              SessionAfter(q).pending = {} /\ DurableAfter(q) = committed
         /\ q \in Writes \cup UseQueries \cup {timeout_query} =>
              /\ SessionAfter(q).autocommit <=> session.autocommit
              /\ SessionAfter(q).in_tx <=> session.in_tx
              /\ Transactional => DurableAfter(q) = committed
<1>1. /\ Commits(q) <=> q = start_query \/ (q = set_autocommit_1 /\ ~session.autocommit)
      /\ q = start_query => q \notin Writes /\ q # rollback_query
      /\ q = rollback_query => q \notin Writes /\ ~Commits(q)
      /\ q \in {set_autocommit_0, set_autocommit_1} => q \notin Writes
      /\ q = set_autocommit_0 => q # set_autocommit_1
      /\ q \in Writes \cup UseQueries \cup {timeout_query} =>
           /\ ~Commits(q) /\ q # rollback_query
           /\ q \notin {set_autocommit_0, set_autocommit_1, start_query}
  BY SessionAssumption DEF Commits, FunctionQueries
<1>2. DurableAfter(q) = IF Commits(q) THEN committed \cup session.pending
                        ELSE IF q \in Writes /\ ~Transactional THEN committed \cup {q}
                        ELSE committed
  <2>1. CASE Commits(q)
    BY <1>1, <2>1 DEF DurableAfter
  <2>2. CASE ~Commits(q) /\ q \in Writes /\ ~Transactional
    BY <2>2 DEF DurableAfter
  <2>3. CASE ~Commits(q) /\ ~(q \in Writes /\ ~Transactional)
    BY <2>3 DEF DurableAfter
  <2> QED
    BY <2>1, <2>2, <2>3
<1>3. session.autocommit \in BOOLEAN /\ session.in_tx \in BOOLEAN
  BY DEF Sessions
<1>4. Transactional <=> session.in_tx \/ ~session.autocommit
  BY DEF Transactional
<1> HIDE DEF Commits, Transactional
<1>5. /\ committed \subseteq DurableAfter(q)
      /\ DurableAfter(q) \subseteq committed \cup session.pending \cup ({q} \cap Writes)
      /\ q \in Writes => q \in DurableAfter(q) \cup SessionAfter(q).pending
      /\ SessionAfter(q).pending \subseteq session.pending \cup ({q} \cap Writes)
      /\ q # rollback_query =>
           committed \cup session.pending \subseteq DurableAfter(q) \cup SessionAfter(q).pending
  BY <1>1, <1>2, AfterFields
<1>6. /\ q = rollback_query => SessionAfter(q).pending = {} /\ DurableAfter(q) = committed
      /\ q = set_autocommit_1 /\ session.pending = {} =>
           SessionAfter(q).pending = {} /\ DurableAfter(q) = committed
  <2>1. q = rollback_query => SessionAfter(q).pending = {} /\ DurableAfter(q) = committed
    BY <1>1, <1>2, AfterFields
  <2>2. ASSUME q = set_autocommit_1, session.pending = {}
        PROVE  SessionAfter(q).pending = {} /\ DurableAfter(q) = committed
    <3>1. {q} \cap Writes = {} /\ q \notin Writes
      BY <1>1, <2>2
    <3>2. SessionAfter(q).pending \subseteq {}
      BY <1>5, <2>2, <3>1
    <3>3. DurableAfter(q) \subseteq committed
      BY <1>5, <2>2, <3>1
    <3> QED
      BY <1>5, <3>2, <3>3
  <2> QED
    BY <2>1, <2>2
<1>7. /\ q = set_autocommit_0 => ~SessionAfter(q).autocommit
      /\ q = start_query => SessionAfter(q).in_tx
      /\ q = set_autocommit_1 => SessionAfter(q).autocommit
  BY <1>1, AfterFields
<1>8. q \in Writes \cup UseQueries \cup {timeout_query} =>
        /\ SessionAfter(q).autocommit <=> session.autocommit
        /\ SessionAfter(q).in_tx <=> session.in_tx
        /\ Transactional => DurableAfter(q) = committed
  BY <1>1, <1>2, AfterFields
<1> QED
  BY <1>5, <1>6, <1>7, <1>8

-----------------------------------------------------------------------------
(***************************************************************************)
(* The base of the invariant.                                              *)
(***************************************************************************)
\* Every step of the session but the commit is one of the connection, and the
\* commit touches nothing but the handle.
LEMMA ConnectionSteps ==
  ASSUME [SessionNext]_sessionVars
  PROVE  [Next]_vars \/ \E o \in Outcomes : CommitTransaction(o)
<1>1. ASSUME NEW name, NEW n, NEW q \in Queries, Sends(name, n, q)
      PROVE  [Next]_vars
  BY <1>1 DEF Sends, Next, UserStep
<1>2. ASSUME NEW r, Returns(r)
      PROVE  [Next]_vars
  BY <1>2 DEF Returns
<1>3. /\ FunctionQueries \subseteq Queries /\ Writes \subseteq Queries
      /\ \A d \in Databases : UseQuery[d] \in Queries
  BY SessionAssumption
<1>4. CASE \/ StartTransaction \/ RollbackTransaction \/ GetTimeout
           \/ \E d \in Databases : UseDatabase(d)
           \/ \E w \in Writes : Write(w)
  BY <1>1, <1>3, <1>4 DEF StartTransaction, RollbackTransaction, RollbackOrder, GetTimeout,
     UseDatabase, Write, FunctionQueries
<1>5. CASE \/ StartContinues \/ CommitContinues \/ RollbackContinues
           \/ UseReturns \/ TimeoutReturns \/ WriteReturns
  BY <1>1, <1>2, <1>3, <1>5 DEF StartContinues, CommitContinues, RollbackContinues,
     RollbackOrder, UseReturns, TimeoutReturns, WriteReturns, FunctionQueries
<1>6. CASE TimeoutUndefined \/ UNCHANGED sessionVars
  BY <1>6 DEF TimeoutUndefined, sessionVars
<1>7. CASE Proceed \/ Manage \/ Make \/ Unmake \/ Drop
  BY <1>7 DEF Proceed, Manage, Make, Unmake, Drop, Next, UserStep
<1> QED
  BY <1>4, <1>5, <1>6, <1>7 DEF SessionNext, FunctionStep

\* mysql_commit keeps the connection's invariant.
LEMMA CommitKeepsIInv ==
  ASSUME IInv, NEW o \in Outcomes, CommitTransaction(o)
  PROVE  IInv'
<1> USE DEF IInv
<1>1. /\ UNCHANGED <<stmts, cache, pc, call, stmt, attempts, prepare_attempts, ret, text,
                     allow_reconnects, runs, answered, silent, reconnects, uncached>>
      /\ Exchange(o)
  BY DEF CommitTransaction, callVars, frameVars, history
<1>2. /\ link' \in BOOLEAN /\ alive' \in BOOLEAN /\ (alive' => link')
      /\ errno' \in {"none", "lost", "other"}
  BY <1>1, ExchangeTyped
<1>3. TypeOK'
  BY <1>1, <1>2 DEF TypeOK
<1>4. LocalsOK'
  BY <1>1 DEF LocalsOK, InCall
<1>5. TakesNoStatement
  BY <1>1 DEF TakesNoStatement, TextsOK
<1> QED
  BY <1>1, <1>3, <1>4, <1>5, QuietStep

\* Only the function for it sends a write, and it is on record.
LEMMA OnlyWrites ==
  ASSUME BaseInv, pc \in TextPcs
  PROVE  /\ fn \in {"start", "commit", "rollback", "use", "timeout", "write"}
         /\ call.text \in Writes => fn = "write" /\ call.text \in issued
         /\ call.text \in UseQueries <=> fn = "use"
         /\ call.text = rollback_query => fn = "rollback" /\ at = 1
         /\ call.text \in RowQueries => fn = "timeout"
<1>1. /\ fn \in {"start", "commit", "rollback", "use", "timeout", "write"}
      /\ fn = "commit" => call.text = set_autocommit_1
  BY DEF BaseInv, SessionTypeOK, ScriptOK, TextPcs
<1>2. ScriptOK
  BY DEF BaseInv
<1>3. /\ \A q \in Writes \cup UseQueries : q \notin FunctionQueries /\ q \notin RowQueries
      /\ \A q \in Writes : q \notin UseQueries
      /\ \A q \in FunctionQueries : q \in RowQueries => q = timeout_query
      /\ rollback_query # timeout_query
      /\ rollback_query \notin {set_autocommit_0, set_autocommit_1, start_query}
      /\ timeout_query \notin {set_autocommit_0, set_autocommit_1, start_query}
  BY SessionAssumption DEF UseQueries
<1> QED
  BY <1>1, <1>2, <1>3 DEF ScriptOK, FunctionQueries

\* Types of the server's side.
LEMMA NextServerType ==
  ASSUME BaseInv, [SessionNext]_sessionVars
  PROVE  /\ session' \in Sessions /\ session'.pending \subseteq issued'
         /\ (session'.db = NoDatabase <=> ~alive')
         /\ committed' \subseteq issued'
<1>1. /\ session \in Sessions /\ session.pending \subseteq issued
      /\ (session.db = NoDatabase <=> ~alive)
      /\ committed \subseteq issued /\ db \in Databases
  BY DEF BaseInv, SessionTypeOK, Sessions, ReplyOK
<1>2. NoDatabase \notin Databases
  BY SessionAssumption
<1>3. CASE OnTheWay /\ (Answered \/ Fails)
  <2>1. pc \in TextPcs
    BY <1>3 DEF Answered, Fails, TextPcs
  <2>2. SessionAfter(call.text) \in Sessions
    BY <1>1, AfterTyped, UsedDatabase
  <2>3. call.text \in UseQueries => DatabaseOf(call.text) \in Databases
    BY UsedDatabase
  <2>4. session.db # NoDatabase => SessionAfter(call.text).db # NoDatabase
    <3>1. SessionAfter(call.text).db
            = IF call.text \in UseQueries THEN DatabaseOf(call.text) ELSE session.db
      BY <1>1, AfterFields
    <3> QED
      BY <1>2, <2>3, <3>1
  <2>5. /\ SessionAfter(call.text).pending \subseteq issued
        /\ DurableAfter(call.text) \subseteq issued
    BY <1>1, <2>1, OnlyWrites, Effects
  <2> QED
    BY <1>1, <1>3, <2>2, <2>4, <2>5, FreshTyped DEF OnTheWay, Answered, Fails
<1>4. CASE OnTheWay /\ (Stored \/ Reconnected)
  BY <1>1, <1>2, <1>4, FreshTyped DEF OnTheWay, Stored, Reconnected
<1>5. CASE Called \/ Continued \/ EndsFunction \/ Derails
  BY <1>1, <1>5 DEF Called, Continued, EndsFunction, Derails, Asks, Stays
<1>6. CASE Commit
  <2>1. [session EXCEPT !.pending = {}, !.in_tx = FALSE] \in Sessions
    BY <1>1 DEF Sessions
  <2>2. /\ [session EXCEPT !.pending = {}, !.in_tx = FALSE].db = session.db
        /\ [session EXCEPT !.pending = {}, !.in_tx = FALSE].pending = {}
    BY <1>1 DEF Sessions
  <2> QED
    BY <1>1, <1>6, <2>1, <2>2, FreshTyped DEF Commit
<1>7. CASE Manages
  BY <1>1, <1>2, <1>7, FreshTyped DEF Manages
<1>8. CASE Drops \/ Rests
  BY <1>1, <1>8, FreshTyped DEF Drops, Rests, sessionVars, vars, handleVars, serverVars, bookVars
<1> QED
  BY <1>3, <1>4, <1>5, <1>6, <1>7, <1>8, SessionKinds

\* Types of the flags and of the returned value.
LEMMA NextFlags ==
  ASSUME SessionTypeOK, [SessionNext]_sessionVars
  PROVE  /\ fret' \in BOOLEAN /\ doubt' \in BOOLEAN
         /\ began' \in BOOLEAN /\ replaced' \in BOOLEAN
<1>1. fret \in BOOLEAN /\ doubt \in BOOLEAN /\ began \in BOOLEAN /\ replaced \in BOOLEAN
  BY DEF SessionTypeOK
<1>2. Server => replaced' \in BOOLEAN
  BY Zenon DEF Server, SessionBecomes
<1>3. \A name : Calling(name) => began' \in BOOLEAN
  BY <1>1, Zenon DEF Calling
<1>4. \A r : Returns(r) => fret' = r
  BY Zenon DEF Returns
<1>5. CASE StartTransaction
  BY <1>1, <1>5, Zenon DEF StartTransaction
<1>6. CASE StartContinues
  BY <1>1, <1>4, <1>6, Zenon DEF StartContinues, bookVars
<1>7. CASE \E o \in Outcomes : CommitTransaction(o)
  BY <1>1, <1>3, <1>7, Zenon DEF CommitTransaction, CommitResult, SessionBecomes
<1>8. CASE CommitContinues
  BY <1>1, <1>4, <1>8, Zenon DEF CommitContinues, bookVars
<1>9. CASE RollbackContinues
  BY <1>1, <1>4, <1>9, Zenon DEF RollbackContinues, Succeeded, bookVars
<1>10. CASE UseReturns
  BY <1>1, <1>4, <1>10, Zenon DEF UseReturns, Succeeded
<1>11. CASE TimeoutReturns \/ TimeoutUndefined
  BY <1>1, <1>4, <1>11, Zenon DEF TimeoutReturns, TimeoutUndefined, bookVars
<1>12. CASE WriteReturns
  BY <1>1, <1>4, <1>12, Zenon DEF WriteReturns, Succeeded
<1>13. CASE RollbackTransaction \/ GetTimeout
            \/ (\E d \in Databases : UseDatabase(d)) \/ (\E w \in Writes : Write(w))
  BY <1>1, <1>3, <1>13, Zenon DEF RollbackTransaction, GetTimeout, UseDatabase, Write
<1>14. CASE Manage
  BY <1>1, <1>2, <1>3, <1>14, Zenon DEF Manage
<1>15. CASE Make \/ Unmake
  BY <1>1, <1>2, <1>3, <1>15, Zenon DEF Make, Unmake, scriptVars
<1>16. CASE Proceed
  BY <1>1, <1>2, <1>16, Zenon DEF Proceed, scriptVars
<1>17. CASE Drop
  BY <1>1, <1>2, <1>17, Zenon DEF Drop, scriptVars, bookVars
<1>18. CASE UNCHANGED sessionVars
  BY <1>1, <1>18, Zenon DEF sessionVars, scriptVars, bookVars
<1> QED
  BY <1>5, <1>6, <1>7, <1>8, <1>9, <1>10, <1>11, <1>12, <1>13, <1>14, <1>15, <1>16, <1>17,
     <1>18 DEF SessionNext, FunctionStep

\* Types of the functions' place and of the history.
LEMMA NextBookType ==
  ASSUME BaseInv, [SessionNext]_sessionVars
  PROVE  /\ db' \in Databases /\ issued' \subseteq Writes /\ promised' \subseteq issued'
         /\ fn' \in {"none", "start", "commit", "rollback", "use", "timeout", "write", "undefined"}
         /\ at' \in 0..3
         /\ last' \in {"none", "manage", "start", "commit", "rollback", "use", "timeout", "write"}
<1> USE DEF BaseInv, SessionTypeOK
<1>1. alive \in BOOLEAN /\ answered \in BOOLEAN
  BY DEF IInv, TypeOK
<1>2. CASE OnTheWay /\ (Answered \/ Fails \/ Stored \/ Reconnected)
  BY <1>2 DEF OnTheWay, Answered, Fails, Stored, Reconnected
<1>3. CASE Called
  BY <1>1, <1>3 DEF Called, Asks, Forgets
<1>4. CASE Continued
  BY <1>4 DEF Continued, Asks
<1>5. CASE EndsFunction
  BY <1>1, <1>5, UsedDatabase DEF EndsFunction, Stays, ScriptOK
<1>6. CASE Derails
  BY <1>6 DEF Derails, Stays
<1>7. CASE Commit
  BY <1>7 DEF Commit, Forgets
<1>8. CASE Manages
  BY <1>8 DEF Manages, Forgets
<1>9. CASE Drops \/ Rests
  BY <1>9 DEF Drops, Rests, sessionVars, scriptVars, bookVars
<1> QED
  BY <1>2, <1>3, <1>4, <1>5, <1>6, <1>7, <1>8, <1>9, SessionKinds

\* Every step keeps each function on its script.
LEMMA NextScript ==
  ASSUME BaseInv, [SessionNext]_sessionVars
  PROVE  ScriptOK'
<1> USE DEF BaseInv, ScriptOK, TextPcs
<1>1. CASE OnTheWay /\ (Answered \/ Fails \/ Stored \/ Reconnected)
  BY <1>1 DEF OnTheWay, Answered, Fails, Stored, Reconnected
<1>2. CASE Called
  BY <1>2 DEF Called, Asks
<1>3. CASE Continued
  BY <1>3 DEF Continued, Asks
<1>4. CASE EndsFunction \/ Derails
  BY <1>4 DEF EndsFunction, Derails, Stays
<1>5. CASE Commit
  BY <1>5 DEF Commit
<1>6. CASE Manages
  BY <1>6 DEF Manages
<1>7. CASE Drops \/ Rests
  BY <1>7 DEF Drops, Rests, sessionVars, vars, scriptVars, bookVars, callVars, frameVars
<1> QED
  BY <1>1, <1>2, <1>3, <1>4, <1>5, <1>6, <1>7, SessionKinds

\* Every step keeps what a returned call says of its result.
LEMMA NextReply ==
  ASSUME BaseInv, [SessionNext]_sessionVars, session'.pending \subseteq issued'
  PROVE  ReplyOK'
<1> USE DEF BaseInv, ReplyOK, Ended, TextPcs
<1>1. CASE OnTheWay /\ (Answered \/ Fails \/ Stored \/ Reconnected)
  BY <1>1 DEF OnTheWay, Answered, Fails, Stored, Reconnected, ScriptOK
<1>2. CASE Called
  BY <1>2 DEF Called, Asks
<1>3. CASE Continued
  BY <1>3 DEF Continued, Asks
<1>4. CASE EndsFunction \/ Derails
  BY <1>4 DEF EndsFunction, Derails, Stays
<1>5. CASE Commit
  BY <1>5 DEF Commit
<1>6. CASE Manages
  BY <1>6 DEF Manages
<1>7. CASE Drops \/ Rests
  BY <1>7 DEF Drops, Rests, sessionVars, vars, scriptVars, bookVars, callVars, frameVars,
              handleVars, serverVars, history
<1> QED
  BY <1>1, <1>2, <1>3, <1>4, <1>5, <1>6, <1>7, SessionKinds

\* Every step keeps the base.
LEMMA NextBase ==
  ASSUME BaseInv, [SessionNext]_sessionVars
  PROVE  BaseInv'
<1>1. IInv'
  BY ConnectionSteps, NextIInv, CommitKeepsIInv DEF BaseInv
<1>2. SessionTypeOK'
  BY <1>1, NextServerType, NextBookType, NextFlags
  DEF BaseInv, SessionTypeOK, Sessions, IInv
<1>3. ScriptOK' /\ ReplyOK'
  BY NextScript, NextReply, NextServerType
<1> QED
  BY <1>1, <1>2, <1>3 DEF BaseInv
\* The base holds at the start.
LEMMA InitBase == SessionInit => BaseInv
<1> SUFFICES ASSUME SessionInit PROVE BaseInv
  OBVIOUS
<1>1. IInv
  BY InitIInv DEF SessionInit
<1>2. SessionTypeOK
  <2>1. TypeOK
    BY <1>1 DEF IInv
  <2>2. /\ ~alive /\ session = NoSession /\ db \in Databases /\ committed = {}
        /\ issued = {} /\ promised = {} /\ fn = "none" /\ at = 0 /\ fret = FALSE
        /\ began = FALSE /\ replaced = TRUE /\ doubt = FALSE /\ last = "none"
    BY DEF SessionInit, Init
  <2>3. session \in Sessions /\ session.db = NoDatabase
    BY <2>2, FreshTyped
  <2>4. committed \subseteq issued /\ issued \subseteq Writes /\ promised \subseteq issued
    BY <2>2
  <2>5. at \in 0..3
    BY <2>2
  <2>6. /\ fret \in BOOLEAN /\ began \in BOOLEAN /\ replaced \in BOOLEAN /\ doubt \in BOOLEAN
    BY <2>2, Zenon
  <2> QED
    BY <2>1, <2>2, <2>3, <2>4, <2>5, <2>6, Zenon DEF SessionTypeOK, Sessions
<1>3. ScriptOK /\ ReplyOK
  BY FreshTyped DEF SessionInit, Init, ScriptOK, ReplyOK, Ended, TextPcs
<1> QED
  BY <1>1, <1>2, <1>3 DEF BaseInv

\* The base is an invariant.
LEMMA Base == SessionSpec => []BaseInv
<1>1. BaseInv /\ [SessionNext]_sessionVars => BaseInv'
  BY NextBase
<1> QED
  BY <1>1, InitBase, PTL DEF SessionSpec

-----------------------------------------------------------------------------
(***************************************************************************)
(* The properties.                                                         *)
(***************************************************************************)
LEMMA NextAutocommit ==
  ASSUME BaseInv, AutocommitInv, [SessionNext]_sessionVars
  PROVE  AutocommitInv'
<1>1. ScriptOK /\ ReplyOK /\ session \in Sessions
  BY DEF BaseInv, SessionTypeOK, Sessions
<1> USE <1>1, FreshTyped DEF AutocommitInv, AutocommitRestored, Done, Ended
<1>2. CASE OnTheWay /\ Answered
  <2>1. /\ call.text = set_autocommit_1 => SessionAfter(call.text).autocommit
        /\ fn # "none"
    BY <1>2, Effects DEF ScriptOK, TextPcs, Answered
  <2> QED
    BY <1>2, <2>1 DEF OnTheWay, Answered
<1>3. CASE OnTheWay /\ (Fails \/ Stored \/ Reconnected)
  <2>1. fn # "none"
    BY <1>3 DEF ScriptOK, TextPcs, OnTheWay, Fails, Stored, Reconnected
  <2> QED
    BY <1>3, <2>1 DEF OnTheWay, Fails, Stored, Reconnected, ScriptOK
<1>4. CASE Called \/ Continued
  BY <1>4 DEF Called, Continued, Asks
<1>5. CASE EndsFunction \/ Derails
  BY <1>5 DEF EndsFunction, Derails, Stays, ScriptOK
<1>6. CASE Commit \/ Manages
  BY <1>6 DEF Commit, Manages, ScriptOK, TextPcs
<1>7. CASE Drops \/ Rests
  BY <1>7 DEF Drops, Rests, sessionVars, vars, scriptVars, bookVars, callVars, frameVars,
              serverVars
<1> QED
  BY <1>2, <1>3, <1>4, <1>5, <1>6, <1>7, SessionKinds

\* Every step keeps what leads to StartReportsTheOpposite.
LEMMA NextStart ==
  ASSUME BaseInv, StartInv, [SessionNext]_sessionVars
  PROVE  StartInv'
<1>1. ScriptOK /\ ReplyOK
  BY DEF BaseInv
<1>2. set_autocommit_0 # set_autocommit_1 /\ start_query # set_autocommit_1
  BY SessionAssumption
<1> USE <1>1, <1>2 DEF StartInv, StartReportsTheOpposite, Done
<1>3. CASE OnTheWay /\ (Answered \/ Fails \/ Stored \/ Reconnected)
  <2>1. /\ fn # "none" /\ pc \in TextPcs
        /\ fn = "start" => call.text \notin RowQueries
    BY <1>3, OnlyWrites DEF TextPcs, OnTheWay, Answered, Fails, Stored, Reconnected
  <2> QED
    BY <1>3, <2>1 DEF OnTheWay, Answered, Fails, Stored, Reconnected
<1>4. CASE Called
  BY <1>4 DEF Called, Asks
<1>5. CASE Continued
  BY <1>5 DEF Continued, Asks
<1>6. CASE EndsFunction \/ Derails
  BY <1>6 DEF EndsFunction, Derails, Stays, ScriptOK
<1>7. CASE Commit \/ Manages
  BY <1>7 DEF Commit, Manages, Forgets
<1>8. CASE Drops \/ Rests
  BY <1>8 DEF Drops, Rests, sessionVars, vars, scriptVars, bookVars, callVars, frameVars
<1> QED
  BY <1>3, <1>4, <1>5, <1>6, <1>7, <1>8, SessionKinds

\* Every step keeps what leads to CommitFalseKeepsAll.
LEMMA NextCommit ==
  ASSUME BaseInv, CommitInv, [SessionNext]_sessionVars
  PROVE  CommitInv'
<1>1. ScriptOK /\ ReplyOK /\ session \in Sessions
  BY DEF BaseInv, SessionTypeOK, Sessions
<1> USE <1>1, FreshTyped DEF CommitInv, WriteDone
<1>2. CASE OnTheWay /\ Answered
  <2>1. /\ last # "rollback" => call.text # rollback_query
        /\ fn = "write" => call.text \in Writes
    BY <1>2, OnlyWrites DEF Answered, TextPcs, ScriptOK
  <2> QED
    BY <1>2, <2>1, Effects DEF OnTheWay, Answered
<1>3. CASE OnTheWay /\ (Fails \/ Stored \/ Reconnected)
  BY <1>3 DEF OnTheWay, Fails, Stored, Reconnected
<1>4. CASE Called
  BY <1>4 DEF Called, Asks, Forgets
<1>5. CASE Continued
  BY <1>5 DEF Continued, Asks, ScriptOK
<1>6. CASE EndsFunction \/ Derails
  BY <1>6 DEF EndsFunction, Derails, Stays, ScriptOK
<1>7. CASE Commit
  BY <1>7 DEF Commit, Forgets, Sessions
<1>8. CASE Manages
  BY <1>8 DEF Manages, Forgets, ReplyOK
<1>9. CASE Drops \/ Rests
  BY <1>9 DEF Drops, Rests, sessionVars, vars, scriptVars, bookVars, callVars, frameVars,
              serverVars
<1> QED
  BY <1>2, <1>3, <1>4, <1>5, <1>6, <1>7, <1>8, <1>9, SessionKinds

\* Every step keeps the transaction open that no statement has ended.
LEMMA NextOpen ==
  ASSUME BaseInv, OpenInv, [SessionNext]_sessionVars
  PROVE  OpenInv'
<1>1. ScriptOK /\ ReplyOK /\ session \in Sessions
  BY DEF BaseInv, SessionTypeOK, Sessions
<1> USE <1>1 DEF OpenInv
<1>2. CASE OnTheWay /\ Answered
  <2> DEFINE q == call.text
  <2>1. pc \in TextPcs /\ last = fn
    BY <1>2, OnlyWrites DEF Answered, TextPcs, ScriptOK
  <2>2. CASE fn = "start"
    <3>1. /\ q = set_autocommit_0 => ~SessionAfter(q).autocommit
          /\ q = start_query => SessionAfter(q).in_tx
      BY Effects
    <3> QED
      BY <1>2, <2>1, <2>2, <3>1 DEF OnTheWay, Answered, ScriptOK
  <2>3. CASE fn \in {"use", "timeout", "write"}
    <3>1. q \in Writes \cup UseQueries \cup {timeout_query}
      BY <2>3 DEF ScriptOK
    <3>2. /\ SessionAfter(q).autocommit <=> session.autocommit
          /\ SessionAfter(q).in_tx <=> session.in_tx
      BY <3>1, Effects
    <3> QED
      BY <1>2, <2>1, <2>3, <3>2 DEF OnTheWay, Answered
  <2>4. CASE fn \in {"commit", "rollback"}
    BY <1>2, <2>1, <2>4 DEF OnTheWay, Answered
  <2> QED
    BY <2>1, <2>2, <2>3, <2>4, OnlyWrites
<1>3. CASE OnTheWay /\ (Fails \/ Stored \/ Reconnected)
  BY <1>3 DEF OnTheWay, Fails, Stored, Reconnected
<1>4. CASE Called \/ Continued
  BY <1>4 DEF Called, Continued, Asks, Forgets
<1>5. CASE EndsFunction \/ Derails
  BY <1>5 DEF EndsFunction, Derails, Stays
<1>6. CASE Commit \/ Manages
  BY <1>6 DEF Commit, Manages, Forgets, ReplyOK
<1>7. CASE Drops \/ Rests
  BY <1>7 DEF Drops, Rests, sessionVars, bookVars, serverVars
<1> QED
  BY <1>2, <1>3, <1>4, <1>5, <1>6, <1>7, SessionKinds

\* Every step keeps what leads to RollbackTrueKeepsNone.
LEMMA NextRollback ==
  ASSUME BaseInv, OpenInv, RollbackInv, [SessionNext]_sessionVars
  PROVE  RollbackInv'
<1>1. ScriptOK /\ ReplyOK /\ session \in Sessions /\ committed \subseteq issued
  BY DEF BaseInv, SessionTypeOK, Sessions
<1> USE <1>1 DEF RollbackInv, UndoneInv, WriteInv, PendingInv, NonePersists
<1>2. CASE OnTheWay /\ Answered
  <2> DEFINE q == call.text
  <2>1. pc \in TextPcs /\ last = fn
    BY <1>2, OnlyWrites DEF Answered, TextPcs, ScriptOK
  <2>2. CASE fn = "start"
    BY <1>2, <2>1, <2>2, Effects DEF OnTheWay, Answered, ScriptOK
  <2>3. CASE fn \in {"use", "timeout", "write"}
    <3>1. q \in Writes \cup UseQueries \cup {timeout_query}
      BY <2>3 DEF ScriptOK
    <3>2. began /\ ~replaced => DurableAfter(q) = committed
      BY <2>1, <2>3, <3>1, Effects DEF OpenInv, Transactional
    <3> QED
      BY <1>2, <2>1, <2>3, <3>2 DEF OnTheWay, Answered
  <2>4. CASE fn = "rollback"
    <3>1. /\ q = rollback_query => SessionAfter(q).pending = {} /\ DurableAfter(q) = committed
          /\ q = set_autocommit_1 /\ session.pending = {} =>
               SessionAfter(q).pending = {} /\ DurableAfter(q) = committed
      BY Effects
    <3> QED
      BY <1>2, <2>1, <2>4, <3>1 DEF OnTheWay, Answered, ScriptOK
  <2>5. CASE fn = "commit"
    BY <1>2, <2>1, <2>5 DEF OnTheWay, Answered
  <2> QED
    BY <2>1, <2>2, <2>3, <2>4, <2>5, OnlyWrites
<1>3. CASE OnTheWay /\ (Fails \/ Stored \/ Reconnected)
  BY <1>3 DEF OnTheWay, Fails, Stored, Reconnected
<1>4. CASE Called
  <2>1. UndoneInv'
    BY <1>4 DEF Called, Asks, Forgets
  <2>2. WriteInv'
    BY <1>4 DEF Called, Asks
  <2>3. PendingInv'
    BY <1>4 DEF Called, Asks
  <2> QED
    BY <2>1, <2>2, <2>3
<1>5. CASE Continued
  BY <1>5 DEF Continued, Asks, ScriptOK
<1>6. CASE EndsFunction \/ Derails
  <2>1. /\ UNCHANGED <<began, replaced, last, committed>>
        /\ last = fn /\ fn' \in {"none", "undefined"}
        /\ fn \in {"commit", "rollback"} => fret' = fret /\ at = 2
        /\ promised' = promised \/ (fn = "write" /\ promised' = promised \cup {call.text})
    BY <1>6 DEF EndsFunction, Derails, Stays, ScriptOK
  <2>2. UndoneInv'
    <3>1. CASE began /\ ~replaced
      <4>1. CASE fn = "write"
        BY <2>1, <3>1, <4>1
      <4>2. CASE fn # "write"
        BY <2>1, <3>1, <4>2
      <4> QED
        BY <4>1, <4>2
    <3> QED
      BY <2>1, <3>1
  <2>3. WriteInv' /\ PendingInv'
    BY <1>6 DEF EndsFunction, Derails
  <2> QED
    BY <2>2, <2>3
<1>7. CASE Commit
  BY <1>7 DEF Commit, Forgets
<1>10. CASE Manages
  BY <1>10 DEF Manages, Forgets, ReplyOK
<1>8. CASE Drops
  BY <1>8 DEF Drops
<1>9. CASE Rests
  <2>1. UNCHANGED <<began, replaced, last, fret, fn, at, promised, committed, call, pc, ret,
                    session>>
    BY <1>9 DEF Rests, sessionVars, vars, scriptVars, bookVars, callVars, frameVars, serverVars
  <2>2. UndoneInv' /\ WriteInv' /\ PendingInv'
    BY <2>1
  <2> QED
    BY <2>2
<1> QED
  BY <1>2, <1>3, <1>4, <1>5, <1>6, <1>7, <1>8, <1>9, <1>10, SessionKinds

\* Every step keeps what leads to DatabaseIsKnown.
LEMMA NextDatabase ==
  ASSUME BaseInv, DatabaseInv, [SessionNext]_sessionVars
  PROVE  DatabaseInv'
<1>1. ScriptOK /\ ReplyOK /\ session \in Sessions
  BY DEF BaseInv, SessionTypeOK, Sessions
<1> USE <1>1, FreshTyped DEF DatabaseInv
<1>2. CASE OnTheWay /\ Answered
  <2>1. /\ pc \in TextPcs /\ (call.text \in UseQueries <=> fn = "use")
    BY <1>2, OnlyWrites DEF Answered, TextPcs
  <2>2. SessionAfter(call.text).db
          = IF call.text \in UseQueries THEN DatabaseOf(call.text) ELSE session.db
    BY AfterFields
  <2>3. /\ alive /\ pc = "text_query" /\ pc' = "text_store" /\ ret = "pending" /\ ret' = ret
        /\ UNCHANGED <<fn, db, call, doubt>>
        /\ session'.db = SessionAfter(call.text).db
    BY <1>2, <2>1 DEF OnTheWay, Answered, ReplyOK
  <2>4. CASE fn = "use"
    BY <2>1, <2>2, <2>3, <2>4
  <2>5. CASE fn # "use"
    BY <2>1, <2>2, <2>3, <2>5
  <2> QED
    BY <2>4, <2>5
<1>3. CASE OnTheWay /\ (Fails \/ Stored \/ Reconnected)
  <2>1. pc \in TextPcs /\ (fn = "use" => call.text \notin RowQueries)
    BY <1>3, OnlyWrites DEF TextPcs, Fails, Stored, Reconnected
  <2> QED
    BY <1>3, <2>1 DEF OnTheWay, Fails, Stored, Reconnected
<1>4. CASE Called
  BY <1>4 DEF Called, Asks
<1>5. CASE Continued
  BY <1>5 DEF Continued, Asks
<1>6. CASE EndsFunction \/ Derails
  BY <1>6 DEF EndsFunction, Derails, Stays, ReplyOK, Ended
<1>7. CASE Commit
  BY <1>7 DEF Commit, Sessions
<1>8. CASE Manages
  BY <1>8 DEF Manages
<1>9. CASE Drops \/ Rests
  BY <1>9 DEF Drops, Rests, sessionVars, vars, scriptVars, bookVars, callVars, frameVars,
              serverVars, history, handleVars
<1> QED
  BY <1>2, <1>3, <1>4, <1>5, <1>6, <1>7, <1>8, <1>9, SessionKinds

-----------------------------------------------------------------------------
\* Types, and that the server has a session exactly when the handle does.
THEOREM SessionTyping == SessionSpec => []SessionTypeOK
<1>1. BaseInv => SessionTypeOK
  BY DEF BaseInv
<1> QED
  BY <1>1, Base, PTL

\* The ends of a transaction switch autocommit on again, or report an error of
\* the statement that should have.
THEOREM AutocommitIsRestored == SessionSpec => []AutocommitRestored
<1>1. SessionInit => AutocommitInv
  BY FreshTyped DEF SessionInit, Init, AutocommitInv, AutocommitRestored, Done, Ended
<1>2. BaseInv /\ AutocommitInv /\ [SessionNext]_sessionVars => AutocommitInv'
  BY NextAutocommit
<1>3. AutocommitInv => AutocommitRestored
  BY DEF AutocommitInv
<1> QED
  BY <1>1, <1>2, <1>3, Base, PTL DEF SessionSpec

\* On one session, start_transaction is true only if it has begun nothing.
THEOREM StartIsInverted == SessionSpec => []StartReportsTheOpposite
<1>1. SessionInit => StartInv
  BY DEF SessionInit, StartInv, StartReportsTheOpposite, Done
<1>2. BaseInv /\ StartInv /\ [SessionNext]_sessionVars => StartInv'
  BY NextStart
<1>3. StartInv => StartReportsTheOpposite
  BY DEF StartInv
<1> QED
  BY <1>1, <1>2, <1>3, Base, PTL DEF SessionSpec

\* On one session, a commit that returns false has made durable every write
\* reported as done since start_transaction.
THEOREM FalseCommitsAll == SessionSpec => []CommitFalseKeepsAll
<1>1. SessionInit => CommitInv
  BY DEF SessionInit, CommitInv
<1>2. BaseInv /\ CommitInv /\ [SessionNext]_sessionVars => CommitInv'
  BY NextCommit
<1>3. CommitInv => CommitFalseKeepsAll
  BY DEF CommitInv, CommitFalseKeepsAll, Done
<1> QED
  BY <1>1, <1>2, <1>3, Base, PTL DEF SessionSpec

\* On one session, a rollback that returns true has left none of the writes of
\* the transaction.
THEOREM TrueRollsBackAll == SessionSpec => []RollbackTrueKeepsNone
<1>1. SessionInit => OpenInv /\ RollbackInv
  BY DEF SessionInit, OpenInv, RollbackInv, UndoneInv, WriteInv, PendingInv
<1>2. BaseInv /\ OpenInv /\ RollbackInv /\ [SessionNext]_sessionVars => OpenInv' /\ RollbackInv'
  BY NextOpen, NextRollback
<1>3. RollbackInv => RollbackTrueKeepsNone
  BY DEF RollbackInv, UndoneInv, NonePersists, RollbackTrueKeepsNone, Done
<1> QED
  BY <1>1, <1>2, <1>3, Base, PTL DEF SessionSpec

\* The session's database is the one a reconnect would select, but for the two
\* exceptions in doubt.
THEOREM DatabaseIsTheSame == SessionSpec => []DatabaseIsKnown
<1>1. SessionInit => DatabaseInv
  BY DEF SessionInit, Init, DatabaseInv
<1>2. BaseInv /\ DatabaseInv /\ [SessionNext]_sessionVars => DatabaseInv'
  BY NextDatabase
<1>3. DatabaseInv => DatabaseIsKnown
  BY DEF DatabaseInv, DatabaseIsKnown
<1> QED
  BY <1>1, <1>2, <1>3, Base, PTL DEF SessionSpec

\* get_timeout reads a null result only after an error the handle still shows.
THEOREM NullAfterError == SessionSpec => []TimeoutUndefinedAfterError
<1>1. BaseInv => TimeoutUndefinedAfterError
  BY DEF BaseInv, ReplyOK, Ended, ScriptOK, TextPcs, TimeoutUndefinedAfterError
<1> QED
  BY <1>1, Base, PTL

\* use_database can doubt only with reconnects allowed.
THEOREM DoubtIsOfReconnects == SessionSpec => DoubtNeedsReconnect
<1>1. BaseInv /\ [SessionNext]_sessionVars =>
        [fn = "use" /\ doubt' /\ ~doubt => allow_reconnects]_sessionVars
  <2> SUFFICES ASSUME BaseInv, [SessionNext]_sessionVars, fn = "use", doubt', ~doubt
               PROVE  allow_reconnects
    OBVIOUS
  <2>1. EndsFunction
    BY SessionKinds DEF Answered, Fails, Stored, Reconnected, Called, Continued, Derails,
       Asks, Commit, Manages, Drops, Rests, sessionVars, bookVars
  <2> QED
    BY <2>1 DEF BaseInv, ReplyOK, Ended, EndsFunction
<1> QED
  BY <1>1, Base, PTL DEF SessionSpec, DoubtNeedsReconnect
=============================================================================
