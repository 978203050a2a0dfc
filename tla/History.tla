------------------------------- MODULE History -------------------------------
(* The daemon's side of db8, History.cpp: rows that are put and deleted, the *)
(* read status that is merged into them, the queries of getToastList and     *)
(* getNotificationInfo, and the purge of expired rows once the clock is set  *)
(* (SystemTime.cpp). Every call is asynchronous: what it does to the table   *)
(* happens when db8 takes it. Calls to one service name are taken in order,  *)
(* but merges go by another name than the rest.                              *)
(*                                                                           *)
(* External: db8, the bus and the system clock.                              *)
EXTENDS Messages

CONSTANTS
    Rows,           \* toasts and notifications; an element is also its timestamp id
    Queries,        \* calls of getToastList and getNotificationInfo
    Selects,        \* the rows each query asks for, by displayId or sourceId
    Keys,           \* the rows each deletion asks for
    Retention,      \* how long a row without a schedule is kept
    MaxTime,        \* bound: the clock
    MaxCalls,       \* bound: calls on their way to db8
    MaxFaults       \* bound: calls that fail and restarts of the daemon

Never == MaxTime + 1    \* MAX_TIMESTAMP

ASSUME HistoryAssumption ==
    /\ Selects \in [Queries -> SUBSET Rows]
    /\ Keys \subseteq SUBSET Rows
    /\ {Retention, MaxTime, MaxCalls, MaxFaults} \subseteq Nat

VARIABLES
    db, readRows,   \* the table, and its rows with readStatus true
    dbCalls,        \* put, del and find on their way to palm://com.palm.db
    merges,         \* merge calls on their way to luna://com.webos.service.db
    answers,        \* replies to finds on their way here
    rows,           \* the table as the calls made so far would leave it
    saved, expire,  \* rows ever saved, and their schedule.expire
    request,        \* what the caller of each query was answered
    refs,           \* references held on the query's message
    got, due,       \* rows the caller got, and those there were when it asked
    marked,         \* rows marked read after a caller got them, and not unmarked
    clock,          \* the system time
    isSynced,       \* SystemTime::m_isSynced
    expireData,     \* History::m_expireData
    syncedAt,       \* the time of the purge that set it
    failures, restarts

tableVars == <<db, readRows>>
callVars  == <<dbCalls, merges, answers>>
rowVars   == <<rows, saved, expire, marked>>
queryVars == <<request, refs, got, due>>
timeVars  == <<clock, isSynced, expireData, syncedAt>>
faultVars == <<failures, restarts>>
vars == <<tableVars, callVars, rowVars, queryVars, timeVars, faultVars>>

Results  == {"none", "asked", "ok", "error", "lost", "twice"}
Times    == 0 .. MaxTime
Merges   == [row : Rows, status : BOOLEAN]
Answers  == [query : Queries, ok : BOOLEAN, found : SUBSET Rows]
DbCalls  == [add : SUBSET Rows, drop : SUBSET Rows, asks : SUBSET Queries]

Put(r)     == [add |-> {r}, drop |-> {}, asks |-> {}]
Del(gone)  == [add |-> {}, drop |-> gone, asks |-> {}]
Find(q)    == [add |-> {}, drop |-> {}, asks |-> {q}]

Init ==
    /\ db = {} /\ readRows = {} /\ rows = {}
    /\ dbCalls = <<>> /\ merges = <<>> /\ answers = {}
    /\ saved = {} /\ expire = [r \in Rows |-> Never] /\ marked = {}
    /\ request = [q \in Queries |-> "none"]
    /\ refs = [q \in Queries |-> 0]
    /\ got = [q \in Queries |-> {}] /\ due = [q \in Queries |-> {}]
    /\ clock = 0 /\ isSynced = FALSE /\ expireData = FALSE /\ syncedAt = 0
    /\ failures = 0 /\ restarts = 0

HasRoom == Len(dbCalls) + Len(merges) < MaxCalls
CanFail == failures + restarts < MaxFaults
Fail    == CanFail /\ failures' = failures + 1

-----------------------------------------------------------------------------
(* Changes of the table. Nobody is told when one fails: LSCallOneReply's     *)
(* result and cbDb8Response are only logged.                                 *)

\* A call to palm://com.palm.db: it goes out, or it cannot be made.
Call(m) ==
    /\ rows' = Apply(rows, m)
    /\ \/ /\ HasRoom
          /\ dbCalls' = Append(dbCalls, m)
          /\ UNCHANGED failures
       \/ Fail /\ UNCHANGED dbCalls

IsScheduleTaken(given) == given # 0 => isSynced

\* cb_createToast's check of an expiry that the request gives (0: none).
IsScheduleGood(given) == given # 0 => isSynced /\ given >= clock

\* The expiry a row is saved with: the one given, or else createToast's own, or
\* saveMessage's for a toast whose schedule says nothing and a notification.
Expiries(given) == IF given = 0 THEN {clock + Retention, Never} ELSE {given}

PutBesideOtherCalls(r, e) ==
    /\ rows' = rows \cup {r}
    /\ db' = db \cup {r}
    /\ UNCHANGED <<dbCalls, failures>>

PutRow(r, e) == Call(Put(r)) /\ UNCHANGED db

\* saveMessage, of a persistent toast or a notification.
SaveMessage(r, given, e) ==
    /\ r \notin saved
    /\ IsScheduleGood(given) /\ e \in Expiries(given)
    /\ saved' = saved \cup {r}
    /\ expire' = [expire EXCEPT ![r] = e]
    /\ PutRow(r, e)
    /\ UNCHANGED <<readRows, merges, answers, marked, queryVars, timeVars, restarts>>

\* One call of deleteMessage, deleteNotiMessageFromDb (which makes one for each
\* id) or resetUserNotifications.
DeleteMessage(gone) ==
    /\ Call(Del(gone))
    /\ UNCHANGED <<tableVars, merges, answers, saved, expire, marked, queryVars, timeVars, restarts>>

Seen == UNION {got[q] : q \in Queries}

MergeNoRow(r, status) == UNCHANGED merges

\* The merge call for the row that has the timestamp in the id.
MergeRow(r, status) ==
    /\ HasRoom
    /\ merges' = Append(merges, [row |-> r, status |-> status])

\* setReadStatus. A call that cannot be made is an error to the caller.
SetReadStatus(r, status) ==
    /\ r \in saved
    /\ \/ /\ MergeRow(r, status)
          /\ marked' = IF status /\ r \in Seen THEN marked \cup {r} ELSE marked \ {r}
          /\ UNCHANGED failures
       \/ Fail /\ UNCHANGED <<merges, marked>>
    /\ UNCHANGED <<tableVars, dbCalls, answers, rows, saved, expire, queryVars, timeVars, restarts>>

-----------------------------------------------------------------------------
(* Queries.                                                                  *)

\* LSMessageReply. A second one would show.
Reply(q, result) == request' = [request EXCEPT ![q] = IF @ = "asked" THEN result ELSE "twice"]

AskKeepingReference(q) ==
    /\ request[q] = "none"
    /\ due' = [due EXCEPT ![q] = rows \cap Selects[q]]
    /\ refs' = [refs EXCEPT ![q] = @ + 1]
    /\ \/ /\ HasRoom
          /\ dbCalls' = Append(dbCalls, Find(q))
          /\ request' = [request EXCEPT ![q] = "asked"]
          /\ UNCHANGED failures
       \/ Fail /\ request' = [request EXCEPT ![q] = "error"] /\ UNCHANGED dbCalls
    /\ UNCHANGED <<tableVars, merges, answers, rowVars, got, timeVars, restarts>>

\* cb_getNotificationInfo and cb_getToastList, of a request that is malformed or
\* that its caller may not make: db8 is not asked.
RefuseQuery(q) ==
    /\ request[q] = "none"
    /\ request' = [request EXCEPT ![q] = "error"]
    /\ UNCHANGED <<tableVars, callVars, rowVars, refs, got, due, timeVars, faultVars>>

\* The same handlers with selectToastMessage and selectMessage: the message is
\* referenced and travels with the call, or it is answered at once.
Ask(q) ==
    /\ request[q] = "none"
    /\ due' = [due EXCEPT ![q] = rows \cap Selects[q]]
    /\ \/ /\ HasRoom
          /\ dbCalls' = Append(dbCalls, Find(q))
          /\ request' = [request EXCEPT ![q] = "asked"]
          /\ refs' = [refs EXCEPT ![q] = @ + 1]
          /\ UNCHANGED failures
       \/ /\ Fail
          /\ request' = [request EXCEPT ![q] = "error"]
          /\ UNCHANGED <<dbCalls, refs>>
    /\ UNCHANGED <<tableVars, merges, answers, rowVars, got, timeVars, restarts>>

CallerInSlot(a) == CHOOSE q \in Queries : refs[q] > 0

\* "The message this reply belongs to travelled with the call."
CallerOf(a) == a.query

AnswerIfFound(a) ==
    IF a.ok
    THEN /\ Reply(CallerOf(a), "ok")
         /\ refs' = [refs EXCEPT ![CallerOf(a)] = @ - 1]
         /\ got' = [got EXCEPT ![CallerOf(a)] = a.found]
    ELSE UNCHANGED queryVars

AnswerUnreferencingTwice(a) ==
    /\ Reply(CallerOf(a), IF a.ok THEN "ok" ELSE "error")
    /\ refs' = [refs EXCEPT ![CallerOf(a)] = @ - 2]
    /\ got' = [got EXCEPT ![CallerOf(a)] = a.found]

\* The end of cbDb8getNotiResponse and cbDb8getToastResponse.
AnswerCaller(a) ==
    /\ Reply(CallerOf(a), IF a.ok THEN "ok" ELSE "error")
    /\ refs' = [refs EXCEPT ![CallerOf(a)] = @ - 1]
    /\ got' = [got EXCEPT ![CallerOf(a)] = a.found]

GetResponse(a) ==
    /\ a \in answers
    /\ answers' = answers \ {a}
    /\ AnswerCaller(a)
    /\ UNCHANGED due
    /\ UNCHANGED <<tableVars, dbCalls, merges, rowVars, timeVars, faultVars>>

-----------------------------------------------------------------------------
(* The clock and the purge.                                                  *)

\* onSystemTimeSync with purgeExpireData: once in the life of a process.
OnSystemTimeSync(sync) ==
    IF sync /\ ~expireData
    THEN /\ expireData' = TRUE
         /\ syncedAt' = clock
         /\ Call(Del({r \in saved : expire[r] < clock}))
    ELSE UNCHANGED <<expireData, syncedAt, dbCalls, rows, failures>>

\* cbGetSystemTime: the service says whether the source of its time is a real
\* one, or none or the factory's. Only a change is signalled (setSync).
GetSystemTime(synced) ==
    /\ synced # isSynced
    /\ isSynced' = synced
    /\ OnSystemTimeSync(synced)
    /\ UNCHANGED <<tableVars, merges, answers, saved, expire, marked, queryVars, clock, restarts>>

\* Time goes by, or the clock is set: to any time before a process learnt that
\* it is right, and forward after that.
ClockMoves ==
    /\ \E t \in Times : (expireData => t > clock) /\ clock' = t
    /\ UNCHANGED <<tableVars, callVars, rowVars, queryVars, isSynced, expireData, syncedAt,
                   faultVars>>

-----------------------------------------------------------------------------
(* db8.                                                                      *)

\* The oldest call is taken, or fails. A find is answered either way.
TakeCall ==
    /\ dbCalls # <<>>
    /\ dbCalls' = Tail(dbCalls)
    /\ LET m == Head(dbCalls)
       IN  \/ /\ db' = Apply(db, m)
              /\ readRows' = readRows \ m.drop
              /\ answers' = answers \cup {[query |-> q, ok |-> TRUE, found |-> db \cap Selects[q]] :
                                             q \in m.asks}
              /\ UNCHANGED failures
           \/ /\ Fail
              /\ answers' = answers \cup {[query |-> q, ok |-> FALSE, found |-> {}] : q \in m.asks}
              /\ UNCHANGED tableVars
    /\ UNCHANGED <<merges, rowVars, queryVars, timeVars, restarts>>

\* A merge finds its row in the table or changes nothing, or it fails.
TakeMerge ==
    /\ merges # <<>>
    /\ merges' = Tail(merges)
    /\ LET m == Head(merges)
       IN  \/ /\ readRows' = IF m.status THEN readRows \cup ({m.row} \cap db)
                             ELSE readRows \ {m.row}
              /\ UNCHANGED failures
           \/ Fail /\ UNCHANGED readRows
    /\ UNCHANGED <<db, dbCalls, answers, rowVars, queryVars, timeVars, restarts>>

-----------------------------------------------------------------------------
\* The daemon ends and is started again. Calls it had not yet written to the
\* bus are lost, those that were are taken, and nobody waits for answers.
Restart ==
    /\ failures + restarts < MaxFaults
    /\ restarts' = restarts + 1
    /\ \E n \in 0 .. Len(dbCalls) :
          dbCalls' = [i \in 1 .. n |-> [dbCalls[i] EXCEPT !.asks = {}]]
    /\ rows' = After(db, dbCalls')
    /\ \E n \in 0 .. Len(merges) :
          /\ merges' = SubSeq(merges, 1, n)
          /\ marked' = marked \ {merges[i].row : i \in n + 1 .. Len(merges)}
    /\ answers' = {}
    /\ request' = [q \in Queries |-> IF request[q] = "asked" THEN "lost" ELSE request[q]]
    /\ refs' = [q \in Queries |-> 0]
    /\ isSynced' = FALSE /\ expireData' = FALSE /\ syncedAt' = 0
    /\ UNCHANGED <<tableVars, saved, expire, got, due, clock, failures>>

Next ==
    \/ \E r \in Rows, given \in Times, e \in 0 .. MaxTime + Retention + 1 : SaveMessage(r, given, e)
    \/ \E gone \in Keys : DeleteMessage(gone)
    \/ \E r \in Rows, status \in BOOLEAN : SetReadStatus(r, status)
    \/ \E q \in Queries : Ask(q) \/ RefuseQuery(q)
    \/ \E a \in answers : GetResponse(a)
    \/ \E synced \in BOOLEAN : GetSystemTime(synced)
    \/ ClockMoves
    \/ TakeCall
    \/ TakeMerge
    \/ Restart

\* db8 takes its calls, and the main loop dispatches their replies.
Fairness ==
    /\ WF_vars(TakeCall)
    /\ WF_vars(\E a \in answers : GetResponse(a))

Spec == Init /\ [][Next]_vars /\ Fairness

-----------------------------------------------------------------------------
(* Properties.                                                               *)

\* Types; and only rows of the table are read, whichever of a merge and a
\* deletion db8 takes first (setReadStatus, deleteMessage).
TypeOK ==
    /\ db \subseteq Rows
    /\ readRows \subseteq db
    /\ dbCalls \in Seq(DbCalls)
    /\ merges \in Seq(Merges)
    /\ answers \subseteq Answers
    /\ rows \subseteq Rows /\ saved \subseteq Rows /\ marked \subseteq Rows
    /\ expire \in [Rows -> Nat]
    /\ request \in [Queries -> Results]
    /\ refs \in [Queries -> Nat]
    /\ got \in [Queries -> SUBSET Rows]
    /\ due \in [Queries -> SUBSET Rows]
    /\ clock \in Nat /\ syncedAt \in Nat
    /\ isSynced \in BOOLEAN /\ expireData \in BOOLEAN
    /\ failures \in Nat /\ restarts \in Nat

\* The table comes to what the calls were made for, in the order they were
\* made: NotificationService may treat each as done at once (Store).
RowsAsCalled == failures = 0 => rows = After(db, dbCalls)

\* A query is answered with the rows of the moment it was asked: with all that
\* was saved and without all that was deleted before, and although other
\* queries were asked and answered meanwhile (the comment at History.cpp:165).
AnswersAsOfCall ==
    \A q \in Queries :
        failures = 0 /\ request[q] = "ok" => got[q] = due[q]

\* Each query is answered once, and a reference on its message is held exactly
\* while it waits (LSMessageRef and LSMessageUnref).
ReferencesBalance ==
    \A q \in Queries :
        request[q] # "twice" /\ refs[q] = (IF request[q] = "asked" THEN 1 ELSE 0)

\* A query that waits is waited for: its find is on its way to db8 or the reply
\* to it is on its way back, whatever failed and whichever process ended. The
\* safety half of QueryIsAnswered.
WaitingIsUnderWay ==
    \A q \in Queries : request[q] = "asked" =>
        \/ \E i \in DOMAIN dbCalls : q \in dbCalls[i].asks
        \/ \E a \in answers : a.query = q

\* A query that was asked is answered, with an error if need be, or lost with
\* the process that was to answer it.
QueryIsAnswered == \A q \in Queries : request[q] = "asked" ~> request[q] # "asked"

\* What had expired when a process learnt that its clock is right does not
\* stay, and nothing that had expired by then comes in later, whatever rows
\* were saved by the clock that was wrong (createToast's checks and the purge).
ExpiredAtSyncIsGone ==
    failures = 0 /\ expireData => \A r \in rows : expire[r] >= syncedAt

\* A merge may pass the put of its row, as they go by different service names,
\* and is lost then. Not if the row was given to a caller first: it is marked
\* read once the merge is done, for as long as it exists.
MarkIsKept ==
    failures = 0 =>
        \A r \in marked \cap db :
            (\A i \in DOMAIN merges : merges[i].row # r) => r \in readRows
=============================================================================
