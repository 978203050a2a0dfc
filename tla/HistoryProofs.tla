--------------------------- MODULE HistoryProofs ----------------------------
(* What holds of History for every value of its constants: any rows, queries, *)
(* lengths of the channels to db8, times, failures and restarts.              *)
EXTENDS History, TLAPS

-----------------------------------------------------------------------------
(* The parts of the inductive invariant.                                     *)

\* A query waits in one place at most, and whoever waits has asked.
AskedOnce ==
    \A q \in Queries :
        /\ \A i, j \in DOMAIN dbCalls :
              q \in dbCalls[i].asks /\ q \in dbCalls[j].asks => i = j
        /\ \A a, b \in answers : a.query = q /\ b.query = q => a = b
        /\ \A i \in DOMAIN dbCalls : \A a \in answers : ~(q \in dbCalls[i].asks /\ a.query = q)
        /\ (\E i \in DOMAIN dbCalls : q \in dbCalls[i].asks) => request[q] = "asked"
        /\ (\E a \in answers : a.query = q) => request[q] = "asked"
        /\ refs[q] = IF request[q] = "asked" THEN 1 ELSE 0
        /\ request[q] # "twice"

\* The rows that db8 has taken, as far as anybody can tell.
Taken == db \cup marked \cup Seen \cup UNION {a.found : a \in answers}

\* A row is put once: what was taken does not come again.
PutOnce ==
    /\ rows \subseteq saved
    /\ Taken \subseteq saved
    /\ \A i \in DOMAIN dbCalls : dbCalls[i].add \subseteq saved \ Taken
    /\ \A i, j \in DOMAIN dbCalls : i # j => dbCalls[i].add \cap dbCalls[j].add = {}

\* Is x in the table when the first k calls of those on their way were taken?
Reached(x, held, calls, k) ==
    \/ \E j \in 1 .. k : x \in calls[j].add /\ \A n \in 1 .. k : n > j => x \notin calls[n].drop
    \/ x \in held /\ \A n \in 1 .. k : x \notin calls[n].drop

\* A query will find, and has found, what it is to find.
FindsAsDue ==
    failures = 0 =>
        /\ \A i \in DOMAIN dbCalls : \A q \in dbCalls[i].asks : \A x \in Rows :
              x \in due[q] <=> x \in Selects[q] /\ Reached(x, db, dbCalls, i - 1)
        /\ \A a \in answers : a.ok => a.found = due[a.query]

ClockBounds == clock <= MaxTime /\ syncedAt <= clock /\ (~expireData => syncedAt = 0)

\* The last merge on its way for a marked row marks it, or it is marked.
MarksPending ==
    failures = 0 =>
        \A r \in marked :
            \/ \E i \in DOMAIN merges :
                  /\ merges[i] = [row |-> r, status |-> TRUE]
                  /\ \A j \in DOMAIN merges : j > i => merges[j].row # r
            \/ (\A i \in DOMAIN merges : merges[i].row # r) /\ (r \in db => r \in readRows)

Inv ==
    /\ TypeOK
    /\ AskedOnce
    /\ PutOnce
    /\ RowsAsCalled
    /\ FindsAsDue /\ AnswersAsOfCall
    /\ ClockBounds /\ ExpiredAtSyncIsGone
    /\ MarksPending

-----------------------------------------------------------------------------
(* Lemmas about sequences of calls.                                          *)

LEMMA CallTypes ==
    /\ \A r \in Rows : Put(r) \in DbCalls /\ Put(r).asks = {}
    /\ \A gone \in SUBSET Rows : Del(gone) \in DbCalls /\ Del(gone).asks = {}
    /\ \A q \in Queries : Find(q) \in DbCalls
  BY DEF Put, Del, Find, DbCalls

\* The elements of a sequence that one was appended to.
LEMMA AppendElements ==
    ASSUME NEW S, NEW s \in Seq(S), NEW m \in S
    PROVE  /\ Append(s, m) \in Seq(S)
           /\ Len(Append(s, m)) = Len(s) + 1
           /\ DOMAIN Append(s, m) = DOMAIN s \cup {Len(s) + 1}
           /\ Len(s) + 1 \notin DOMAIN s
           /\ \A i \in DOMAIN s : Append(s, m)[i] = s[i]
           /\ Append(s, m)[Len(s) + 1] = m
  OBVIOUS

\* The elements of a sequence whose first one was taken.
LEMMA TailElements ==
    ASSUME NEW S, NEW s \in Seq(S), s # <<>>
    PROVE  /\ Tail(s) \in Seq(S)
           /\ Len(Tail(s)) = Len(s) - 1
           /\ Head(s) = s[1] /\ 1 \in DOMAIN s
           /\ \A i \in DOMAIN Tail(s) : i + 1 \in DOMAIN s /\ i + 1 # 1 /\ Tail(s)[i] = s[i + 1]
           /\ \A i \in DOMAIN s : i # 1 => i - 1 \in DOMAIN Tail(s)
  OBVIOUS

LEMMA CallParts ==
    ASSUME NEW calls \in Seq(DbCalls), NEW i \in DOMAIN calls
    PROVE  /\ calls[i].add \in SUBSET Rows
           /\ calls[i].drop \in SUBSET Rows
           /\ calls[i].asks \in SUBSET Queries
  <1>1. calls[i] \in DbCalls
    OBVIOUS
  <1> QED BY <1>1 DEF DbCalls

\* Apply and After, by their members.
LEMMA ApplyMembers ==
    ASSUME NEW held, NEW m, NEW x
    PROVE  x \in Apply(held, m) <=> x \in m.add \/ (x \in held /\ x \notin m.drop)
  BY DEF Apply

LEMMA AfterMembers ==
    ASSUME NEW calls \in Seq(DbCalls), NEW held, NEW x
    PROVE  x \in After(held, calls) <=> Reached(x, held, calls, Len(calls))
  <1>1. DOMAIN calls = 1 .. Len(calls)
    OBVIOUS
  <1>2. \A i \in DOMAIN calls : x \in calls[i].add => x \in UNION {calls[n].add : n \in DOMAIN calls}
    OBVIOUS
  <1> QED BY <1>1, <1>2 DEF After, Reached

LEMMA AfterRows ==
    ASSUME NEW calls \in Seq(DbCalls), NEW held \in SUBSET Rows
    PROVE  After(held, calls) \in SUBSET Rows
  <1>1. \A i \in DOMAIN calls : calls[i].add \in SUBSET Rows
    BY CallParts
  <1> QED BY <1>1 DEF After

\* A call that is appended changes nothing for the calls before it, ...
LEMMA ReachedBefore ==
    ASSUME NEW calls \in Seq(DbCalls), NEW m \in DbCalls, NEW held, NEW x,
           NEW k \in Nat, k <= Len(calls)
    PROVE  Reached(x, held, Append(calls, m), k) <=> Reached(x, held, calls, k)
  <1>1. \A n \in 1 .. k : Append(calls, m)[n] = calls[n]
    OBVIOUS
  <1> QED BY <1>1 DEF Reached

\* ... and is the last one to be taken.
LEMMA ReachedLast ==
    ASSUME NEW calls \in Seq(DbCalls), NEW m \in DbCalls, NEW held, NEW x
    PROVE  Reached(x, held, Append(calls, m), Len(calls) + 1)
               <=> x \in m.add \/ (Reached(x, held, calls, Len(calls)) /\ x \notin m.drop)
  <1> DEFINE k == Len(calls)
             s == Append(calls, m)
  <1>1. k \in Nat /\ s[k + 1] = m /\ \A n \in 1 .. k : s[n] = calls[n]
    OBVIOUS
  <1>2. 1 .. k + 1 = 1 .. k \cup {k + 1} /\ \A n \in 1 .. k : n < k + 1
    BY <1>1
  <1>3. ASSUME Reached(x, held, s, k + 1), x \notin m.add
        PROVE  Reached(x, held, calls, k) /\ x \notin m.drop
    <2>1. CASE x \in held /\ \A n \in 1 .. k + 1 : x \notin s[n].drop
      BY <1>1, <1>2, <2>1 DEF Reached
    <2>2. CASE \E j \in 1 .. k + 1 :
                  x \in s[j].add /\ \A n \in 1 .. k + 1 : n > j => x \notin s[n].drop
      <3>1. PICK j \in 1 .. k + 1 :
                  x \in s[j].add /\ \A n \in 1 .. k + 1 : n > j => x \notin s[n].drop
        BY <2>2
      <3>2. j \in 1 .. k
        BY <1>1, <1>2, <1>3, <3>1
      <3> QED BY <1>1, <1>2, <3>1, <3>2 DEF Reached
    <2> QED BY <1>3, <2>1, <2>2 DEF Reached
  <1>4. ASSUME x \in m.add PROVE Reached(x, held, s, k + 1)
    BY <1>1, <1>2, <1>4 DEF Reached
  <1>5. ASSUME Reached(x, held, calls, k), x \notin m.drop PROVE Reached(x, held, s, k + 1)
    <2>1. CASE x \in held /\ \A n \in 1 .. k : x \notin calls[n].drop
      BY <1>1, <1>2, <1>5, <2>1 DEF Reached
    <2>2. CASE \E j \in 1 .. k :
                  x \in calls[j].add /\ \A n \in 1 .. k : n > j => x \notin calls[n].drop
      BY <1>1, <1>2, <1>5, <2>2 DEF Reached
    <2> QED BY <1>5, <2>1, <2>2 DEF Reached
  <1> QED BY <1>3, <1>4, <1>5

\* Taking the first call leaves the same ahead of the others.
LEMMA ReachedTail ==
    ASSUME NEW calls \in Seq(DbCalls), calls # <<>>, NEW held, NEW x, NEW k \in 1 .. Len(calls)
    PROVE  Reached(x, Apply(held, Head(calls)), Tail(calls), k - 1) <=> Reached(x, held, calls, k)
  <1> DEFINE t == Tail(calls)
             g == Apply(held, Head(calls))
  <1>1. /\ Head(calls) = calls[1]
        /\ \A n \in 1 .. k - 1 : n + 1 \in 1 .. k /\ t[n] = calls[n + 1]
        /\ \A n \in 1 .. k : n = 1 \/ (n - 1 \in 1 .. k - 1 /\ calls[n] = t[n - 1])
        /\ 1 \in 1 .. k
    OBVIOUS
  <1>2. x \in g <=> x \in calls[1].add \/ (x \in held /\ x \notin calls[1].drop)
    BY <1>1, ApplyMembers
  <1>3. (\A n \in 1 .. k - 1 : x \notin t[n].drop)
            <=> (\A n \in 1 .. k : n > 1 => x \notin calls[n].drop)
    <2>1. \A n \in 1 .. k : n > 1 <=> n # 1
      OBVIOUS
    <2>2. \A n \in 1 .. k - 1 : n + 1 # 1
      OBVIOUS
    <2> QED BY <1>1, <2>1, <2>2
  <1>4. ASSUME Reached(x, g, t, k - 1) PROVE Reached(x, held, calls, k)
    <2>1. CASE x \in g /\ \A n \in 1 .. k - 1 : x \notin t[n].drop
      <3>1. \A n \in 1 .. k : n > 1 => x \notin calls[n].drop
        BY <1>3, <2>1
      <3>2. CASE x \in calls[1].add
        BY <1>1, <3>1, <3>2 DEF Reached
      <3>3. CASE x \in held /\ x \notin calls[1].drop
        BY <1>1, <3>1, <3>3 DEF Reached
      <3> QED BY <1>2, <2>1, <3>2, <3>3
    <2>2. CASE \E j \in 1 .. k - 1 :
                  x \in t[j].add /\ \A n \in 1 .. k - 1 : n > j => x \notin t[n].drop
      <3>1. PICK j \in 1 .. k - 1 :
                  x \in t[j].add /\ \A n \in 1 .. k - 1 : n > j => x \notin t[n].drop
        BY <2>2
      <3>2. j + 1 \in 1 .. k /\ x \in calls[j + 1].add
        BY <1>1, <3>1
      <3>3. ASSUME NEW n \in 1 .. k, n > j + 1 PROVE x \notin calls[n].drop
        BY <1>1, <3>1, <3>3
      <3> QED BY <3>2, <3>3 DEF Reached
    <2> QED BY <1>4, <2>1, <2>2 DEF Reached
  <1>5. ASSUME Reached(x, held, calls, k) PROVE Reached(x, g, t, k - 1)
    <2>1. CASE x \in held /\ \A n \in 1 .. k : x \notin calls[n].drop
      BY <1>1, <1>2, <1>3, <2>1 DEF Reached
    <2>2. CASE \E j \in 1 .. k :
                  x \in calls[j].add /\ \A n \in 1 .. k : n > j => x \notin calls[n].drop
      <3>1. PICK j \in 1 .. k :
                  x \in calls[j].add /\ \A n \in 1 .. k : n > j => x \notin calls[n].drop
        BY <2>2
      <3>2. CASE j = 1
        BY <1>2, <1>3, <3>1, <3>2 DEF Reached
      <3>3. CASE j # 1
        <4>1. j - 1 \in 1 .. k - 1 /\ x \in t[j - 1].add
          BY <1>1, <3>1, <3>3
        <4>2. ASSUME NEW n \in 1 .. k - 1, n > j - 1 PROVE x \notin t[n].drop
          BY <1>1, <3>1, <4>2
        <4> QED BY <4>1, <4>2 DEF Reached
      <3> QED BY <3>2, <3>3
    <2> QED BY <1>5, <2>1, <2>2 DEF Reached
  <1> QED BY <1>4, <1>5

-----------------------------------------------------------------------------
(* What the actions that make a call do.                                     *)

\* A call was put on its way, or failed.
Made(m) ==
    \/ dbCalls' = Append(dbCalls, m) /\ failures' = failures
    \/ dbCalls' = dbCalls /\ failures' = failures + 1

LEMMA CallMakes ==
    ASSUME NEW m, Call(m)
    PROVE  rows' = Apply(rows, m) /\ Made(m)
  BY DEF Call, Made, Fail

LEMMA MadeTypes ==
    ASSUME TypeOK, NEW m \in DbCalls, Made(m)
    PROVE  /\ dbCalls' \in Seq(DbCalls)
           /\ failures' \in Nat
           /\ failures' = 0 => failures = 0 /\ dbCalls' = Append(dbCalls, m)
  <1>1. dbCalls \in Seq(DbCalls) /\ failures \in Nat
    BY DEF TypeOK
  <1> QED BY <1>1 DEF Made

LEMMA RowsTypes ==
    ASSUME TypeOK, NEW m \in DbCalls
    PROVE  Apply(rows, m) \in SUBSET Rows /\ Apply(db, m) \in SUBSET Rows
  BY DEF TypeOK, DbCalls, Apply

LEMMA SaveMakes ==
    ASSUME NEW r \in Rows, NEW given, NEW e, SaveMessage(r, given, e)
    PROVE  /\ Put(r) \in DbCalls /\ Put(r).asks = {}
           /\ Made(Put(r)) /\ rows' = Apply(rows, Put(r))
           /\ UNCHANGED <<db, readRows, merges, answers, marked, queryVars, timeVars, restarts>>
  BY CallMakes, CallTypes DEF SaveMessage, PutRow, tableVars

LEMMA DeleteMakes ==
    ASSUME NEW gone \in SUBSET Rows, DeleteMessage(gone)
    PROVE  /\ Del(gone) \in DbCalls /\ Del(gone).asks = {}
           /\ Made(Del(gone)) /\ rows' = Apply(rows, Del(gone))
           /\ UNCHANGED <<db, readRows, merges, answers, saved, expire, marked, queryVars, timeVars,
                          restarts>>
  BY CallMakes, CallTypes DEF DeleteMessage, tableVars

LEMMA AskMakes ==
    ASSUME NEW q \in Queries, Ask(q)
    PROVE  /\ Find(q) \in DbCalls
           /\ Made(Find(q))
           /\ UNCHANGED <<db, readRows, merges, answers, rowVars, got, timeVars, restarts>>
  BY CallTypes DEF Ask, Made, Fail, tableVars

\* Of what the invariants relate, a refused query changes its answer alone.
Refusal == \E q \in Queries : RefuseQuery(q)

LEMMA RefusalKeeps ==
    ASSUME Refusal
    PROVE  UNCHANGED <<tableVars, callVars, rowVars, refs, got, due, timeVars, faultVars>>
  BY DEF Refusal, RefuseQuery

\* The rows the purge asks for.
Expired == {r \in saved : expire[r] < clock}

LEMMA SyncMakes ==
    ASSUME TypeOK, NEW synced \in BOOLEAN, GetSystemTime(synced)
    PROVE  /\ UNCHANGED <<db, readRows, merges, answers, saved, expire, marked, queryVars, clock,
                          restarts>>
           /\ \/ /\ expireData' = TRUE /\ syncedAt' = clock
                 /\ Del(Expired) \in DbCalls /\ Del(Expired).asks = {}
                 /\ Made(Del(Expired)) /\ rows' = Apply(rows, Del(Expired))
              \/ UNCHANGED <<expireData, syncedAt, dbCalls, rows, failures>>
  <1>1. Expired \in SUBSET Rows
    BY DEF Expired, TypeOK
  <1> QED BY <1>1, CallMakes, CallTypes DEF GetSystemTime, OnSystemTimeSync, Expired, tableVars

-----------------------------------------------------------------------------
(* Types.                                                                    *)

LEMMA ConstantTypes ==
    /\ MaxTime \in Nat /\ Retention \in Nat
    /\ \A q \in Queries : Selects[q] \in SUBSET Rows
  BY HistoryAssumption

LEMMA InitTypes == Init => TypeOK
  <1> SUFFICES ASSUME Init PROVE TypeOK
    OBVIOUS
  <1>1. expire \in [Rows -> Nat]
    BY ConstantTypes DEF Init, Never
  <1>2. /\ dbCalls \in Seq(DbCalls) /\ merges \in Seq(Merges) /\ answers \subseteq Answers
    BY DEF Init
  <1>3. /\ request \in [Queries -> Results] /\ refs \in [Queries -> Nat]
        /\ got \in [Queries -> SUBSET Rows] /\ due \in [Queries -> SUBSET Rows]
    BY DEF Init, Results
  <1> QED BY <1>1, <1>2, <1>3 DEF Init, TypeOK

LEMMA RestartCalls ==
    ASSUME TypeOK, Restart
    PROVE  /\ dbCalls' \in Seq(DbCalls)
           /\ Len(dbCalls') <= Len(dbCalls)
           /\ \A i \in DOMAIN dbCalls' :
                 /\ i \in DOMAIN dbCalls
                 /\ dbCalls'[i].add = dbCalls[i].add
                 /\ dbCalls'[i].drop = dbCalls[i].drop
                 /\ dbCalls'[i].asks = {}
           /\ rows' = After(db, dbCalls')
  <1>1. dbCalls \in Seq(DbCalls)
    BY DEF TypeOK
  <1>2. PICK n \in 0 .. Len(dbCalls) :
            dbCalls' = [i \in 1 .. n |-> [dbCalls[i] EXCEPT !.asks = {}]]
    BY DEF Restart
  <1>3. \A i \in 1 .. n : i \in DOMAIN dbCalls /\ dbCalls[i] \in DbCalls
    BY <1>1
  <1>4. \A i \in 1 .. n : /\ dbCalls'[i] \in DbCalls
                          /\ dbCalls'[i].add = dbCalls[i].add
                          /\ dbCalls'[i].drop = dbCalls[i].drop
                          /\ dbCalls'[i].asks = {}
    BY <1>2, <1>3 DEF DbCalls
  <1>5. dbCalls' \in Seq(DbCalls) /\ Len(dbCalls') = n /\ DOMAIN dbCalls' = 1 .. n
    BY <1>1, <1>2, <1>4
  <1>6. n <= Len(dbCalls)
    BY <1>1
  <1> QED BY <1>3, <1>4, <1>5, <1>6 DEF Restart

LEMMA RestartMerges ==
    ASSUME TypeOK, Restart
    PROVE  \E n \in 0 .. Len(merges) :
              /\ merges' = SubSeq(merges, 1, n)
              /\ merges' \in Seq(Merges)
              /\ DOMAIN merges' = 1 .. n
              /\ \A i \in 1 .. n : i \in DOMAIN merges /\ merges'[i] = merges[i]
              /\ marked' = marked \ {merges[i].row : i \in n + 1 .. Len(merges)}
  <1>1. merges \in Seq(Merges)
    BY DEF TypeOK
  <1>2. PICK n \in 0 .. Len(merges) :
            /\ merges' = SubSeq(merges, 1, n)
            /\ marked' = marked \ {merges[i].row : i \in n + 1 .. Len(merges)}
    BY DEF Restart
  <1> QED BY <1>1, <1>2

LEMMA TakeCallParts ==
    ASSUME TypeOK, TakeCall
    PROVE  /\ Head(dbCalls) \in DbCalls
           /\ \/ /\ db' = Apply(db, Head(dbCalls))
                 /\ readRows' = readRows \ Head(dbCalls).drop
                 /\ answers' = answers \cup
                        {[query |-> q, ok |-> TRUE, found |-> db \cap Selects[q]] :
                            q \in Head(dbCalls).asks}
                 /\ UNCHANGED failures
              \/ /\ failures' = failures + 1
                 /\ answers' = answers \cup {[query |-> q, ok |-> FALSE, found |-> {}] :
                                                q \in Head(dbCalls).asks}
                 /\ UNCHANGED <<db, readRows>>
  <1>1. dbCalls \in Seq(DbCalls) /\ dbCalls # <<>>
    BY DEF TypeOK, TakeCall
  <1>2. Head(dbCalls) \in DbCalls
    BY <1>1
  <1> QED BY <1>2 DEF TakeCall, Fail, tableVars

LEMMA TypeStep ==
    ASSUME TypeOK, AskedOnce, [Next]_vars
    PROVE  TypeOK'
  <1>1. ASSUME NEW r \in Rows, NEW given \in Times, NEW e \in 0 .. MaxTime + Retention + 1,
               SaveMessage(r, given, e)
        PROVE  TypeOK'
    <2>1. e \in Nat
      BY HistoryAssumption
    <2>2. dbCalls' \in Seq(DbCalls) /\ failures' \in Nat /\ rows' \in SUBSET Rows
      BY <1>1, SaveMakes, MadeTypes, RowsTypes
    <2> QED BY <1>1, <2>1, <2>2, SaveMakes DEF SaveMessage, TypeOK, queryVars, timeVars
  <1>2. ASSUME NEW gone \in Keys, DeleteMessage(gone)
        PROVE  TypeOK'
    <2>1. gone \in SUBSET Rows
      BY HistoryAssumption
    <2>2. dbCalls' \in Seq(DbCalls) /\ failures' \in Nat /\ rows' \in SUBSET Rows
      BY <1>2, <2>1, DeleteMakes, MadeTypes, RowsTypes
    <2> QED BY <1>2, <2>1, <2>2, DeleteMakes DEF TypeOK, queryVars, timeVars
  <1>3. ASSUME NEW r \in Rows, NEW status \in BOOLEAN, SetReadStatus(r, status)
        PROVE  TypeOK'
    <2>1. merges \in Seq(Merges) /\ [row |-> r, status |-> status] \in Merges
      BY DEF TypeOK, Merges
    <2>2. merges' \in Seq(Merges) /\ marked' \in SUBSET Rows /\ failures' \in Nat
      <3>1. CASE /\ MergeRow(r, status) /\ UNCHANGED failures
                 /\ marked' = IF status /\ r \in Seen THEN marked \cup {r} ELSE marked \ {r}
        BY <2>1, <3>1 DEF MergeRow, TypeOK
      <3>2. CASE Fail /\ UNCHANGED <<merges, marked>>
        BY <2>1, <3>2 DEF Fail, TypeOK
      <3> QED BY <1>3, <3>1, <3>2 DEF SetReadStatus
    <2> QED BY <1>3, <2>2 DEF SetReadStatus, TypeOK, tableVars, queryVars, timeVars
  <1>4. ASSUME NEW q \in Queries, Ask(q)
        PROVE  TypeOK'
    <2>1. dbCalls' \in Seq(DbCalls) /\ failures' \in Nat
      BY <1>4, AskMakes, MadeTypes
    <2>2. /\ request' \in [Queries -> Results] /\ refs' \in [Queries -> Nat]
          /\ due' \in [Queries -> SUBSET Rows]
      <3>1. rows \cap Selects[q] \in SUBSET Rows
        BY DEF TypeOK
      <3>2. due' \in [Queries -> SUBSET Rows]
        BY <1>4, <3>1 DEF Ask, TypeOK
      <3>3. request' \in [Queries -> Results]
        BY <1>4 DEF Ask, TypeOK, Results
      <3>4. refs' \in [Queries -> Nat]
        <4>1. refs' = refs \/ refs' = [refs EXCEPT ![q] = @ + 1]
          BY <1>4 DEF Ask
        <4>2. refs \in [Queries -> Nat]
          BY DEF TypeOK
        <4> QED BY <4>1, <4>2
      <3> QED BY <3>2, <3>3, <3>4
    <2> QED BY <1>4, <2>1, <2>2, AskMakes DEF TypeOK, rowVars, timeVars
  <1>5. ASSUME NEW a \in answers, GetResponse(a)
        PROVE  TypeOK'
    <2>1. a.query \in Queries /\ a.found \in SUBSET Rows /\ a.ok \in BOOLEAN
      BY DEF TypeOK, Answers
    <2>2. refs[a.query] = 1
      BY <2>1 DEF AskedOnce
    <2>3. /\ request' \in [Queries -> Results] /\ refs' \in [Queries -> Nat]
          /\ got' \in [Queries -> SUBSET Rows]
      BY <1>5, <2>1, <2>2 DEF GetResponse, AnswerCaller, CallerOf, Reply, TypeOK, Results
    <2> QED BY <1>5, <2>3 DEF GetResponse, TypeOK, tableVars, rowVars, timeVars, faultVars
  <1>6. ASSUME NEW synced \in BOOLEAN, GetSystemTime(synced)
        PROVE  TypeOK'
    <2>1. dbCalls' \in Seq(DbCalls) /\ failures' \in Nat /\ rows' \in SUBSET Rows
      BY <1>6, SyncMakes, MadeTypes, RowsTypes DEF TypeOK
    <2>2. isSynced' \in BOOLEAN /\ expireData' \in BOOLEAN /\ syncedAt' \in Nat
      BY <1>6, SyncMakes DEF GetSystemTime, TypeOK
    <2> QED BY <1>6, <2>1, <2>2, SyncMakes DEF TypeOK, queryVars
  <1>7. CASE ClockMoves
    <2>1. clock' \in Nat
      BY <1>7, ConstantTypes DEF ClockMoves, Times
    <2> QED BY <1>7, <2>1 DEF ClockMoves, TypeOK, tableVars, callVars, rowVars, queryVars, faultVars
  <1>8. CASE TakeCall
    <2>1. dbCalls' \in Seq(DbCalls)
      BY <1>8, TailElements DEF TakeCall, TypeOK
    <2>2. Head(dbCalls).asks \in SUBSET Queries /\ Apply(db, Head(dbCalls)) \in SUBSET Rows
      BY <1>8, TakeCallParts, RowsTypes DEF DbCalls
    <2>3. answers' \subseteq Answers
      <3>1. /\ \A q \in Head(dbCalls).asks :
                  /\ [query |-> q, ok |-> TRUE, found |-> db \cap Selects[q]] \in Answers
                  /\ [query |-> q, ok |-> FALSE, found |-> {}] \in Answers
        BY <2>2, ConstantTypes DEF Answers
      <3>2. answers \subseteq Answers
        BY DEF TypeOK
      <3> QED BY <1>8, <3>1, <3>2, TakeCallParts
    <2>4. readRows' \subseteq db' /\ db' \subseteq Rows /\ failures' \in Nat
      BY <1>8, <2>2, TakeCallParts DEF TypeOK, Apply
    <2> QED BY <1>8, <2>1, <2>3, <2>4 DEF TakeCall, TypeOK, rowVars, queryVars, timeVars
  <1>9. CASE TakeMerge
    <2>1. merges' \in Seq(Merges) /\ Head(merges).row \in Rows
      <3>1. merges \in Seq(Merges) /\ merges # <<>>
        BY <1>9 DEF TakeMerge, TypeOK
      <3>2. Tail(merges) \in Seq(Merges) /\ Head(merges) \in Merges
        BY <3>1
      <3> QED BY <1>9, <3>2 DEF TakeMerge, Merges
    <2>2. readRows' \subseteq db /\ failures' \in Nat
      BY <1>9, <2>1 DEF TakeMerge, Fail, TypeOK
    <2> QED BY <1>9, <2>1, <2>2 DEF TakeMerge, TypeOK, rowVars, queryVars, timeVars
  <1>10. CASE Restart
    <2>1. dbCalls' \in Seq(DbCalls) /\ rows' \in SUBSET Rows
      BY <1>10, RestartCalls, AfterRows DEF TypeOK
    <2>2. merges' \in Seq(Merges) /\ marked' \in SUBSET Rows
      BY <1>10, RestartMerges DEF TypeOK
    <2>3. request' \in [Queries -> Results] /\ refs' \in [Queries -> Nat]
      BY <1>10 DEF Restart, TypeOK, Results
    <2>4. /\ answers' = {} /\ restarts' \in Nat
          /\ isSynced' = FALSE /\ expireData' = FALSE /\ syncedAt' = 0
          /\ UNCHANGED <<db, readRows, saved, expire, got, due, clock, failures>>
      BY <1>10 DEF Restart, TypeOK, tableVars
    <2> QED BY <2>1, <2>2, <2>3, <2>4 DEF TypeOK
  <1>11. CASE UNCHANGED vars
    BY <1>11 DEF TypeOK, vars, tableVars, callVars, rowVars, queryVars, timeVars, faultVars
  <1>12. ASSUME Refusal
         PROVE  TypeOK'
    <2>1. request' \in [Queries -> Results]
      <3>1. PICK q \in Queries : request' = [request EXCEPT ![q] = "error"]
        BY <1>12 DEF Refusal, RefuseQuery
      <3> QED BY <3>1 DEF TypeOK, Results
    <2> QED BY <1>12, <2>1, RefusalKeeps DEF TypeOK, tableVars, callVars, rowVars, timeVars, faultVars
  <1> QED BY <1>1, <1>2, <1>3, <1>4, <1>5, <1>6, <1>7, <1>8, <1>9, <1>10, <1>11, <1>12 DEF Next, Refusal

-----------------------------------------------------------------------------
(* References and answers.                                                   *)

\* Fewer calls that ask for something, and nothing else about the queries.
LEMMA AskedFewer ==
    ASSUME AskedOnce, UNCHANGED <<answers, request, refs>>,
           \A q \in Queries : \A i \in DOMAIN dbCalls' :
              q \in dbCalls'[i].asks => i \in DOMAIN dbCalls /\ q \in dbCalls[i].asks
    PROVE  AskedOnce'
  BY DEF AskedOnce

LEMMA AskedQuiet ==
    ASSUME TypeOK, AskedOnce, NEW m \in DbCalls, m.asks = {}, Made(m),
           UNCHANGED <<answers, request, refs>>
    PROVE  AskedOnce'
  <1>1. dbCalls \in Seq(DbCalls)
    BY DEF TypeOK
  <1>2. \A q \in Queries : \A i \in DOMAIN dbCalls' :
            q \in dbCalls'[i].asks => i \in DOMAIN dbCalls /\ q \in dbCalls[i].asks
    BY <1>1, AppendElements DEF Made
  <1> QED BY <1>2, AskedFewer

LEMMA AskedAsk ==
    ASSUME TypeOK, AskedOnce, NEW q \in Queries, Ask(q)
    PROVE  AskedOnce'
  <1>1. dbCalls \in Seq(DbCalls) /\ Find(q) \in DbCalls /\ Find(q).asks = {q}
    BY CallTypes DEF TypeOK, Find
  <1>2. request[q] = "none" /\ answers' = answers
    BY DEF Ask
  <1>3. /\ \A i \in DOMAIN dbCalls : q \notin dbCalls[i].asks
        /\ \A a \in answers : a.query # q
        /\ refs[q] = 0
    BY <1>2 DEF AskedOnce
  <1>4. refs \in [Queries -> Nat] /\ request \in [Queries -> Results]
    BY DEF TypeOK
  <1>5. CASE /\ dbCalls' = Append(dbCalls, Find(q))
             /\ request' = [request EXCEPT ![q] = "asked"]
             /\ refs' = [refs EXCEPT ![q] = @ + 1]
    <2>1. /\ \A i \in DOMAIN dbCalls' :
                \/ i \in DOMAIN dbCalls /\ dbCalls'[i] = dbCalls[i]
                \/ i = Len(dbCalls) + 1 /\ dbCalls'[i] = Find(q)
      BY <1>1, <1>5, AppendElements
    <2>2. request'[q] = "asked" /\ refs'[q] = 1
      BY <1>3, <1>4, <1>5
    <2>3. \A p \in Queries : p # q => request'[p] = request[p] /\ refs'[p] = refs[p]
      BY <1>4, <1>5
    <2>4. \A p \in Queries : p # q =>
            \A i \in DOMAIN dbCalls' :
                p \in dbCalls'[i].asks => i \in DOMAIN dbCalls /\ p \in dbCalls[i].asks
      BY <1>1, <2>1
    <2>5. \A i \in DOMAIN dbCalls' : q \in dbCalls'[i].asks => i = Len(dbCalls) + 1
      BY <1>3, <2>1
    <2> QED BY <1>2, <1>3, <2>2, <2>3, <2>4, <2>5 DEF AskedOnce
  <1>6. CASE /\ request' = [request EXCEPT ![q] = "error"]
             /\ UNCHANGED <<dbCalls, refs>>
    <2>1. request'[q] = "error" /\ \A p \in Queries : p # q => request'[p] = request[p]
      BY <1>4, <1>6
    <2> QED BY <1>2, <1>3, <1>6, <2>1 DEF AskedOnce
  <1> QED BY <1>5, <1>6 DEF Ask

LEMMA AskedRefusal ==
    ASSUME TypeOK, AskedOnce, Refusal
    PROVE  AskedOnce'
  <1>1. PICK q \in Queries : RefuseQuery(q)
    BY DEF Refusal
  <1>2. request[q] = "none" /\ request' = [request EXCEPT ![q] = "error"]
    BY <1>1 DEF RefuseQuery
  <1>3. request'[q] = "error" /\ \A p \in Queries : p # q => request'[p] = request[p]
    BY <1>2 DEF TypeOK
  <1>4. UNCHANGED <<dbCalls, answers, refs>>
    BY RefusalKeeps DEF callVars
  <1> QED BY <1>2, <1>3, <1>4 DEF AskedOnce

LEMMA AskedGetResponse ==
    ASSUME TypeOK, AskedOnce, NEW a \in answers, GetResponse(a)
    PROVE  AskedOnce'
  <1>1. a.query \in Queries /\ a.ok \in BOOLEAN
    BY DEF TypeOK, Answers
  <1>2. /\ request[a.query] = "asked" /\ refs[a.query] = 1
        /\ \A i \in DOMAIN dbCalls : a.query \notin dbCalls[i].asks
        /\ \A b \in answers : b.query = a.query => b = a
    BY <1>1 DEF AskedOnce
  <1>3. refs \in [Queries -> Nat] /\ request \in [Queries -> Results]
    BY DEF TypeOK
  <1>4. answers' = answers \ {a} /\ dbCalls' = dbCalls
    BY DEF GetResponse
  <1>5. /\ request' = [request EXCEPT ![a.query] = IF a.ok THEN "ok" ELSE "error"]
        /\ refs' = [refs EXCEPT ![a.query] = @ - 1]
    BY <1>1, <1>2, <1>3 DEF GetResponse, AnswerCaller, CallerOf, Reply
  <1>6. /\ request'[a.query] \in {"ok", "error"} /\ refs'[a.query] = 0
        /\ \A p \in Queries : p # a.query => request'[p] = request[p] /\ refs'[p] = refs[p]
    BY <1>1, <1>2, <1>3, <1>5
  <1>7. \A b \in answers' : b \in answers /\ b.query # a.query
    BY <1>2, <1>4
  <1> QED BY <1>2, <1>4, <1>6, <1>7 DEF AskedOnce

\* The answers after db8 took a call are the earlier ones and one for each
\* query that asked.
LEMMA TakeCallAnswers ==
    ASSUME TypeOK, AskedOnce, TakeCall
    PROVE  /\ \A a \in answers' : a \in answers \/ a.query \in Head(dbCalls).asks
           /\ \A a, b \in answers' : a.query = b.query /\ a.query \in Head(dbCalls).asks => a = b
  <1>1. dbCalls \in Seq(DbCalls) /\ dbCalls # <<>> /\ Head(dbCalls) \in DbCalls
    BY TakeCallParts DEF TypeOK, TakeCall
  <1>2. Head(dbCalls) = dbCalls[1] /\ 1 \in DOMAIN dbCalls
    BY <1>1
  <1>3. \A a \in answers : a.query \in Queries /\ a.query \notin Head(dbCalls).asks
    BY <1>2 DEF AskedOnce, TypeOK, Answers
  <1>4. CASE answers' = answers \cup {[query |-> q, ok |-> TRUE, found |-> db \cap Selects[q]] :
                                         q \in Head(dbCalls).asks}
    <2>1. \A a \in answers' : a \notin answers =>
              \E q \in Head(dbCalls).asks :
                  a = [query |-> q, ok |-> TRUE, found |-> db \cap Selects[q]]
      BY <1>4
    <2>2. \A a \in answers' : a \notin answers =>
              /\ a.query \in Head(dbCalls).asks
              /\ a = [query |-> a.query, ok |-> TRUE, found |-> db \cap Selects[a.query]]
      BY <2>1
    <2> QED BY <1>3, <2>2
  <1>5. CASE answers' = answers \cup {[query |-> q, ok |-> FALSE, found |-> {}] :
                                         q \in Head(dbCalls).asks}
    <2>1. \A a \in answers' : a \notin answers =>
              \E q \in Head(dbCalls).asks : a = [query |-> q, ok |-> FALSE, found |-> {}]
      BY <1>5
    <2>2. \A a \in answers' : a \notin answers =>
              /\ a.query \in Head(dbCalls).asks
              /\ a = [query |-> a.query, ok |-> FALSE, found |-> {}]
      BY <2>1
    <2> QED BY <1>3, <2>2
  <1> QED BY <1>4, <1>5, TakeCallParts

LEMMA AskedTakeCall ==
    ASSUME TypeOK, AskedOnce, TakeCall
    PROVE  AskedOnce'
  <1>1. dbCalls \in Seq(DbCalls) /\ dbCalls # <<>> /\ dbCalls' = Tail(dbCalls)
    BY DEF TypeOK, TakeCall
  <1>2. Head(dbCalls) = dbCalls[1] /\ 1 \in DOMAIN dbCalls
    BY <1>1
  <1>3. \A i \in DOMAIN dbCalls' :
            i + 1 \in DOMAIN dbCalls /\ i + 1 # 1 /\ dbCalls'[i] = dbCalls[i + 1]
    BY <1>1, TailElements
  <1>4. request' = request /\ refs' = refs
    BY DEF TakeCall, queryVars
  <1> SUFFICES ASSUME NEW q \in Queries
               PROVE  /\ \A i, j \in DOMAIN dbCalls' :
                            q \in dbCalls'[i].asks /\ q \in dbCalls'[j].asks => i = j
                      /\ \A a, b \in answers' : a.query = q /\ b.query = q => a = b
                      /\ \A i \in DOMAIN dbCalls' : \A a \in answers' :
                            ~(q \in dbCalls'[i].asks /\ a.query = q)
                      /\ (\E i \in DOMAIN dbCalls' : q \in dbCalls'[i].asks) => request[q] = "asked"
                      /\ (\E a \in answers' : a.query = q) => request[q] = "asked"
    BY <1>4 DEF AskedOnce
  <1>5. \A i, j \in DOMAIN dbCalls : q \in dbCalls[i].asks /\ q \in dbCalls[j].asks => i = j
    BY DEF AskedOnce
  <1>6. \A i, j \in DOMAIN dbCalls' : q \in dbCalls'[i].asks /\ q \in dbCalls'[j].asks => i = j
    <2> SUFFICES ASSUME NEW i \in DOMAIN dbCalls', NEW j \in DOMAIN dbCalls',
                        q \in dbCalls'[i].asks, q \in dbCalls'[j].asks
                 PROVE  i = j
      OBVIOUS
    <2>1. i + 1 = j + 1
      BY <1>3, <1>5
    <2> QED BY <1>1, <2>1
  <1>7. q \in Head(dbCalls).asks => \A i \in DOMAIN dbCalls' : q \notin dbCalls'[i].asks
    BY <1>2, <1>3, <1>5
  <1> QED BY <1>2, <1>3, <1>6, <1>7, TakeCallAnswers DEF AskedOnce

LEMMA AskedRestart ==
    ASSUME TypeOK, AskedOnce, Restart
    PROVE  AskedOnce'
  <1>1. \A i \in DOMAIN dbCalls' : dbCalls'[i].asks = {}
    BY RestartCalls
  <1>2. answers' = {} /\ \A q \in Queries : request'[q] \notin {"asked", "twice"} /\ refs'[q] = 0
    BY DEF Restart, AskedOnce
  <1> QED BY <1>1, <1>2 DEF AskedOnce

LEMMA AskedStep ==
    ASSUME TypeOK, AskedOnce, [Next]_vars
    PROVE  AskedOnce'
  <1>1. ASSUME NEW r \in Rows, NEW given \in Times, NEW e \in 0 .. MaxTime + Retention + 1,
               SaveMessage(r, given, e)
        PROVE  AskedOnce'
    BY <1>1, SaveMakes, AskedQuiet DEF queryVars
  <1>2. ASSUME NEW gone \in Keys, DeleteMessage(gone)
        PROVE  AskedOnce'
    BY <1>2, HistoryAssumption, DeleteMakes, AskedQuiet DEF queryVars
  <1>3. ASSUME NEW r \in Rows, NEW status \in BOOLEAN, SetReadStatus(r, status)
        PROVE  AskedOnce'
    BY <1>3, AskedFewer DEF SetReadStatus, queryVars
  <1>4. ASSUME NEW q \in Queries, Ask(q)
        PROVE  AskedOnce'
    BY <1>4, AskedAsk
  <1>5. ASSUME NEW a \in answers, GetResponse(a)
        PROVE  AskedOnce'
    BY <1>5, AskedGetResponse
  <1>6. ASSUME NEW synced \in BOOLEAN, GetSystemTime(synced)
        PROVE  AskedOnce'
    <2>1. UNCHANGED <<answers, request, refs>>
      BY <1>6, SyncMakes DEF queryVars
    <2>2. CASE UNCHANGED dbCalls
      BY <2>1, <2>2, AskedFewer
    <2>3. CASE Del(Expired) \in DbCalls /\ Del(Expired).asks = {} /\ Made(Del(Expired))
      BY <2>1, <2>3, AskedQuiet
    <2> QED BY <1>6, <2>2, <2>3, SyncMakes
  <1>7. CASE ClockMoves \/ TakeMerge
    BY <1>7, AskedFewer DEF ClockMoves, TakeMerge, callVars, queryVars
  <1>8. CASE TakeCall
    BY <1>8, AskedTakeCall
  <1>9. CASE Restart
    BY <1>9, AskedRestart
  <1>10. CASE UNCHANGED vars
    BY <1>10, AskedFewer DEF vars, callVars, queryVars
  <1>11. ASSUME Refusal
         PROVE  AskedOnce'
    BY <1>11, AskedRefusal
  <1> QED BY <1>1, <1>2, <1>3, <1>4, <1>5, <1>6, <1>7, <1>8, <1>9, <1>10, <1>11 DEF Next, Refusal

-----------------------------------------------------------------------------
(* Nobody waits for nothing.                                                 *)

\* The find of q is on its way to db8, or the reply to it on its way back.
UnderWay(q) ==
    \/ \E i \in DOMAIN dbCalls : q \in dbCalls[i].asks
    \/ \E a \in answers : a.query = q

\* More calls, and nothing else about the queries.
LEMMA WaitingMore ==
    ASSUME WaitingIsUnderWay, UNCHANGED <<answers, request>>,
           \A i \in DOMAIN dbCalls : i \in DOMAIN dbCalls' /\ dbCalls'[i] = dbCalls[i]
    PROVE  WaitingIsUnderWay'
  BY DEF WaitingIsUnderWay

LEMMA WaitingMade ==
    ASSUME TypeOK, WaitingIsUnderWay, NEW m \in DbCalls, Made(m), UNCHANGED <<answers, request>>
    PROVE  WaitingIsUnderWay'
  <1>1. dbCalls \in Seq(DbCalls)
    BY DEF TypeOK
  <1>2. \A i \in DOMAIN dbCalls : i \in DOMAIN dbCalls' /\ dbCalls'[i] = dbCalls[i]
    BY <1>1, AppendElements DEF Made
  <1> QED BY <1>2, WaitingMore

LEMMA WaitingAsk ==
    ASSUME TypeOK, WaitingIsUnderWay, NEW q \in Queries, Ask(q)
    PROVE  WaitingIsUnderWay'
  <1>1. dbCalls \in Seq(DbCalls) /\ Find(q) \in DbCalls /\ Find(q).asks = {q}
    BY CallTypes DEF TypeOK, Find
  <1>2. request \in [Queries -> Results] /\ answers' = answers
    BY DEF TypeOK, Ask
  <1>3. CASE dbCalls' = Append(dbCalls, Find(q)) /\ request' = [request EXCEPT ![q] = "asked"]
    <2>1. /\ \A i \in DOMAIN dbCalls : i \in DOMAIN dbCalls' /\ dbCalls'[i] = dbCalls[i]
          /\ Len(dbCalls) + 1 \in DOMAIN dbCalls' /\ q \in dbCalls'[Len(dbCalls) + 1].asks
      BY <1>1, <1>3, AppendElements
    <2>2. \A p \in Queries : p # q => request'[p] = request[p]
      BY <1>2, <1>3
    <2> QED BY <1>2, <2>1, <2>2 DEF WaitingIsUnderWay
  <1>4. CASE request' = [request EXCEPT ![q] = "error"] /\ UNCHANGED dbCalls
    <2>1. request'[q] = "error" /\ \A p \in Queries : p # q => request'[p] = request[p]
      BY <1>2, <1>4
    <2> QED BY <1>2, <1>4, <2>1 DEF WaitingIsUnderWay
  <1> QED BY <1>3, <1>4 DEF Ask

\* A reply that is taken leaves nobody waiting for it.
LEMMA WaitingGetResponse ==
    ASSUME TypeOK, WaitingIsUnderWay, NEW a \in answers, GetResponse(a)
    PROVE  WaitingIsUnderWay'
  <1>1. a.query \in Queries /\ request \in [Queries -> Results]
    BY DEF TypeOK, Answers
  <1>2. dbCalls' = dbCalls /\ answers' = answers \ {a}
    BY DEF GetResponse
  <1>3. /\ request'[a.query] \in {"ok", "error", "twice"}
        /\ \A p \in Queries : p # a.query => request'[p] = request[p]
    BY <1>1 DEF GetResponse, AnswerCaller, CallerOf, Reply
  <1> QED BY <1>2, <1>3 DEF WaitingIsUnderWay

\* The queries of the call that db8 takes, or that fails there, are replied to.
LEMMA WaitingTakeCall ==
    ASSUME TypeOK, WaitingIsUnderWay, TakeCall
    PROVE  WaitingIsUnderWay'
  <1>1. dbCalls \in Seq(DbCalls) /\ dbCalls # <<>> /\ dbCalls' = Tail(dbCalls)
    BY DEF TypeOK, TakeCall
  <1>2. request' = request
    BY DEF TakeCall, queryVars
  <1>3. \A q \in Head(dbCalls).asks : \E a \in answers' : a.query = q
    <2>1. ASSUME NEW q \in Head(dbCalls).asks
          PROVE  \/ [query |-> q, ok |-> TRUE, found |-> db \cap Selects[q]] \in answers'
                 \/ [query |-> q, ok |-> FALSE, found |-> {}] \in answers'
      BY TakeCallParts
    <2> QED BY <2>1
  <1>4. answers \subseteq answers'
    BY TakeCallParts
  <1> SUFFICES ASSUME NEW q \in Queries, request[q] = "asked"
               PROVE  UnderWay(q)'
    BY <1>2 DEF WaitingIsUnderWay, UnderWay
  <1>5. CASE \E a \in answers : a.query = q
    BY <1>4, <1>5 DEF UnderWay
  <1>6. ASSUME NEW i \in DOMAIN dbCalls, q \in dbCalls[i].asks
        PROVE  UnderWay(q)'
    <2>1. CASE i = 1
      BY <1>1, <1>3, <1>6, <2>1 DEF UnderWay
    <2>2. CASE i # 1
      <3>1. i - 1 \in DOMAIN dbCalls' /\ dbCalls'[i - 1] = dbCalls[i]
        BY <1>1, <1>6, <2>2, TailElements
      <3> QED BY <1>6, <3>1 DEF UnderWay
    <2> QED BY <2>1, <2>2
  <1> QED BY <1>5, <1>6 DEF WaitingIsUnderWay

LEMMA WaitingStep ==
    ASSUME TypeOK, WaitingIsUnderWay, [Next]_vars
    PROVE  WaitingIsUnderWay'
  <1>1. ASSUME NEW r \in Rows, NEW given \in Times, NEW e \in 0 .. MaxTime + Retention + 1,
               SaveMessage(r, given, e)
        PROVE  WaitingIsUnderWay'
    BY <1>1, SaveMakes, WaitingMade DEF queryVars
  <1>2. ASSUME NEW gone \in Keys, DeleteMessage(gone)
        PROVE  WaitingIsUnderWay'
    BY <1>2, HistoryAssumption, DeleteMakes, WaitingMade DEF queryVars
  <1>3. ASSUME NEW synced \in BOOLEAN, GetSystemTime(synced)
        PROVE  WaitingIsUnderWay'
    <2>1. UNCHANGED <<answers, request>>
      BY <1>3, SyncMakes DEF queryVars
    <2>2. CASE UNCHANGED dbCalls
      BY <2>1, <2>2, WaitingMore
    <2>3. CASE Del(Expired) \in DbCalls /\ Made(Del(Expired))
      BY <2>1, <2>3, WaitingMade
    <2> QED BY <1>3, <2>2, <2>3, SyncMakes
  <1>4. ASSUME Refusal
        PROVE  WaitingIsUnderWay'
    <2>1. PICK q \in Queries : RefuseQuery(q)
      BY <1>4 DEF Refusal
    <2>2. request'[q] = "error" /\ \A p \in Queries : p # q => request'[p] = request[p]
      BY <2>1 DEF RefuseQuery, TypeOK
    <2> QED BY <1>4, <2>2, RefusalKeeps DEF callVars, WaitingIsUnderWay
  <1>5. ASSUME NEW r \in Rows, NEW status \in BOOLEAN, SetReadStatus(r, status)
        PROVE  WaitingIsUnderWay'
    BY <1>5, WaitingMore DEF SetReadStatus, queryVars
  <1>6. CASE ClockMoves \/ TakeMerge \/ UNCHANGED vars
    BY <1>6, WaitingMore DEF ClockMoves, TakeMerge, vars, callVars, queryVars
  <1>7. CASE Restart
    BY <1>7 DEF Restart, WaitingIsUnderWay, TypeOK
  <1> QED
    BY <1>1, <1>2, <1>3, <1>4, <1>5, <1>6, <1>7, WaitingAsk, WaitingGetResponse, WaitingTakeCall
    DEF Next, Refusal

-----------------------------------------------------------------------------
(* Each row is put once.                                                     *)

LEMMA PutFewer ==
    ASSUME PutOnce, saved' = saved, rows' \subseteq saved, Taken' \subseteq Taken,
           \A i \in DOMAIN dbCalls' : i \in DOMAIN dbCalls /\ dbCalls'[i].add = dbCalls[i].add
    PROVE  PutOnce'
  BY DEF PutOnce

LEMMA PutDeletes ==
    ASSUME TypeOK, PutOnce, NEW gone \in SUBSET Rows, Made(Del(gone)),
           rows' = Apply(rows, Del(gone)),
           UNCHANGED <<saved, db, marked, got, answers>>
    PROVE  PutOnce'
  <1>1. dbCalls \in Seq(DbCalls) /\ Del(gone) \in DbCalls /\ Del(gone).add = {}
    BY CallTypes DEF TypeOK, Del
  <1>2. \A i \in DOMAIN dbCalls' :
            \/ i \in DOMAIN dbCalls /\ dbCalls'[i] = dbCalls[i]
            \/ dbCalls'[i].add = {}
    BY <1>1, AppendElements DEF Made
  <1>3. rows' \subseteq rows
    BY <1>1 DEF Apply
  <1>4. Taken' = Taken
    BY DEF Taken, Seen
  <1> QED BY <1>2, <1>3, <1>4 DEF PutOnce

LEMMA PutSave ==
    ASSUME TypeOK, PutOnce, NEW r \in Rows, NEW given, NEW e, SaveMessage(r, given, e)
    PROVE  PutOnce'
  <1>1. dbCalls \in Seq(DbCalls) /\ Put(r) \in DbCalls /\ Put(r).add = {r} /\ Put(r).drop = {}
    BY CallTypes DEF TypeOK, Put
  <1>2. r \notin saved /\ saved' = saved \cup {r} /\ Made(Put(r)) /\ rows' = Apply(rows, Put(r))
    BY SaveMakes DEF SaveMessage
  <1>3. \A i \in DOMAIN dbCalls' :
            \/ i \in DOMAIN dbCalls /\ dbCalls'[i] = dbCalls[i]
            \/ i = Len(dbCalls) + 1 /\ dbCalls'[i].add = {r}
    BY <1>1, <1>2, AppendElements DEF Made
  <1>4. rows' = rows \cup {r}
    BY <1>1, <1>2 DEF Apply
  <1>5. Taken' = Taken
    BY SaveMakes DEF Taken, Seen, queryVars
  <1>6. r \notin Taken /\ \A i \in DOMAIN dbCalls : r \notin dbCalls[i].add
    BY <1>2 DEF PutOnce
  <1>7. Len(dbCalls) + 1 \notin DOMAIN dbCalls
    BY <1>1
  <1>8. rows' \subseteq saved' /\ Taken' \subseteq saved'
    BY <1>2, <1>4, <1>5 DEF PutOnce
  <1>9. \A i \in DOMAIN dbCalls' : dbCalls'[i].add \subseteq saved' \ Taken'
    BY <1>2, <1>3, <1>5, <1>6 DEF PutOnce
  <1>10. ASSUME NEW i \in DOMAIN dbCalls', NEW j \in DOMAIN dbCalls', i # j
         PROVE  dbCalls'[i].add \cap dbCalls'[j].add = {}
    BY <1>3, <1>6, <1>10 DEF PutOnce
  <1> QED BY <1>8, <1>9, <1>10 DEF PutOnce

LEMMA PutTakeCall ==
    ASSUME TypeOK, PutOnce, TakeCall
    PROVE  PutOnce'
  <1> DEFINE m == Head(dbCalls)
  <1>1. dbCalls \in Seq(DbCalls) /\ dbCalls # <<>> /\ dbCalls' = Tail(dbCalls)
    BY DEF TypeOK, TakeCall
  <1>2. m = dbCalls[1] /\ 1 \in DOMAIN dbCalls
    BY <1>1
  <1>3. \A i \in DOMAIN dbCalls' :
            i + 1 \in DOMAIN dbCalls /\ i + 1 # 1 /\ dbCalls'[i] = dbCalls[i + 1]
    BY <1>1, TailElements
  <1>4. Taken' \subseteq Taken \cup m.add
    <2>1. db' \subseteq db \cup m.add /\ \A a \in answers' : a \in answers \/ a.found \subseteq db
      BY TakeCallParts DEF Apply
    <2> QED BY <2>1 DEF Taken, Seen, TakeCall, rowVars, queryVars
  <1>5. m.add \subseteq saved /\ \A i \in DOMAIN dbCalls' : dbCalls'[i].add \cap m.add = {}
    BY <1>2, <1>3 DEF PutOnce
  <1>6. rows' = rows /\ saved' = saved
    BY DEF TakeCall, rowVars
  <1>7. \A i \in DOMAIN dbCalls' : dbCalls'[i].add \subseteq saved' \ Taken'
    BY <1>3, <1>4, <1>5, <1>6 DEF PutOnce
  <1>8. ASSUME NEW i \in DOMAIN dbCalls', NEW j \in DOMAIN dbCalls', i # j
        PROVE  dbCalls'[i].add \cap dbCalls'[j].add = {}
    <2>1. i + 1 # j + 1
      BY <1>1, <1>8
    <2> QED BY <1>3, <2>1 DEF PutOnce
  <1> QED BY <1>4, <1>5, <1>6, <1>7, <1>8 DEF PutOnce

LEMMA PutRestart ==
    ASSUME TypeOK, PutOnce, Restart
    PROVE  PutOnce'
  <1>1. rows' \subseteq db \cup UNION {dbCalls'[i].add : i \in DOMAIN dbCalls'}
    BY RestartCalls DEF After
  <1>2. \A i \in DOMAIN dbCalls' : i \in DOMAIN dbCalls /\ dbCalls'[i].add = dbCalls[i].add
    BY RestartCalls
  <1>3. rows' \subseteq saved
    BY <1>1, <1>2 DEF PutOnce, Taken
  <1>4. saved' = saved /\ db' = db /\ got' = got /\ answers' = {}
    BY DEF Restart, tableVars
  <1>5. marked' \subseteq marked
    BY RestartMerges
  <1>6. Taken' \subseteq Taken
    BY <1>4, <1>5 DEF Taken, Seen
  <1> QED BY <1>2, <1>3, <1>4, <1>6, PutFewer

LEMMA PutStep ==
    ASSUME TypeOK, PutOnce, [Next]_vars
    PROVE  PutOnce'
  <1>0. rows \subseteq saved
    BY DEF PutOnce
  <1>1. ASSUME NEW r \in Rows, NEW given \in Times, NEW e \in 0 .. MaxTime + Retention + 1,
               SaveMessage(r, given, e)
        PROVE  PutOnce'
    BY <1>1, PutSave
  <1>2. ASSUME NEW gone \in Keys, DeleteMessage(gone)
        PROVE  PutOnce'
    BY <1>2, HistoryAssumption, DeleteMakes, PutDeletes DEF queryVars
  <1>3. ASSUME NEW r \in Rows, NEW status \in BOOLEAN, SetReadStatus(r, status)
        PROVE  PutOnce'
    <2>1. marked' \subseteq marked \cup Seen
      BY <1>3 DEF SetReadStatus
    <2>2. UNCHANGED <<db, dbCalls, answers, rows, saved, got>>
      BY <1>3 DEF SetReadStatus, tableVars, queryVars
    <2>3. Taken' \subseteq Taken
      BY <2>1, <2>2 DEF Taken, Seen
    <2> QED BY <1>0, <2>2, <2>3, PutFewer
  <1>4. ASSUME NEW q \in Queries, Ask(q)
        PROVE  PutOnce'
    <2>1. dbCalls \in Seq(DbCalls) /\ Find(q) \in DbCalls /\ Find(q).add = {}
      BY CallTypes DEF TypeOK, Find
    <2>2. \A i \in DOMAIN dbCalls' :
              \/ i \in DOMAIN dbCalls /\ dbCalls'[i] = dbCalls[i]
              \/ dbCalls'[i].add = {}
      BY <1>4, <2>1, AskMakes, AppendElements DEF Made
    <2>3. UNCHANGED <<db, answers, rows, saved, marked, got>>
      BY <1>4, AskMakes DEF rowVars
    <2>4. Taken' = Taken
      BY <2>3 DEF Taken, Seen
    <2> QED BY <2>2, <2>3, <2>4 DEF PutOnce
  <1>5. ASSUME NEW a \in answers, GetResponse(a)
        PROVE  PutOnce'
    <2>1. UNCHANGED <<db, dbCalls, rows, saved, marked>> /\ answers' \subseteq answers
      BY <1>5 DEF GetResponse, tableVars, rowVars
    <2>2. \A q \in Queries : got'[q] = got[q] \/ got'[q] = a.found
      BY <1>5 DEF GetResponse, AnswerCaller, TypeOK
    <2>3. Taken' \subseteq Taken
      BY <2>1, <2>2 DEF Taken, Seen
    <2> QED BY <1>0, <2>1, <2>3, PutFewer
  <1>6. ASSUME NEW synced \in BOOLEAN, GetSystemTime(synced)
        PROVE  PutOnce'
    <2>1. UNCHANGED <<saved, db, marked, got, answers>>
      BY <1>6, SyncMakes DEF queryVars
    <2>2. CASE UNCHANGED <<dbCalls, rows>>
      BY <1>0, <2>1, <2>2, PutFewer DEF Taken, Seen
    <2>3. CASE Made(Del(Expired)) /\ rows' = Apply(rows, Del(Expired))
      BY <2>1, <2>3, PutDeletes DEF Expired, TypeOK
    <2> QED BY <1>6, <2>2, <2>3, SyncMakes
  <1>7. CASE ClockMoves \/ TakeMerge \/ UNCHANGED vars
    <2>1. UNCHANGED <<db, dbCalls, answers, rows, saved, marked, got>>
      BY <1>7 DEF ClockMoves, TakeMerge, vars, tableVars, callVars, rowVars, queryVars
    <2>2. Taken' = Taken
      BY <2>1 DEF Taken, Seen
    <2> QED BY <1>0, <2>1, <2>2, PutFewer
  <1>8. CASE TakeCall
    BY <1>8, PutTakeCall
  <1>9. CASE Restart
    BY <1>9, PutRestart
  <1>10. ASSUME Refusal
         PROVE  PutOnce'
    <2>1. UNCHANGED <<db, dbCalls, rows, saved, answers, marked, got>>
      BY <1>10, RefusalKeeps DEF tableVars, callVars, rowVars
    <2>2. Taken' \subseteq Taken
      BY <2>1 DEF Taken, Seen
    <2> QED BY <1>0, <2>1, <2>2, PutFewer
  <1> QED BY <1>1, <1>2, <1>3, <1>4, <1>5, <1>6, <1>7, <1>8, <1>9, <1>10 DEF Next, Refusal

-----------------------------------------------------------------------------
(* The table is what the calls make it.                                      *)

LEMMA AfterAppend ==
    ASSUME NEW calls \in Seq(DbCalls), NEW m \in DbCalls, NEW held
    PROVE  After(held, Append(calls, m)) = Apply(After(held, calls), m)
  <1>1. Append(calls, m) \in Seq(DbCalls) /\ Len(Append(calls, m)) = Len(calls) + 1
    OBVIOUS
  <1>2. ASSUME NEW x
        PROVE  x \in After(held, Append(calls, m)) <=> x \in Apply(After(held, calls), m)
    <2>1. x \in After(held, Append(calls, m))
              <=> Reached(x, held, Append(calls, m), Len(calls) + 1)
      BY <1>1, AfterMembers
    <2>2. x \in After(held, calls) <=> Reached(x, held, calls, Len(calls))
      BY AfterMembers
    <2> QED BY <2>1, <2>2, ReachedLast, ApplyMembers
  <1> QED BY <1>2

LEMMA AfterTail ==
    ASSUME NEW calls \in Seq(DbCalls), calls # <<>>, NEW held
    PROVE  After(Apply(held, Head(calls)), Tail(calls)) = After(held, calls)
  <1>1. Tail(calls) \in Seq(DbCalls) /\ Len(Tail(calls)) = Len(calls) - 1
        /\ Len(calls) \in 1 .. Len(calls)
    OBVIOUS
  <1>2. ASSUME NEW x
        PROVE  x \in After(Apply(held, Head(calls)), Tail(calls)) <=> x \in After(held, calls)
    <2>1. x \in After(Apply(held, Head(calls)), Tail(calls))
              <=> Reached(x, Apply(held, Head(calls)), Tail(calls), Len(calls) - 1)
      BY <1>1, AfterMembers
    <2>2. x \in After(held, calls) <=> Reached(x, held, calls, Len(calls))
      BY AfterMembers
    <2> QED BY <1>1, <2>1, <2>2, ReachedTail
  <1> QED BY <1>2

LEMMA RowsMade ==
    ASSUME TypeOK, RowsAsCalled, NEW m \in DbCalls, Made(m), rows' = Apply(rows, m), db' = db
    PROVE  RowsAsCalled'
  BY MadeTypes, AfterAppend DEF RowsAsCalled, TypeOK

LEMMA RowsStep ==
    ASSUME TypeOK, RowsAsCalled, [Next]_vars
    PROVE  RowsAsCalled'
  <1>1. ASSUME NEW r \in Rows, NEW given \in Times, NEW e \in 0 .. MaxTime + Retention + 1,
               SaveMessage(r, given, e)
        PROVE  RowsAsCalled'
    BY <1>1, SaveMakes, RowsMade
  <1>2. ASSUME NEW gone \in Keys, DeleteMessage(gone)
        PROVE  RowsAsCalled'
    BY <1>2, HistoryAssumption, DeleteMakes, RowsMade
  <1>3. ASSUME NEW r \in Rows, NEW status \in BOOLEAN, SetReadStatus(r, status)
        PROVE  RowsAsCalled'
    <2>1. UNCHANGED <<rows, db, dbCalls>> /\ (failures' = 0 => failures = 0)
      BY <1>3 DEF SetReadStatus, tableVars, Fail, TypeOK
    <2> QED BY <2>1 DEF RowsAsCalled
  <1>4. ASSUME NEW q \in Queries, Ask(q)
        PROVE  RowsAsCalled'
    <2>1. Apply(rows, Find(q)) = rows
      BY DEF Apply, Find
    <2>2. rows' = rows /\ db' = db /\ Made(Find(q)) /\ Find(q) \in DbCalls
      BY <1>4, AskMakes DEF rowVars
    <2> QED BY <2>1, <2>2, RowsMade
  <1>5. ASSUME NEW synced \in BOOLEAN, GetSystemTime(synced)
        PROVE  RowsAsCalled'
    <2>1. CASE UNCHANGED <<dbCalls, rows, failures>>
      BY <1>5, <2>1, SyncMakes DEF RowsAsCalled
    <2>2. CASE /\ Del(Expired) \in DbCalls /\ Made(Del(Expired))
               /\ rows' = Apply(rows, Del(Expired))
      BY <1>5, <2>2, SyncMakes, RowsMade
    <2> QED BY <1>5, <2>1, <2>2, SyncMakes
  <1>6. ASSUME (\E a \in answers : GetResponse(a)) \/ ClockMoves \/ TakeMerge \/ UNCHANGED vars
        PROVE  RowsAsCalled'
    <2>1. UNCHANGED <<rows, db, dbCalls>> /\ (failures' = 0 => failures = 0)
      BY <1>6 DEF GetResponse, ClockMoves, TakeMerge, vars, tableVars, callVars, rowVars, faultVars,
                  Fail, TypeOK
    <2> QED BY <2>1 DEF RowsAsCalled
  <1>7. CASE TakeCall
    <2>1. dbCalls \in Seq(DbCalls) /\ dbCalls # <<>> /\ dbCalls' = Tail(dbCalls) /\ rows' = rows
      BY <1>7 DEF TakeCall, TypeOK, rowVars
    <2>2. failures' = 0 => failures = 0 /\ db' = Apply(db, Head(dbCalls))
      BY <1>7, TakeCallParts DEF TypeOK
    <2> QED BY <2>1, <2>2, AfterTail DEF RowsAsCalled
  <1>8. CASE Restart
    BY <1>8, RestartCalls DEF RowsAsCalled, Restart, tableVars
  <1>10. ASSUME Refusal
         PROVE  RowsAsCalled'
    BY <1>10, RefusalKeeps DEF RowsAsCalled, tableVars, callVars, rowVars, faultVars
  <1> QED BY <1>1, <1>2, <1>3, <1>4, <1>5, <1>6, <1>7, <1>8, <1>10 DEF Next, Refusal

-----------------------------------------------------------------------------
(* A query finds the table as it was when it was asked.                      *)

\* What a query finds is not changed by a call that is made after it.
LEMMA FindsMade ==
    ASSUME TypeOK, FindsAsDue, NEW m \in DbCalls, m.asks = {}, Made(m),
           UNCHANGED <<db, due, answers>>
    PROVE  FindsAsDue'
  <1> SUFFICES ASSUME failures' = 0
               PROVE  /\ \A i \in DOMAIN dbCalls' : \A q \in dbCalls'[i].asks : \A x \in Rows :
                            x \in due[q] <=> x \in Selects[q] /\ Reached(x, db, dbCalls', i - 1)
                      /\ \A a \in answers : a.ok => a.found = due[a.query]
    BY DEF FindsAsDue
  <1>1. failures = 0 /\ dbCalls' = Append(dbCalls, m) /\ dbCalls \in Seq(DbCalls)
    BY MadeTypes DEF TypeOK
  <1>2. ASSUME NEW i \in DOMAIN dbCalls', NEW q \in dbCalls'[i].asks, NEW x \in Rows
        PROVE  x \in due[q] <=> x \in Selects[q] /\ Reached(x, db, dbCalls', i - 1)
    <2>1. i \in DOMAIN dbCalls /\ q \in dbCalls[i].asks
      BY <1>1, <1>2, AppendElements
    <2>2. i - 1 \in Nat /\ i - 1 <= Len(dbCalls)
      BY <1>1, <2>1
    <2>3. Reached(x, db, dbCalls', i - 1) <=> Reached(x, db, dbCalls, i - 1)
      BY <1>1, <2>2, ReachedBefore
    <2> QED BY <1>1, <2>1, <2>3 DEF FindsAsDue
  <1> QED BY <1>1, <1>2 DEF FindsAsDue

LEMMA FindsAsk ==
    ASSUME TypeOK, AskedOnce, RowsAsCalled, FindsAsDue, NEW q \in Queries, Ask(q)
    PROVE  FindsAsDue'
  <1> SUFFICES ASSUME failures' = 0
               PROVE  /\ \A i \in DOMAIN dbCalls' : \A p \in dbCalls'[i].asks : \A x \in Rows :
                            x \in due'[p] <=> x \in Selects[p] /\ Reached(x, db, dbCalls', i - 1)
                      /\ \A a \in answers : a.ok => a.found = due'[a.query]
    BY AskMakes DEF FindsAsDue
  <1>1. /\ failures = 0 /\ dbCalls' = Append(dbCalls, Find(q)) /\ dbCalls \in Seq(DbCalls)
        /\ Find(q) \in DbCalls /\ Find(q).asks = {q}
    BY AskMakes, MadeTypes DEF TypeOK, Find
  <1>2. rows = After(db, dbCalls)
    BY <1>1 DEF RowsAsCalled
  <1>3. /\ due \in [Queries -> SUBSET Rows]
        /\ due' = [due EXCEPT ![q] = rows \cap Selects[q]]
    BY DEF Ask, TypeOK
  <1>4. /\ \A i \in DOMAIN dbCalls : q \notin dbCalls[i].asks
        /\ \A a \in answers : a.query # q
    BY DEF AskedOnce, Ask
  <1>5. ASSUME NEW i \in DOMAIN dbCalls', NEW p \in dbCalls'[i].asks, NEW x \in Rows
        PROVE  x \in due'[p] <=> x \in Selects[p] /\ Reached(x, db, dbCalls', i - 1)
    <2>1. CASE i \in DOMAIN dbCalls
      <3>1. p \in dbCalls[i].asks /\ p \in Queries /\ p # q
        BY <1>1, <1>4, <1>5, <2>1, AppendElements, CallParts
      <3>2. i - 1 \in Nat /\ i - 1 <= Len(dbCalls)
        BY <1>1, <2>1
      <3>3. Reached(x, db, dbCalls', i - 1) <=> Reached(x, db, dbCalls, i - 1)
        BY <1>1, <3>2, ReachedBefore
      <3>4. due'[p] = due[p]
        BY <1>3, <3>1
      <3> QED BY <1>1, <2>1, <3>1, <3>3, <3>4 DEF FindsAsDue
    <2>2. CASE i = Len(dbCalls) + 1
      <3>1. p = q /\ i - 1 = Len(dbCalls) /\ Len(dbCalls) \in Nat
        BY <1>1, <1>5, <2>2
      <3>2. Reached(x, db, dbCalls', i - 1) <=> Reached(x, db, dbCalls, i - 1)
        BY <1>1, <3>1, ReachedBefore
      <3>3. x \in rows <=> Reached(x, db, dbCalls, i - 1)
        BY <1>1, <1>2, <3>1, AfterMembers
      <3>4. due'[p] = rows \cap Selects[q]
        BY <1>3, <3>1
      <3> QED BY <3>1, <3>2, <3>3, <3>4
    <2> QED BY <1>1, <2>1, <2>2, AppendElements
  <1>6. ASSUME NEW a \in answers, a.ok PROVE a.found = due'[a.query]
    <2>1. a.query \in Queries /\ a.query # q
      BY <1>4 DEF TypeOK, Answers
    <2> QED BY <1>1, <1>3, <1>6, <2>1 DEF FindsAsDue
  <1> QED BY <1>5, <1>6

LEMMA FindsTakeCall ==
    ASSUME TypeOK, FindsAsDue, TakeCall
    PROVE  FindsAsDue'
  <1> SUFFICES ASSUME failures' = 0
               PROVE  /\ \A i \in DOMAIN dbCalls' : \A q \in dbCalls'[i].asks : \A x \in Rows :
                            x \in due[q] <=> x \in Selects[q] /\ Reached(x, db', dbCalls', i - 1)
                      /\ \A a \in answers' : a.ok => a.found = due[a.query]
    BY DEF FindsAsDue, TakeCall, queryVars
  <1>1. dbCalls \in Seq(DbCalls) /\ dbCalls # <<>> /\ dbCalls' = Tail(dbCalls)
    BY DEF TakeCall, TypeOK
  <1>2. /\ failures = 0 /\ db' = Apply(db, Head(dbCalls))
        /\ answers' = answers \cup {[query |-> q, ok |-> TRUE, found |-> db \cap Selects[q]] :
                                       q \in Head(dbCalls).asks}
    BY TakeCallParts DEF TypeOK
  <1>3. ASSUME NEW i \in DOMAIN dbCalls', NEW q \in dbCalls'[i].asks, NEW x \in Rows
        PROVE  x \in due[q] <=> x \in Selects[q] /\ Reached(x, db', dbCalls', i - 1)
    <2>1. i + 1 \in DOMAIN dbCalls /\ q \in dbCalls[i + 1].asks
      BY <1>1, <1>3, TailElements
    <2>2. i \in 1 .. Len(dbCalls) /\ (i + 1) - 1 = i
      BY <1>1, <2>1
    <2>3. Reached(x, db', dbCalls', i - 1) <=> Reached(x, db, dbCalls, i)
      BY <1>1, <1>2, <2>2, ReachedTail
    <2>4. x \in due[q] <=> x \in Selects[q] /\ Reached(x, db, dbCalls, (i + 1) - 1)
      BY <1>2, <2>1 DEF FindsAsDue
    <2> QED BY <2>2, <2>3, <2>4
  <1>4. ASSUME NEW a \in answers', a.ok PROVE a.found = due[a.query]
    <2>1. CASE a \in answers
      BY <1>2, <1>4, <2>1 DEF FindsAsDue
    <2>2. CASE a \notin answers
      <3>1. PICK q \in Head(dbCalls).asks :
                a = [query |-> q, ok |-> TRUE, found |-> db \cap Selects[q]]
        BY <1>2, <1>4, <2>2
      <3>2. 1 \in DOMAIN dbCalls /\ q \in dbCalls[1].asks /\ q \in Queries
        BY <1>1, <3>1, TailElements, CallParts
      <3>3. \A x \in Rows : x \in due[q] <=> x \in Selects[q] /\ Reached(x, db, dbCalls, 1 - 1)
        BY <1>2, <3>2 DEF FindsAsDue
      <3>4. \A x : Reached(x, db, dbCalls, 1 - 1) <=> x \in db
        BY DEF Reached
      <3>5. due[q] \in SUBSET Rows /\ db \in SUBSET Rows
        BY <3>2 DEF TypeOK
      <3> QED BY <3>1, <3>3, <3>4, <3>5
    <2> QED BY <2>1, <2>2
  <1> QED BY <1>3, <1>4

LEMMA FindsStep ==
    ASSUME TypeOK, AskedOnce, RowsAsCalled, FindsAsDue, [Next]_vars
    PROVE  FindsAsDue'
  <1>1. ASSUME NEW r \in Rows, NEW given \in Times, NEW e \in 0 .. MaxTime + Retention + 1,
               SaveMessage(r, given, e)
        PROVE  FindsAsDue'
    BY <1>1, SaveMakes, FindsMade DEF queryVars
  <1>2. ASSUME NEW gone \in Keys, DeleteMessage(gone)
        PROVE  FindsAsDue'
    BY <1>2, HistoryAssumption, DeleteMakes, FindsMade DEF queryVars
  <1>3. ASSUME NEW r \in Rows, NEW status \in BOOLEAN, SetReadStatus(r, status)
        PROVE  FindsAsDue'
    <2>1. UNCHANGED <<db, dbCalls, due, answers>> /\ (failures' = 0 => failures = 0)
      BY <1>3 DEF SetReadStatus, tableVars, queryVars, Fail, TypeOK
    <2> QED BY <2>1 DEF FindsAsDue
  <1>4. ASSUME NEW q \in Queries, Ask(q)
        PROVE  FindsAsDue'
    BY <1>4, FindsAsk
  <1>5. ASSUME NEW synced \in BOOLEAN, GetSystemTime(synced)
        PROVE  FindsAsDue'
    <2>1. UNCHANGED <<db, due, answers>>
      BY <1>5, SyncMakes DEF queryVars
    <2>2. CASE UNCHANGED <<dbCalls, failures>>
      BY <2>1, <2>2 DEF FindsAsDue
    <2>3. CASE Del(Expired) \in DbCalls /\ Del(Expired).asks = {} /\ Made(Del(Expired))
      BY <2>1, <2>3, FindsMade
    <2> QED BY <1>5, <2>2, <2>3, SyncMakes
  <1>6. ASSUME (\E a \in answers : GetResponse(a)) \/ ClockMoves \/ TakeMerge \/ UNCHANGED vars
        PROVE  FindsAsDue'
    <2>1. /\ UNCHANGED <<db, dbCalls, due>> /\ answers' \subseteq answers
          /\ (failures' = 0 => failures = 0)
      BY <1>6 DEF GetResponse, ClockMoves, TakeMerge, vars, tableVars, callVars, queryVars, faultVars,
                  Fail, TypeOK
    <2> QED BY <2>1 DEF FindsAsDue
  <1>7. CASE TakeCall
    BY <1>7, FindsTakeCall
  <1>8. CASE Restart
    <2>1. \A i \in DOMAIN dbCalls' : dbCalls'[i].asks = {}
      BY <1>8, RestartCalls
    <2>2. answers' = {}
      BY <1>8 DEF Restart
    <2> QED BY <2>1, <2>2 DEF FindsAsDue
  <1>10. ASSUME Refusal
         PROVE  FindsAsDue'
    <2>1. UNCHANGED <<db, dbCalls, due, answers, failures>>
      BY <1>10, RefusalKeeps DEF tableVars, callVars, faultVars
    <2> QED BY <2>1 DEF FindsAsDue
  <1> QED BY <1>1, <1>2, <1>3, <1>4, <1>5, <1>6, <1>7, <1>8, <1>10 DEF Next, Refusal

LEMMA AnswersStep ==
    ASSUME TypeOK, AskedOnce, FindsAsDue, AnswersAsOfCall, [Next]_vars
    PROVE  AnswersAsOfCall'
  <1> SUFFICES ASSUME NEW q \in Queries, failures' = 0, request'[q] = "ok"
               PROVE  got'[q] = due'[q]
    BY DEF AnswersAsOfCall
  <1>0. request \in [Queries -> Results] /\ got \in [Queries -> SUBSET Rows]
    BY DEF TypeOK
  <1>1. ASSUME NEW p \in Queries, Ask(p)
        PROVE  got'[q] = due'[q]
    <2>1. failures = 0 /\ got' = got
      BY <1>1, AskMakes, MadeTypes
    <2>2. q # p /\ request'[q] = request[q] /\ due'[q] = due[q]
      BY <1>1 DEF Ask, TypeOK
    <2> QED BY <2>1, <2>2 DEF AnswersAsOfCall
  <1>2. ASSUME NEW a \in answers, GetResponse(a)
        PROVE  got'[q] = due'[q]
    <2>1. /\ failures = 0 /\ due' = due /\ a.query \in Queries /\ a.ok \in BOOLEAN
          /\ got' = [got EXCEPT ![a.query] = a.found]
      BY <1>2 DEF GetResponse, AnswerCaller, CallerOf, faultVars, TypeOK, Answers
    <2>2. CASE q # a.query
      <3>1. request'[q] = request[q] /\ got'[q] = got[q]
        BY <1>0, <1>2, <2>1, <2>2 DEF GetResponse, AnswerCaller, CallerOf, Reply
      <3> QED BY <2>1, <3>1 DEF AnswersAsOfCall
    <2>3. CASE q = a.query
      <3>1. a.ok
        BY <1>0, <1>2, <2>1, <2>3 DEF GetResponse, AnswerCaller, CallerOf, Reply
      <3> QED BY <1>0, <2>1, <2>3, <3>1 DEF FindsAsDue
    <2> QED BY <2>2, <2>3
  <1>3. CASE Restart
    BY <1>0, <1>3 DEF Restart, AnswersAsOfCall
  <1>4. ASSUME UNCHANGED queryVars, failures' = 0 => failures = 0
        PROVE  got'[q] = due'[q]
    BY <1>4 DEF queryVars, AnswersAsOfCall
  <1>5. ASSUME NEW r \in Rows, NEW given \in Times, NEW e \in 0 .. MaxTime + Retention + 1,
               SaveMessage(r, given, e)
        PROVE  got'[q] = due'[q]
    BY <1>4, <1>5, SaveMakes, MadeTypes
  <1>6. ASSUME NEW gone \in Keys, DeleteMessage(gone)
        PROVE  got'[q] = due'[q]
    BY <1>4, <1>6, HistoryAssumption, DeleteMakes, MadeTypes
  <1>7. ASSUME NEW r \in Rows, NEW status \in BOOLEAN, SetReadStatus(r, status)
        PROVE  got'[q] = due'[q]
    BY <1>4, <1>7 DEF SetReadStatus, Fail, TypeOK
  <1>8. ASSUME NEW synced \in BOOLEAN, GetSystemTime(synced)
        PROVE  got'[q] = due'[q]
    BY <1>4, <1>8, SyncMakes, MadeTypes
  <1>9. CASE ClockMoves \/ TakeCall \/ TakeMerge \/ UNCHANGED vars
    BY <1>4, <1>9 DEF ClockMoves, TakeCall, TakeMerge, vars, faultVars, Fail, TypeOK
  <1>10. ASSUME Refusal
         PROVE  got'[q] = due'[q]
    <2>1. UNCHANGED <<got, due, failures>>
      BY <1>10, RefusalKeeps DEF faultVars
    <2>2. request[q] = "ok"
      BY <1>0, <1>10 DEF Refusal, RefuseQuery
    <2> QED BY <2>1, <2>2 DEF AnswersAsOfCall
  <1> QED BY <1>1, <1>2, <1>3, <1>5, <1>6, <1>7, <1>8, <1>9, <1>10 DEF Next, Refusal

-----------------------------------------------------------------------------
(* The purge.                                                                *)

LEMMA ClockStep ==
    ASSUME TypeOK, ClockBounds, [Next]_vars
    PROVE  ClockBounds'
  <1>1. ASSUME NEW synced \in BOOLEAN, GetSystemTime(synced)
        PROVE  ClockBounds'
    <2>1. CASE UNCHANGED <<clock, syncedAt, expireData>>
      BY <2>1 DEF ClockBounds
    <2>2. CASE clock' = clock /\ syncedAt' = clock /\ expireData' = TRUE
      <3>1. clock <= clock
        BY DEF TypeOK
      <3> QED BY <2>2, <3>1 DEF ClockBounds
    <2> QED BY <1>1, <2>1, <2>2, SyncMakes
  <1>2. CASE ClockMoves
    <2>1. PICK t \in 0 .. MaxTime : (expireData => t > clock) /\ clock' = t
      BY <1>2 DEF ClockMoves, Times
    <2>2. UNCHANGED <<syncedAt, expireData>>
      BY <1>2 DEF ClockMoves
    <2>3. t <= MaxTime /\ 0 <= t /\ syncedAt \in Nat /\ clock \in Nat
      BY <2>1, ConstantTypes DEF TypeOK
    <2>4. t > clock /\ syncedAt <= clock => syncedAt <= t
      BY <2>1, <2>3, ConstantTypes
    <2> QED BY <2>1, <2>2, <2>3, <2>4 DEF ClockBounds
  <1>3. CASE Restart
    BY <1>3 DEF Restart, ClockBounds, TypeOK
  <1>4. ASSUME UNCHANGED timeVars
        PROVE  ClockBounds'
    BY <1>4 DEF timeVars, ClockBounds
  <1> QED BY <1>1, <1>2, <1>3, <1>4 DEF Next, SaveMessage, DeleteMessage, SetReadStatus, Ask, RefuseQuery,
              GetResponse, TakeCall, TakeMerge, vars

LEMMA ExpiredStep ==
    ASSUME TypeOK, PutOnce, ClockBounds, ExpiredAtSyncIsGone, [Next]_vars
    PROVE  ExpiredAtSyncIsGone'
  <1> SUFFICES ASSUME failures' = 0, expireData', NEW x \in rows'
               PROVE  expire'[x] >= syncedAt'
    BY DEF ExpiredAtSyncIsGone
  <1>0. /\ expire \in [Rows -> Nat] /\ rows \in SUBSET Rows /\ rows \subseteq saved
        /\ clock \in Nat /\ syncedAt \in Nat /\ MaxTime \in Nat /\ Retention \in Nat
        /\ clock <= MaxTime /\ syncedAt <= clock
    BY ConstantTypes DEF TypeOK, PutOnce, ClockBounds
  <1>1. ASSUME NEW r \in Rows, NEW given \in Times, NEW e \in 0 .. MaxTime + Retention + 1,
               SaveMessage(r, given, e)
        PROVE  expire'[x] >= syncedAt'
    <2>1. /\ failures = 0 /\ expireData /\ syncedAt' = syncedAt
          /\ rows' = Apply(rows, Put(r))
      BY <1>1, SaveMakes, MadeTypes DEF timeVars
    <2>2. x = r \/ (x \in rows /\ x # r)
      BY <2>1 DEF Apply, Put
    <2>3. /\ expire' = [expire EXCEPT ![r] = e]
          /\ IsScheduleGood(given) /\ e \in Expiries(given)
      BY <1>1 DEF SaveMessage
    <2>4. e >= clock
      <3>1. given \in Nat /\ e \in Nat
        BY <1>0 DEF Times
      <3>2. CASE given # 0
        BY <1>0, <2>3, <3>1, <3>2 DEF IsScheduleGood, Expiries
      <3>3. CASE given = 0
        BY <1>0, <2>3, <3>1, <3>3 DEF Expiries, Never
      <3> QED BY <3>2, <3>3
    <2>5. CASE x = r
      <3>1. expire'[x] = e /\ e \in Nat
        BY <1>0, <2>3, <2>5
      <3> QED BY <1>0, <2>1, <2>4, <3>1
    <2>6. CASE x \in rows /\ x # r
      <3>1. expire'[x] = expire[x]
        BY <1>0, <2>3, <2>6
      <3> QED BY <2>1, <2>6, <3>1 DEF ExpiredAtSyncIsGone
    <2> QED BY <2>2, <2>5, <2>6
  <1>2. ASSUME NEW gone \in Keys, DeleteMessage(gone)
        PROVE  expire'[x] >= syncedAt'
    <2>1. /\ failures = 0 /\ expireData /\ syncedAt' = syncedAt /\ expire' = expire
          /\ rows' = Apply(rows, Del(gone))
      BY <1>2, HistoryAssumption, DeleteMakes, MadeTypes DEF timeVars
    <2>2. x \in rows
      BY <2>1 DEF Apply, Del
    <2> QED BY <2>1, <2>2 DEF ExpiredAtSyncIsGone
  <1>3. ASSUME NEW synced \in BOOLEAN, GetSystemTime(synced)
        PROVE  expire'[x] >= syncedAt'
    <2>1. expire' = expire
      BY <1>3, SyncMakes
    <2>2. CASE UNCHANGED <<expireData, syncedAt, dbCalls, rows, failures>>
      BY <2>1, <2>2 DEF ExpiredAtSyncIsGone
    <2>3. CASE syncedAt' = clock /\ rows' = Apply(rows, Del(Expired))
      <3>1. x \in rows /\ x \notin Expired
        BY <2>3 DEF Apply, Del
      <3>2. ~(expire[x] < clock) /\ expire[x] \in Nat
        BY <1>0, <3>1 DEF Expired
      <3> QED BY <1>0, <2>1, <2>3, <3>2
    <2> QED BY <1>3, <2>2, <2>3, SyncMakes
  <1>4. CASE Restart
    BY <1>4 DEF Restart
  <1>5. ASSUME UNCHANGED <<rows, expire, expireData, syncedAt>>, failures' = 0 => failures = 0
        PROVE  expire'[x] >= syncedAt'
    BY <1>5 DEF ExpiredAtSyncIsGone
  <1>6. ASSUME NEW q \in Queries, Ask(q)
        PROVE  expire'[x] >= syncedAt'
    BY <1>5, <1>6, AskMakes, MadeTypes DEF rowVars, timeVars
  <1>7. ASSUME NEW r \in Rows, NEW status \in BOOLEAN, SetReadStatus(r, status)
        PROVE  expire'[x] >= syncedAt'
    <2>1. UNCHANGED <<rows, expire, expireData, syncedAt>>
      BY <1>7 DEF SetReadStatus, timeVars
    <2>2. failures' = 0 => failures = 0
      BY <1>7 DEF SetReadStatus, Fail, TypeOK
    <2> QED BY <1>5, <2>1, <2>2
  <1>8. ASSUME (\E a \in answers : GetResponse(a)) \/ ClockMoves \/ TakeCall \/ TakeMerge
               \/ UNCHANGED vars
        PROVE  expire'[x] >= syncedAt'
    <2>1. UNCHANGED <<rows, expire, expireData, syncedAt>>
      BY <1>8 DEF GetResponse, ClockMoves, TakeCall, TakeMerge, vars, rowVars, timeVars
    <2>2. failures' = 0 => failures = 0
      <3>1. failures \in Nat
        BY DEF TypeOK
      <3>2. failures' = failures \/ failures' = failures + 1
        BY <1>8, TakeCallParts DEF GetResponse, ClockMoves, TakeMerge, vars, faultVars, Fail
      <3> QED BY <3>1, <3>2
    <2> QED BY <1>5, <2>1, <2>2
  <1>10. ASSUME Refusal
         PROVE  expire'[x] >= syncedAt'
    BY <1>5, <1>10, RefusalKeeps DEF rowVars, timeVars, faultVars
  <1> QED BY <1>1, <1>2, <1>3, <1>4, <1>6, <1>7, <1>8, <1>10 DEF Next, Refusal

-----------------------------------------------------------------------------
(* Merges.                                                                   *)

LEMMA MarksSame ==
    ASSUME MarksPending, UNCHANGED <<merges, marked, db, readRows>>, failures' = 0 => failures = 0
    PROVE  MarksPending'
  BY DEF MarksPending

LEMMA MarksSet ==
    ASSUME TypeOK, MarksPending, NEW r \in Rows, NEW status \in BOOLEAN, SetReadStatus(r, status)
    PROVE  MarksPending'
  <1> DEFINE m == [row |-> r, status |-> status]
  <1>1. merges \in Seq(Merges) /\ m \in Merges
    BY DEF TypeOK, Merges
  <1>2. UNCHANGED <<db, readRows>>
    BY DEF SetReadStatus, tableVars
  <1>3. CASE Fail /\ UNCHANGED <<merges, marked>>
    BY <1>2, <1>3, MarksSame DEF Fail, TypeOK
  <1>4. CASE /\ merges' = Append(merges, m)
             /\ marked' = IF status /\ r \in Seen THEN marked \cup {r} ELSE marked \ {r}
             /\ UNCHANGED failures
    <2> SUFFICES ASSUME failures = 0, NEW x \in marked'
                 PROVE  \/ \E i \in DOMAIN merges' :
                              /\ merges'[i] = [row |-> x, status |-> TRUE]
                              /\ \A j \in DOMAIN merges' : j > i => merges'[j].row # x
                        \/ /\ \A i \in DOMAIN merges' : merges'[i].row # x
                           /\ x \in db => x \in readRows
      BY <1>2, <1>4 DEF MarksPending
    <2>1. /\ DOMAIN merges' = DOMAIN merges \cup {Len(merges) + 1}
          /\ \A i \in DOMAIN merges : merges'[i] = merges[i] /\ ~(i > Len(merges) + 1)
          /\ merges'[Len(merges) + 1] = m
          /\ ~(Len(merges) + 1 > Len(merges) + 1)
      BY <1>1, <1>4
    <2>2. CASE x = r
      <3>1. m = [row |-> x, status |-> TRUE]
        BY <1>4, <2>2
      <3> QED BY <2>1, <3>1
    <2>3. CASE x # r
      <3>1. x \in marked /\ m.row # x
        BY <1>4, <2>3
      <3>2. CASE \E i \in DOMAIN merges :
                    /\ merges[i] = [row |-> x, status |-> TRUE]
                    /\ \A j \in DOMAIN merges : j > i => merges[j].row # x
        BY <2>1, <3>1, <3>2
      <3>3. CASE (\A i \in DOMAIN merges : merges[i].row # x) /\ (x \in db => x \in readRows)
        BY <2>1, <3>1, <3>3
      <3> QED BY <3>1, <3>2, <3>3 DEF MarksPending
    <2> QED BY <2>2, <2>3
  <1> QED BY <1>3, <1>4 DEF SetReadStatus, MergeRow

LEMMA MarksTakeCall ==
    ASSUME TypeOK, PutOnce, MarksPending, TakeCall
    PROVE  MarksPending'
  <1> SUFFICES ASSUME failures' = 0, NEW x \in marked
               PROVE  \/ \E i \in DOMAIN merges :
                            /\ merges[i] = [row |-> x, status |-> TRUE]
                            /\ \A j \in DOMAIN merges : j > i => merges[j].row # x
                      \/ (\A i \in DOMAIN merges : merges[i].row # x) /\ (x \in db' => x \in readRows')
    BY DEF MarksPending, TakeCall, rowVars
  <1>1. /\ failures = 0 /\ db' = Apply(db, Head(dbCalls))
        /\ readRows' = readRows \ Head(dbCalls).drop
    BY TakeCallParts DEF TypeOK
  <1>2. x \notin Head(dbCalls).add
    <2>1. dbCalls \in Seq(DbCalls) /\ dbCalls # <<>>
      BY DEF TypeOK, TakeCall
    <2>2. 1 \in DOMAIN dbCalls /\ Head(dbCalls) = dbCalls[1]
      BY <2>1
    <2> QED BY <2>2 DEF PutOnce, Taken
  <1>3. x \in db' => x \in db /\ x \notin Head(dbCalls).drop
    BY <1>1, <1>2 DEF Apply
  <1> QED BY <1>1, <1>3 DEF MarksPending

LEMMA MarksTakeMerge ==
    ASSUME TypeOK, MarksPending, TakeMerge
    PROVE  MarksPending'
  <1> DEFINE m == Head(merges)
  <1> SUFFICES ASSUME failures' = 0, NEW x \in marked
               PROVE  \/ \E i \in DOMAIN merges' :
                            /\ merges'[i] = [row |-> x, status |-> TRUE]
                            /\ \A j \in DOMAIN merges' : j > i => merges'[j].row # x
                      \/ (\A i \in DOMAIN merges' : merges'[i].row # x) /\ (x \in db => x \in readRows')
    BY DEF MarksPending, TakeMerge, rowVars
  <1>1. merges \in Seq(Merges) /\ merges # <<>> /\ merges' = Tail(merges)
    BY DEF TypeOK, TakeMerge
  <1>2. /\ m = merges[1] /\ 1 \in DOMAIN merges
        /\ \A i \in DOMAIN merges' : i + 1 \in DOMAIN merges /\ merges'[i] = merges[i + 1]
        /\ \A i \in DOMAIN merges : i # 1 => i - 1 \in DOMAIN merges' /\ merges'[i - 1] = merges[i]
    BY <1>1
  <1>3. /\ failures = 0
        /\ readRows' = IF m.status THEN readRows \cup ({m.row} \cap db) ELSE readRows \ {m.row}
    BY DEF TakeMerge, Fail, TypeOK
  <1>4. CASE \E i \in DOMAIN merges :
                /\ merges[i] = [row |-> x, status |-> TRUE]
                /\ \A j \in DOMAIN merges : j > i => merges[j].row # x
    <2>1. PICK i \in DOMAIN merges :
                /\ merges[i] = [row |-> x, status |-> TRUE]
                /\ \A j \in DOMAIN merges : j > i => merges[j].row # x
      BY <1>4
    <2>2. CASE i = 1
      <3>1. m.row = x /\ m.status
        BY <1>2, <2>1, <2>2
      <3>2. x \in db => x \in readRows'
        BY <1>3, <3>1
      <3>3. ASSUME NEW j \in DOMAIN merges' PROVE merges'[j].row # x
        <4>1. j + 1 \in DOMAIN merges /\ j + 1 > 1
          BY <1>1, <1>2, <3>3
        <4> QED BY <1>2, <2>1, <2>2, <4>1
      <3> QED BY <3>2, <3>3
    <2>3. CASE i # 1
      <3>1. i - 1 \in DOMAIN merges' /\ merges'[i - 1] = [row |-> x, status |-> TRUE]
        BY <1>2, <2>1, <2>3
      <3>2. ASSUME NEW j \in DOMAIN merges', j > i - 1 PROVE merges'[j].row # x
        <4>1. j + 1 \in DOMAIN merges /\ j + 1 > i
          BY <1>1, <1>2, <2>1, <3>2
        <4> QED BY <1>2, <2>1, <4>1
      <3> QED BY <3>1, <3>2
    <2> QED BY <2>2, <2>3
  <1>5. CASE (\A i \in DOMAIN merges : merges[i].row # x) /\ (x \in db => x \in readRows)
    <2>1. m.row # x /\ \A i \in DOMAIN merges' : merges'[i].row # x
      BY <1>2, <1>5
    <2> QED BY <1>3, <1>5, <2>1
  <1> QED BY <1>3, <1>4, <1>5 DEF MarksPending

LEMMA MarksRestart ==
    ASSUME TypeOK, MarksPending, Restart
    PROVE  MarksPending'
  <1>1. merges \in Seq(Merges) /\ UNCHANGED <<db, readRows, failures>>
    BY DEF Restart, TypeOK, tableVars
  <1>2. PICK n \in 0 .. Len(merges) :
            /\ DOMAIN merges' = 1 .. n
            /\ \A i \in 1 .. n : i \in DOMAIN merges /\ merges'[i] = merges[i]
            /\ marked' = marked \ {merges[i].row : i \in n + 1 .. Len(merges)}
    BY RestartMerges
  <1> SUFFICES ASSUME failures = 0, NEW x \in marked'
               PROVE  \/ \E i \in DOMAIN merges' :
                            /\ merges'[i] = [row |-> x, status |-> TRUE]
                            /\ \A j \in DOMAIN merges' : j > i => merges'[j].row # x
                      \/ (\A i \in DOMAIN merges' : merges'[i].row # x) /\ (x \in db => x \in readRows)
    BY <1>1 DEF MarksPending
  <1>3. x \in marked /\ \A i \in n + 1 .. Len(merges) : merges[i].row # x
    BY <1>2
  <1>4. CASE \E i \in DOMAIN merges :
                /\ merges[i] = [row |-> x, status |-> TRUE]
                /\ \A j \in DOMAIN merges : j > i => merges[j].row # x
    <2>1. PICK i \in DOMAIN merges :
                /\ merges[i] = [row |-> x, status |-> TRUE]
                /\ \A j \in DOMAIN merges : j > i => merges[j].row # x
      BY <1>4
    <2>2. i \notin n + 1 .. Len(merges)
      BY <1>3, <2>1
    <2>3. i \in 1 .. n
      BY <1>1, <2>1, <2>2
    <2> QED BY <1>2, <2>1, <2>3
  <1>5. CASE (\A i \in DOMAIN merges : merges[i].row # x) /\ (x \in db => x \in readRows)
    BY <1>2, <1>5
  <1> QED BY <1>3, <1>4, <1>5 DEF MarksPending

LEMMA MarksStep ==
    ASSUME TypeOK, PutOnce, MarksPending, [Next]_vars
    PROVE  MarksPending'
  <1>1. ASSUME NEW r \in Rows, NEW given \in Times, NEW e \in 0 .. MaxTime + Retention + 1,
               SaveMessage(r, given, e)
        PROVE  MarksPending'
    BY <1>1, SaveMakes, MadeTypes, MarksSame
  <1>2. ASSUME NEW gone \in Keys, DeleteMessage(gone)
        PROVE  MarksPending'
    BY <1>2, HistoryAssumption, DeleteMakes, MadeTypes, MarksSame
  <1>3. ASSUME NEW r \in Rows, NEW status \in BOOLEAN, SetReadStatus(r, status)
        PROVE  MarksPending'
    BY <1>3, MarksSet
  <1>4. ASSUME NEW q \in Queries, Ask(q)
        PROVE  MarksPending'
    BY <1>4, AskMakes, MadeTypes, MarksSame DEF rowVars
  <1>5. ASSUME NEW synced \in BOOLEAN, GetSystemTime(synced)
        PROVE  MarksPending'
    BY <1>5, SyncMakes, MadeTypes, MarksSame
  <1>6. ASSUME (\E a \in answers : GetResponse(a)) \/ ClockMoves \/ UNCHANGED vars
        PROVE  MarksPending'
    BY <1>6, MarksSame DEF GetResponse, ClockMoves, vars, tableVars, callVars, rowVars, faultVars
  <1>7. CASE TakeCall
    BY <1>7, MarksTakeCall
  <1>8. CASE TakeMerge
    BY <1>8, MarksTakeMerge
  <1>9. CASE Restart
    BY <1>9, MarksRestart
  <1>10. ASSUME Refusal
         PROVE  MarksPending'
    BY <1>10, RefusalKeeps, MarksSame DEF tableVars, callVars, rowVars, faultVars
  <1> QED BY <1>1, <1>2, <1>3, <1>4, <1>5, <1>6, <1>7, <1>8, <1>9, <1>10 DEF Next, Refusal

-----------------------------------------------------------------------------
(* The invariant, and the theorems.                                          *)

LEMMA InvInit == Init => Inv
  <1> SUFFICES ASSUME Init PROVE Inv
    OBVIOUS
  <1>1. TypeOK
    BY InitTypes
  <1>2. AskedOnce /\ PutOnce
    BY DEF Init, AskedOnce, PutOnce, Taken, Seen
  <1>3. RowsAsCalled
    BY DEF Init, RowsAsCalled, After
  <1>4. FindsAsDue /\ AnswersAsOfCall /\ ExpiredAtSyncIsGone /\ MarksPending
    BY DEF Init, FindsAsDue, AnswersAsOfCall, ExpiredAtSyncIsGone, MarksPending
  <1>5. ClockBounds
    BY ConstantTypes DEF Init, ClockBounds
  <1> QED BY <1>1, <1>2, <1>3, <1>4, <1>5 DEF Inv

LEMMA InvNext == Inv /\ [Next]_vars => Inv'
  BY TypeStep, AskedStep, PutStep, RowsStep, FindsStep, AnswersStep, ClockStep, ExpiredStep, MarksStep
     DEF Inv

LEMMA Invariance == Spec => []Inv
  BY InvInit, InvNext, PTL DEF Spec

\* Every variable keeps its type: a reference on a query's message is never
\* given back twice, and no row is read that is not there.
THEOREM HistoryTypeCorrect == Spec => []TypeOK
  <1>1. Inv => TypeOK
    BY DEF Inv
  <1> QED BY <1>1, Invariance, PTL

\* The table comes to what saveMessage, the deletions and the purge called for,
\* in their order, unless a call fails.
THEOREM CallsKept == Spec => []RowsAsCalled
  <1>1. Inv => RowsAsCalled
    BY DEF Inv
  <1> QED BY <1>1, Invariance, PTL

\* getToastList and getNotificationInfo answer with the rows of the moment at
\* which they were called, however many of them overlap.
THEOREM QueriesFindTheirMoment == Spec => []AnswersAsOfCall
  <1>1. Inv => AnswersAsOfCall
    BY DEF Inv
  <1> QED BY <1>1, Invariance, PTL

\* A message is referenced exactly while its query waits, and answered once.
THEOREM ReferencesHeld == Spec => []ReferencesBalance
  <1>1. Inv => ReferencesBalance
    BY DEF Inv, AskedOnce, ReferencesBalance
  <1> QED BY <1>1, Invariance, PTL

\* Whoever waits for rows is waited for: no failure, restart or overlap leaves a
\* caller behind whose find is neither on its way nor replied to.
THEOREM WaitingQueriesUnderWay == Spec => []WaitingIsUnderWay
  <1>1. Init => WaitingIsUnderWay
    BY DEF Init, WaitingIsUnderWay
  <1>2. Inv /\ WaitingIsUnderWay /\ [Next]_vars => WaitingIsUnderWay'
    BY WaitingStep DEF Inv
  <1> QED BY <1>1, <1>2, Invariance, PTL DEF Spec

\* What had expired when the clock was set right is gone and stays away.
THEOREM PurgeHolds == Spec => []ExpiredAtSyncIsGone
  <1>1. Inv => ExpiredAtSyncIsGone
    BY DEF Inv
  <1> QED BY <1>1, Invariance, PTL

\* A row that a caller knew of when it was marked read is marked, whichever of
\* the two service names is served first.
THEOREM MarksHold == Spec => []MarkIsKept
  <1>1. Inv => MarkIsKept
    BY DEF Inv, MarksPending, MarkIsKept
  <1> QED BY <1>1, Invariance, PTL
=============================================================================
