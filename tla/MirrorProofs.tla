----------------------------- MODULE MirrorProofs -----------------------------
(* The mirror catches up, and is right when nothing is under way, for every   *)
(* value of AppList's constants. What the replies on their way will do is a   *)
(* recursive function; it is reasoned about by induction on their number.     *)
EXTENDS AppListProofs, NatInduction

-----------------------------------------------------------------------------
(* What After computes.                                                      *)

\* f holds the entries after each of the first n replies.
Handles(f, n, entries, msgs, a) ==
    f = [i \in 0 .. n |-> IF i = 0 THEN entries ELSE AppResponse(f[i - 1], msgs[i], a)]

LEMMA HandlesExists ==
    ASSUME NEW entries, NEW msgs, NEW a
    PROVE  \A n \in Nat : \E f : Handles(f, n, entries, msgs, a)
  <1> DEFINE S == {n \in Nat : \E f : Handles(f, n, entries, msgs, a)}
  <1>1. 0 \in S
    <2> DEFINE f == [i \in 0 .. 0 |-> entries]
    <2>1. Handles(f, 0, entries, msgs, a)
      BY DEF Handles
    <2> QED BY <2>1
  <1>2. ASSUME NEW n \in Nat, n \in S
        PROVE  n + 1 \in S
    <2>1. PICK f : Handles(f, n, entries, msgs, a)
      BY <1>2
    <2> DEFINE g == [i \in 0 .. n + 1 |->
                        IF i = n + 1 THEN AppResponse(f[n], msgs[n + 1], a) ELSE f[i]]
    <2>2. \A i \in 0 .. n : f[i] = IF i = 0 THEN entries ELSE AppResponse(f[i - 1], msgs[i], a)
      BY <2>1, Zenon DEF Handles
    <2>3. \A i \in 0 .. n : g[i] = f[i]
      OBVIOUS
    <2>4. ASSUME NEW i \in 0 .. n + 1
          PROVE  g[i] = IF i = 0 THEN entries ELSE AppResponse(g[i - 1], msgs[i], a)
      <3>1. CASE i = n + 1
        <4>1. g[i] = AppResponse(f[n], msgs[n + 1], a)
          BY <3>1
        <4>2. i # 0 /\ i - 1 = n /\ g[n] = f[n]
          BY <3>1, <2>3
        <4> QED BY <3>1, <4>1, <4>2
      <3>2. CASE i \in 0 .. n
        <4>1. i = 0 \/ i - 1 \in 0 .. n
          BY <3>2
        <4> HIDE DEF g
        <4> QED BY <2>2, <2>3, <3>2, <4>1
      <3> QED BY <3>1, <3>2
    <2>5. g = [i \in 0 .. n + 1 |-> g[i]]
      OBVIOUS
    <2> HIDE DEF g
    <2>6. Handles(g, n + 1, entries, msgs, a)
      BY <2>4, <2>5 DEF Handles
    <2> QED BY <2>6
  <1> HIDE DEF S
  <1>3. Nat \subseteq S
    BY <1>1, <1>2, Induction
  <1> QED BY <1>3 DEF S

LEMMA HandlesUnique ==
    ASSUME NEW entries, NEW msgs, NEW a, NEW n \in Nat, NEW f, NEW g,
           Handles(f, n, entries, msgs, a), Handles(g, n, entries, msgs, a)
    PROVE  f = g
  <1> DEFINE S == {i \in Nat : i <= n => f[i] = g[i]}
  <1>1. \A i \in 0 .. n : /\ f[i] = IF i = 0 THEN entries ELSE AppResponse(f[i - 1], msgs[i], a)
                          /\ g[i] = IF i = 0 THEN entries ELSE AppResponse(g[i - 1], msgs[i], a)
    BY Zenon DEF Handles
  <1>2. 0 \in S
    BY <1>1
  <1>3. ASSUME NEW i \in Nat, i \in S
        PROVE  i + 1 \in S
    <2> SUFFICES ASSUME i + 1 <= n PROVE f[i + 1] = g[i + 1]
      OBVIOUS
    <2>1. i + 1 \in 0 .. n /\ i + 1 # 0 /\ (i + 1) - 1 = i /\ f[i] = g[i]
      BY <1>3
    <2> QED BY <1>1, <2>1
  <1> HIDE DEF S
  <1>4. Nat \subseteq S
    BY <1>2, <1>3, Induction
  <1>5. \A i \in 0 .. n : f[i] = g[i]
    BY <1>4 DEF S
  <1>6. f = [i \in 0 .. n |-> f[i]] /\ g = [i \in 0 .. n |-> g[i]]
    BY Zenon DEF Handles
  <1> QED BY <1>5, <1>6

\* The function that After defines is the one there is.
LEMMA AfterIs ==
    ASSUME NEW entries, NEW msgs, NEW a, Len(msgs) \in Nat,
           NEW f, Handles(f, Len(msgs), entries, msgs, a)
    PROVE  After(entries, msgs, a) = f[Len(msgs)]
  <1> DEFINE h == CHOOSE g : Handles(g, Len(msgs), entries, msgs, a)
  <1>1. After(entries, msgs, a) = h[Len(msgs)]
    BY DEF After, Handles
  <1>2. Handles(h, Len(msgs), entries, msgs, a)
    OBVIOUS
  <1> HIDE DEF h
  <1>3. h = f
    BY <1>2, HandlesUnique
  <1> QED BY <1>1, <1>3

\* Without a reply the entries stay.
LEMMA AfterNone ==
    ASSUME NEW entries, NEW a
    PROVE  After(entries, <<>>, a) = entries
  <1>1. Len(<<>>) = 0
    OBVIOUS
  <1>2. PICK f : Handles(f, 0, entries, <<>>, a)
    BY HandlesExists
  <1>3. f[0] = entries
    <2>1. \A i \in 0 .. 0 :
              f[i] = IF i = 0 THEN entries ELSE AppResponse(f[i - 1], <<>>[i], a)
      BY <1>2, Zenon DEF Handles
    <2> QED BY <2>1
  <1> QED BY <1>1, <1>2, <1>3, AfterIs

\* One more reply has its effect at the end.
LEMMA AfterAppend ==
    ASSUME NEW entries, NEW msgs \in Seq(AppMsgs), NEW m \in AppMsgs, NEW a
    PROVE  After(entries, Append(msgs, m), a) = AppResponse(After(entries, msgs, a), m, a)
  <1> DEFINE n == Len(msgs)
             more == Append(msgs, m)
  <1>1. n \in Nat /\ Len(more) = n + 1 /\ more[n + 1] = m /\ \A i \in 1 .. n : more[i] = msgs[i]
    OBVIOUS
  <1> HIDE DEF n, more
  <1>2. PICK f : Handles(f, n + 1, entries, more, a)
    <2>1. n + 1 \in Nat
      BY <1>1
    <2> QED BY <2>1, HandlesExists
  <1>3. \A i \in 0 .. n + 1 :
            f[i] = IF i = 0 THEN entries ELSE AppResponse(f[i - 1], more[i], a)
    BY <1>2, Zenon DEF Handles
  <1> DEFINE g == [i \in 0 .. n |-> f[i]]
  <1>4. ASSUME NEW i \in 0 .. n
        PROVE  g[i] = IF i = 0 THEN entries ELSE AppResponse(g[i - 1], msgs[i], a)
    <2>1. g[i] = f[i] /\ i \in 0 .. n + 1
      BY <1>1
    <2>2. i = 0 \/ (i - 1 \in 0 .. n /\ g[i - 1] = f[i - 1] /\ more[i] = msgs[i])
      BY <1>1
    <2> HIDE DEF g
    <2> QED BY <1>3, <2>1, <2>2
  <1>5. g = [i \in 0 .. n |-> g[i]] /\ g[n] = f[n]
    BY <1>1
  <1> HIDE DEF g
  <1>6. Handles(g, n, entries, msgs, a)
    BY <1>4, <1>5 DEF Handles
  <1>7. After(entries, msgs, a) = f[n]
    BY <1>1, <1>5, <1>6, AfterIs DEF n
  <1>8. After(entries, more, a) = f[n + 1]
    BY <1>1, <1>2, AfterIs
  <1>9. f[n + 1] = AppResponse(f[n], m, a)
    <2>1. n + 1 \in 0 .. n + 1 /\ n + 1 # 0 /\ (n + 1) - 1 = n
      BY <1>1
    <2> QED BY <1>1, <1>3, <2>1
  <1> QED BY <1>7, <1>8, <1>9 DEF more

\* The first reply may be handled before the others.
LEMMA AfterFirst ==
    ASSUME NEW entries, NEW msgs \in Seq(AppMsgs), msgs # <<>>, NEW a
    PROVE  After(AppResponse(entries, Head(msgs), a), Tail(msgs), a) = After(entries, msgs, a)
  <1> DEFINE rest == Tail(msgs)
             n    == Len(rest)
  <1>1. /\ n \in Nat /\ Len(msgs) = n + 1 /\ Head(msgs) = msgs[1]
        /\ \A i \in 1 .. n : rest[i] = msgs[i + 1]
    OBVIOUS
  <1> HIDE DEF rest, n
  <1>2. PICK f : Handles(f, n + 1, entries, msgs, a)
    <2>1. n + 1 \in Nat
      BY <1>1
    <2> QED BY <2>1, HandlesExists
  <1>3. \A i \in 0 .. n + 1 :
            f[i] = IF i = 0 THEN entries ELSE AppResponse(f[i - 1], msgs[i], a)
    BY <1>2, Zenon DEF Handles
  <1>4. f[1] = AppResponse(entries, Head(msgs), a)
    <2>1. f[0] = entries
      BY <1>1, <1>3
    <2>2. 1 \in 0 .. n + 1 /\ 1 - 1 = 0
      BY <1>1
    <2> QED BY <1>1, <1>3, <2>1, <2>2
  <1> DEFINE g == [i \in 0 .. n |-> f[i + 1]]
  <1>5. ASSUME NEW i \in 0 .. n
        PROVE  g[i] = IF i = 0 THEN f[1] ELSE AppResponse(g[i - 1], rest[i], a)
    <2>1. CASE i = 0
      BY <2>1
    <2>2. CASE i # 0
      <3>1. /\ g[i] = f[i + 1] /\ g[i - 1] = f[i] /\ rest[i] = msgs[i + 1]
            /\ i + 1 \in 0 .. n + 1 /\ i + 1 # 0 /\ (i + 1) - 1 = i
        BY <1>1, <2>2
      <3> HIDE DEF g
      <3> QED BY <1>3, <2>2, <3>1
    <2> QED BY <2>1, <2>2
  <1>6. g = [i \in 0 .. n |-> g[i]] /\ g[n] = f[n + 1]
    BY <1>1
  <1> HIDE DEF g
  <1>7. Handles(g, n, f[1], rest, a)
    BY <1>5, <1>6 DEF Handles
  <1>8. After(f[1], rest, a) = f[n + 1]
    BY <1>1, <1>6, <1>7, AfterIs DEF n
  <1>9. After(entries, msgs, a) = f[n + 1]
    BY <1>1, <1>2, AfterIs
  <1> QED BY <1>4, <1>8, <1>9 DEF rest

LEMMA AfterType ==
    ASSUME NEW entries \in Seq(Icons), NEW msgs \in Seq(AppMsgs), NEW a \in Apps
    PROVE  After(entries, msgs, a) \in Seq(Icons)
  <1> DEFINE n == Len(msgs)
  <1>1. n \in Nat /\ \A i \in 1 .. n : msgs[i] \in AppMsgs
    OBVIOUS
  <1> HIDE DEF n
  <1>2. PICK f : Handles(f, n, entries, msgs, a)
    BY <1>1, HandlesExists
  <1>3. \A i \in 0 .. n : f[i] = IF i = 0 THEN entries ELSE AppResponse(f[i - 1], msgs[i], a)
    BY <1>2, Zenon DEF Handles
  <1> DEFINE S == {i \in Nat : i <= n => f[i] \in Seq(Icons)}
  <1>4. 0 \in S
    BY <1>1, <1>3
  <1>5. ASSUME NEW i \in Nat, i \in S
        PROVE  i + 1 \in S
    <2> SUFFICES ASSUME i + 1 <= n PROVE f[i + 1] \in Seq(Icons)
      OBVIOUS
    <2>1. /\ i + 1 \in 0 .. n /\ i + 1 # 0 /\ (i + 1) - 1 = i
          /\ f[i] \in Seq(Icons) /\ msgs[i + 1] \in AppMsgs
      BY <1>1, <1>5
    <2>2. AppResponse(f[i], msgs[i + 1], a) \in Seq(Icons)
      BY <2>1, ResponseType
    <2> QED BY <1>3, <2>1, <2>2
  <1> HIDE DEF S
  <1>6. Nat \subseteq S
    BY <1>4, <1>5, Induction
  <1>7. f[n] \in Seq(Icons)
    BY <1>1, <1>6 DEF S
  <1> QED BY <1>1, <1>2, <1>7, AfterIs DEF n

-----------------------------------------------------------------------------
(* A change that is told to each of several subscriptions.                    *)

Copies(m, k) == [i \in 1 .. k |-> m]

\* One copy more has its effect at the end.
LEMMA AfterCopy ==
    ASSUME NEW entries, NEW msgs \in Seq(AppMsgs), NEW m \in AppMsgs, NEW a
    PROVE  /\ After(entries, msgs \o Copies(m, 0), a) = After(entries, msgs, a)
           /\ \A k \in Nat : After(entries, msgs \o Copies(m, k + 1), a)
                               = AppResponse(After(entries, msgs \o Copies(m, k), a), m, a)
  <1>1. msgs \o Copies(m, 0) = msgs
    BY DEF Copies
  <1>2. ASSUME NEW k \in Nat
        PROVE  After(entries, msgs \o Copies(m, k + 1), a)
                 = AppResponse(After(entries, msgs \o Copies(m, k), a), m, a)
    <2> DEFINE some == Copies(m, k)
    <2>1. some \in Seq(AppMsgs) /\ Len(some) = k /\ Append(some, m) = Copies(m, k + 1)
      BY DEF Copies
    <2> HIDE DEF some
    <2>2. msgs \o Append(some, m) = Append(msgs \o some, m) /\ msgs \o some \in Seq(AppMsgs)
      BY <2>1
    <2> DEFINE all == msgs \o some
    <2> HIDE DEF all
    <2>3. After(entries, Append(all, m), a) = AppResponse(After(entries, all, a), m, a)
      BY <2>2, AfterAppend DEF all
    <2> QED BY <2>1, <2>2, <2>3, Zenon DEF some, all
  <1> QED BY <1>1, <1>2

Change(kind, b, icon) == [change |-> kind, apps |-> Only(b, icon)]

LEMMA ChangeType ==
    ASSUME NEW kind \in {"added", "updated", "removed"}, NEW b \in Apps, NEW icon \in Icons
    PROVE  /\ Change(kind, b, icon) \in AppMsgs
           /\ \A k \in Nat : Copies(Change(kind, b, icon), k) \in Seq(AppMsgs)
  <1>1. Only(b, icon) \in Lists
    <2>1. Only(b, icon) \in [{b} -> Icons]
      BY DEF Only
    <2> QED BY <2>1 DEF Lists
  <1>2. Change(kind, b, icon) \in AppMsgs
    BY <1>1 DEF Change, AppMsgs, Kinds
  <1> HIDE DEF Change
  <1> QED BY <1>2 DEF Copies

\* What one change does to the entries of each application.
LEMMA OneChange ==
    ASSUME NEW kind \in {"added", "updated", "removed"}, NEW b, NEW icon, NEW entries, NEW a
    PROVE  AppResponse(entries, Change(kind, b, icon), a)
             = IF a # b THEN entries
               ELSE CASE kind = "added"   -> Append(entries, icon)
                      [] kind = "updated" -> Updated(entries, icon)
                      [] kind = "removed" -> Removed(entries)
  BY DEF AppResponse, Change, Only

\* What they were, they are after a change that was told k times; k is the
\* number of entries one more, one as good as another, or one less was made of.
Changed(kind, was, are, icon, k) ==
    /\ kind = "added" /\ was = <<>> => Len(are) = k /\ (k > 0 => Head(are) = icon)
    /\ kind = "updated" /\ was # <<>> =>
           /\ Len(are) = Len(was)
           /\ Head(are) = IF k > 0 THEN icon ELSE Head(was)
    /\ kind = "removed" => are = <<>> \/ Len(are) + k <= Len(was)

LEMMA ChangedOnceMore ==
    ASSUME NEW kind \in {"added", "updated", "removed"}, NEW icon \in Icons, NEW k \in Nat,
           NEW was \in Seq(Icons), NEW are \in Seq(Icons), NEW b, Changed(kind, was, are, icon, k)
    PROVE  Changed(kind, was, AppResponse(are, Change(kind, b, icon), b), icon, k + 1)
  <1>1. CASE kind = "added"
    <2>1. AppResponse(are, Change(kind, b, icon), b) = Append(are, icon)
      BY <1>1, OneChange
    <2>2. was = <<>> => Len(Append(are, icon)) = k + 1 /\ Head(Append(are, icon)) = icon
      <3> SUFFICES ASSUME was = <<>> 
                   PROVE  Len(Append(are, icon)) = k + 1 /\ Head(Append(are, icon)) = icon
        OBVIOUS
      <3>1. Len(are) = k /\ (k > 0 => Head(are) = icon)
        BY <1>1 DEF Changed
      <3>2. CASE k = 0
        BY <3>1, <3>2
      <3>3. CASE k > 0
        BY <3>1, <3>3
      <3> QED BY <3>2, <3>3
    <2> QED BY <1>1, <2>1, <2>2 DEF Changed
  <1>2. CASE kind = "updated"
    <2>1. AppResponse(are, Change(kind, b, icon), b) = Updated(are, icon)
      BY <1>2, OneChange
    <2>2. was # <<>> => are # <<>> /\ Len(are) = Len(was)
      BY <1>2 DEF Changed
    <2>3. are # <<>> => Len(Updated(are, icon)) = Len(are) /\ Head(Updated(are, icon)) = icon
      BY DEF Updated
    <2> QED BY <1>2, <2>1, <2>2, <2>3 DEF Changed
  <1>3. CASE kind = "removed"
    <2>1. AppResponse(are, Change(kind, b, icon), b) = Removed(are)
      BY <1>3, OneChange
    <2>2. are = <<>> \/ Len(are) + k <= Len(was)
      BY <1>3 DEF Changed
    <2>3. Removed(are) = <<>> \/ Len(Removed(are)) + (k + 1) <= Len(was)
      <3>1. CASE are = <<>>
        BY <3>1 DEF Removed
      <3>2. CASE are # <<>>
        <4>1. Len(Tail(are)) = Len(are) - 1 /\ Len(are) \in Nat /\ Len(was) \in Nat
          BY <3>2
        <4>2. Len(Tail(are)) + (k + 1) <= Len(was)
          BY <2>2, <3>2, <4>1
        <4> QED BY <3>2, <4>2 DEF Removed
      <3> QED BY <3>1, <3>2
    <2> QED BY <1>3, <2>1, <2>3 DEF Changed
  <1> QED BY <1>1, <1>2, <1>3

LEMMA AfterChange ==
    ASSUME NEW kind \in {"added", "updated", "removed"}, NEW b \in Apps, NEW icon \in Icons,
           NEW entries \in Seq(Icons), NEW msgs \in Seq(AppMsgs), NEW k \in Nat
    PROVE  /\ \A a \in Apps \ {b} : After(entries, msgs \o Copies(Change(kind, b, icon), k), a)
                                      = After(entries, msgs, a)
           /\ Changed(kind, After(entries, msgs, b),
                      After(entries, msgs \o Copies(Change(kind, b, icon), k), b), icon, k)
  <1> DEFINE m       == Change(kind, b, icon)
             Ends(a, i) == After(entries, msgs \o Copies(m, i), a)
  <1>1. m \in AppMsgs /\ \A i \in Nat : Copies(m, i) \in Seq(AppMsgs)
    BY ChangeType
  <1>2. ASSUME NEW a \in Apps, NEW i \in Nat
        PROVE  Ends(a, i) \in Seq(Icons)
    <2>1. msgs \o Copies(m, i) \in Seq(AppMsgs)
      BY <1>1
    <2> QED BY <2>1, AfterType
  <1>3. ASSUME NEW a \in Apps
        PROVE  /\ Ends(a, 0) = After(entries, msgs, a)
               /\ \A i \in Nat : Ends(a, i + 1) = AppResponse(Ends(a, i), m, a)
    BY <1>1, AfterCopy
  <1> HIDE DEF Ends
  <1>4. ASSUME NEW a \in Apps \ {b}
        PROVE  Ends(a, k) = After(entries, msgs, a)
    <2> DEFINE S == {i \in Nat : Ends(a, i) = After(entries, msgs, a)}
    <2>1. 0 \in S
      BY <1>3
    <2>2. ASSUME NEW i \in Nat, i \in S
          PROVE  i + 1 \in S
      BY <1>3, <2>2, OneChange
    <2> HIDE DEF S
    <2> QED BY <2>1, <2>2, Induction DEF S
  <1>5. Changed(kind, After(entries, msgs, b), Ends(b, k), icon, k)
    <2> DEFINE was == After(entries, msgs, b)
               S   == {i \in Nat : Changed(kind, was, Ends(b, i), icon, i)}
    <2>1. was \in Seq(Icons)
      BY AfterType
    <2>2. 0 \in S
      <3>1. Ends(b, 0) = was
        BY <1>3
      <3> HIDE DEF was
      <3>2. Changed(kind, was, was, icon, 0)
        BY <2>1 DEF Changed
      <3> QED BY <3>1, <3>2
    <2> HIDE DEF was
    <2>3. ASSUME NEW i \in Nat, i \in S
          PROVE  i + 1 \in S
      <3>1. Changed(kind, was, AppResponse(Ends(b, i), m, b), icon, i + 1)
        BY <1>2, <2>1, <2>3, ChangedOnceMore
      <3> QED BY <1>3, <3>1
    <2> HIDE DEF S
    <2> QED BY <2>2, <2>3, Induction DEF S, was
  <1> QED BY <1>4, <1>5 DEF Ends

-----------------------------------------------------------------------------
(* The invariant. An application that was added under two subscriptions has   *)
(* two entries, and each removal takes one: that no entry is left behind      *)
(* needs that there are never more entries than subscriptions to tell of the  *)
(* removal.                                                                   *)

Current(entries, a) == Shows(entries, a) /\ Len(entries) <= subscriptions

CaughtUp == managerUp /\ subscriptions > 0 => \A a \in Apps : Current(EntriesAfter(a), a)

OnlyToManager == ~managerUp => subscriptions = 0

\* The daemon has asked, once it was told of the manager that is there.
Asked ==
    managerUp /\ registered /\ ~askFailed /\ statusMsgs = <<>> => listCalls + subscriptions > 0

MirrorInv == BusInv /\ CaughtUp /\ OnlyToManager /\ Asked

LEMMA MirrorTypes ==
    BusInv => /\ applist \in [Apps -> Seq(Icons)] /\ appMsgs \in Seq(AppMsgs)
              /\ installed \in Lists
              /\ listCalls \in Nat /\ subscriptions \in Nat
              /\ managerUp \in BOOLEAN /\ askFailed \in BOOLEAN
              /\ \A a \in Apps : EntriesAfter(a) \in Seq(Icons)
  BY AfterType DEF BusInv, Types, Numbers, DaemonTypes, BusTypes, ManagerTypes, EntriesAfter

\* A step that keeps subscribed to whom it was, and keeps what the replies on
\* their way will do.
LEMMA CaughtUpKept ==
    ASSUME CaughtUp, UNCHANGED <<installed, managerUp, subscriptions>>,
           \A a \in Apps : EntriesAfter(a)' = EntriesAfter(a)
    PROVE  CaughtUp'
  BY DEF CaughtUp, Current, Shows

LEMMA CaughtUpReply == BusInv /\ CaughtUp /\ AppMgrAppList => CaughtUp'
  <1> SUFFICES ASSUME BusInv, CaughtUp, AppMgrAppList PROVE CaughtUp'
    OBVIOUS
  <1>1. ASSUME NEW a \in Apps
        PROVE  EntriesAfter(a)' = EntriesAfter(a)
    <2>1. /\ appMsgs \in Seq(AppMsgs) /\ appMsgs # <<>> /\ appMsgs' = Tail(appMsgs)
          /\ applist'[a] = AppResponse(applist[a], Head(appMsgs), a)
      BY MirrorTypes DEF AppMgrAppList
    <2>2. EntriesAfter(a)' = After(applist'[a], appMsgs', a)
      BY DEF EntriesAfter
    <2> QED BY <2>1, <2>2, AfterFirst DEF EntriesAfter
  <1> QED BY <1>1, CaughtUpKept DEF AppMgrAppList, managerVars

LEMMA CaughtUpAnswer == BusInv /\ AnswerListApps => CaughtUp'
  <1> SUFFICES ASSUME BusInv, AnswerListApps, NEW a \in Apps
               PROVE  Current(EntriesAfter(a), a)'
    BY DEF CaughtUp
  <1> DEFINE m == [change |-> "apps", apps |-> installed]
  <1>1. m \in AppMsgs /\ m.change = "apps" /\ m.apps = installed
    BY MirrorTypes DEF AppMsgs, Kinds
  <1>2. /\ appMsgs' = Append(appMsgs, m) /\ applist' = applist /\ installed' = installed
        /\ subscriptions' = subscriptions + 1
    BY DEF AnswerListApps, daemonVars
  <1> HIDE DEF m
  <1>3. EntriesAfter(a)' = AppResponse(EntriesAfter(a), m, a)
    BY <1>1, <1>2, MirrorTypes, AfterAppend DEF EntriesAfter
  <1>4. EntriesAfter(a)' = IF a \in DOMAIN installed THEN <<installed[a]>> ELSE <<>>
    BY <1>1, <1>3 DEF AppResponse
  <1>5. subscriptions \in Nat
    BY MirrorTypes
  <1>6. CASE a \in DOMAIN installed
    <2>1. EntriesAfter(a)' = <<installed[a]>>
      BY <1>4, <1>6
    <2>2. /\ Len(<<installed[a]>>) = 1 /\ Head(<<installed[a]>>) = installed[a]
          /\ <<installed[a]>> # <<>>
      OBVIOUS
    <2>3. Len(EntriesAfter(a)') <= subscriptions'
      BY <1>2, <1>5, <2>1, <2>2
    <2>4. Shows(EntriesAfter(a), a)'
      BY <1>2, <1>6, <2>1, <2>2 DEF Shows, GetIcon
    <2> QED BY <2>3, <2>4 DEF Current
  <1>7. CASE a \notin DOMAIN installed
    <2>1. EntriesAfter(a)' = <<>>
      BY <1>4, <1>7
    <2>2. Len(EntriesAfter(a)') <= subscriptions'
      BY <1>2, <1>5, <2>1
    <2>3. Shows(EntriesAfter(a), a)'
      BY <1>2, <1>7, <2>1 DEF Shows
    <2> QED BY <2>2, <2>3 DEF Current
  <1> QED BY <1>6, <1>7

LEMMA CaughtUpChange ==
    ASSUME BusInv, CaughtUp, NEW kind \in {"added", "updated", "removed"}, NEW b \in Apps,
           NEW icon \in Icons, ChangeApp(kind, b, icon)
    PROVE  CaughtUp'
  <1> SUFFICES ASSUME managerUp', subscriptions' > 0, NEW a \in Apps
               PROVE  Current(EntriesAfter(a), a)'
    BY DEF CaughtUp
  <1> DEFINE k == subscriptions
             was == EntriesAfter(a)
             are == EntriesAfter(a)'
  <1>1. /\ managerUp' = managerUp /\ subscriptions' = subscriptions /\ applist' = applist
        /\ appMsgs' = appMsgs \o Copies(Change(kind, b, icon), subscriptions)
        /\ (b \in DOMAIN installed) = (kind # "added")
        /\ installed' = IF kind = "removed"
                        THEN [x \in DOMAIN installed \ {b} |-> installed[x]]
                        ELSE [x \in DOMAIN installed \cup {b} |->
                                 IF x = b THEN icon ELSE installed[x]]
    BY DEF ChangeApp, daemonVars, Copies, Change
  <1>2. k \in Nat /\ k > 0 /\ Len(was) <= k /\ Shows(was, a) /\ was \in Seq(Icons)
    BY <1>1, MirrorTypes DEF CaughtUp, Current
  <1>3. are = After(applist[a], appMsgs \o Copies(Change(kind, b, icon), k), a)
    BY <1>1 DEF EntriesAfter
  <1>4. /\ a # b => are = was
        /\ a = b => Changed(kind, was, are, icon, k)
    BY <1>2, <1>3, MirrorTypes, AfterChange DEF EntriesAfter
  <1>5. are \in Seq(Icons)
    <2> DEFINE told == Copies(Change(kind, b, icon), k)
    <2>1. told \in Seq(AppMsgs)
      BY <1>2, ChangeType
    <2> HIDE DEF told
    <2>2. appMsgs \o told \in Seq(AppMsgs)
      BY <2>1, MirrorTypes
    <2> QED BY <1>3, <2>2, MirrorTypes, AfterType DEF told
  <1> HIDE DEF was, are, k
  <1>6. CASE a # b
    <2>1. (a \in DOMAIN installed' <=> a \in DOMAIN installed)
          /\ (a \in DOMAIN installed => installed'[a] = installed[a])
      BY <1>1, <1>6
    <2>2. Len(are) <= k
      BY <1>2, <1>4, <1>6
    <2>3. IF a \in DOMAIN installed' THEN are # <<>> /\ Head(are) = installed'[a] ELSE are = <<>>
      BY <1>2, <1>4, <1>6, <2>1 DEF Shows, GetIcon
    <2> QED BY <1>1, <2>2, <2>3 DEF Current, Shows, GetIcon, are, k
  <1>7. CASE a = b
    <2>1. CASE kind = "added"
      <3>1. a \in DOMAIN installed' /\ installed'[a] = icon /\ was = <<>>
        BY <1>1, <1>2, <1>7, <2>1 DEF Shows
      <3>2. Len(are) = k /\ Head(are) = icon
        BY <1>2, <1>4, <1>7, <2>1, <3>1 DEF Changed
      <3>3. are # <<>>
        BY <1>2, <3>2
      <3> QED BY <1>1, <1>2, <3>1, <3>2, <3>3 DEF Current, Shows, GetIcon, are, k
    <2>2. CASE kind = "updated"
      <3>1. a \in DOMAIN installed' /\ installed'[a] = icon /\ was # <<>>
        BY <1>1, <1>2, <1>7, <2>2 DEF Shows
      <3>2. Len(are) = Len(was) /\ Head(are) = icon
        BY <1>2, <1>4, <1>7, <2>2, <3>1 DEF Changed
      <3>3. are # <<>> /\ Len(are) <= k
        BY <1>2, <3>1, <3>2
      <3> QED BY <1>1, <3>1, <3>2, <3>3 DEF Current, Shows, GetIcon, are, k
    <2>3. CASE kind = "removed"
      <3>1. a \notin DOMAIN installed'
        BY <1>1, <1>7, <2>3
      <3>2. are = <<>> \/ Len(are) + k <= Len(was)
        BY <1>4, <1>7, <2>3 DEF Changed
      <3>3. are = <<>>
        <4>1. Len(are) \in Nat /\ Len(was) \in Nat /\ (Len(are) = 0 => are = <<>>)
          BY <1>2, <1>5
        <4> QED BY <1>2, <3>2, <4>1
      <3>4. Len(are) <= k
        BY <1>2, <3>3
      <3> QED BY <1>1, <3>1, <3>3, <3>4 DEF Current, Shows, are, k
    <2> QED BY <2>1, <2>2, <2>3
  <1> QED BY <1>6, <1>7

LEMMA LastOfSequence ==
    ASSUME NEW S, NEW s \in Seq(S)
    PROVE  /\ s # <<>> /\ Tail(s) = <<>> => Len(s) = 1 /\ Head(s) = s[1]
           /\ \A x \in S : Append(s, x) # <<>>
  <1>1. s # <<>> => Len(s) # 0 /\ Len(Tail(s)) = Len(s) - 1 /\ Head(s) = s[1]
    OBVIOUS
  <1>2. \A x \in S : Len(Append(s, x)) = Len(s) + 1
    OBVIOUS
  <1>3. Len(s) \in Nat /\ Len(<<>>) = 0
    OBVIOUS
  <1>4. Tail(s) = <<>> => Len(Tail(s)) = 0
    BY <1>3
  <1>5. \A x \in S : Append(s, x) = <<>> => Len(Append(s, x)) = 0
    BY <1>3
  <1> QED BY <1>1, <1>2, <1>3, <1>4, <1>5

\* Each message that says the manager is there is followed by a call or by a
\* call that failed, and the last one that waits is true.
LEMMA AskedStatus == BusInv /\ OnlyToManager /\ AppMgrBusStatusNotification => Asked'
  <1> SUFFICES ASSUME BusInv, OnlyToManager, AppMgrBusStatusNotification,
                      managerUp', registered', ~askFailed', statusMsgs' = <<>>
               PROVE  listCalls' + subscriptions' > 0
    BY DEF Asked
  <1>1. /\ statusMsgs \in Seq(BOOLEAN) /\ statusMsgs # <<>> /\ statusMsgs' = Tail(statusMsgs)
        /\ UNCHANGED <<managerUp, subscriptions>>
    BY DEF AppMgrBusStatusNotification, managerVars, BusInv, Types, BusTypes
  <1>2. Len(statusMsgs) = 1 /\ Head(statusMsgs) = statusMsgs[1]
    BY <1>1, LastOfSequence
  <1>3. Head(statusMsgs) = managerUp
    <2>1. 1 \in 1 .. Len(statusMsgs) /\ Even(Len(statusMsgs) - 1)
      BY <1>2 DEF Even
    <2> QED BY <1>2, <2>1 DEF BusInv, LastIsTrue
  <1>4. listCalls' = listCalls + 1
    BY <1>1, <1>3 DEF AppMgrBusStatusNotification, ListApps
  <1> QED BY <1>1, <1>4, MirrorTypes

LEMMA MirrorInit == InitAppList => MirrorInv
  <1> SUFFICES ASSUME InitAppList PROVE MirrorInv
    OBVIOUS
  <1>1. (registered => statusMsgs # <<>>) /\ subscriptions = 0
    BY DEF InitAppList, FirstStatus
  <1>2. CaughtUp /\ OnlyToManager /\ Asked
    BY <1>1 DEF CaughtUp, OnlyToManager, Asked
  <1> QED BY <1>2, BusInvInit DEF MirrorInv

LEMMA MirrorNext == MirrorInv /\ [AppListNext]_appListVars => MirrorInv'
  <1> SUFFICES ASSUME MirrorInv, [AppListNext]_appListVars,
                      BusInv, CaughtUp, OnlyToManager, Asked, BusInv'
               PROVE  CaughtUp' /\ OnlyToManager' /\ Asked'
    BY BusInvNext DEF MirrorInv
  <1>1. CASE AppMgrBusStatusNotification
    <2>1. UNCHANGED <<applist, appMsgs, installed, managerUp, subscriptions>>
      BY <1>1 DEF AppMgrBusStatusNotification, managerVars
    <2>2. CaughtUp'
      BY <2>1, CaughtUpKept DEF EntriesAfter
    <2> QED BY <1>1, <2>1, <2>2, AskedStatus DEF OnlyToManager
  <1>2. CASE AppMgrAppList
    <2>1. UNCHANGED <<registered, askFailed, statusMsgs, listCalls, managerUp, subscriptions>>
      BY <1>2 DEF AppMgrAppList, managerVars
    <2> QED BY <1>2, <2>1, CaughtUpReply DEF OnlyToManager, Asked
  <1>3. CASE RestartAppList
    <2>1. subscriptions' = 0 /\ (registered' => statusMsgs' # <<>>)
      BY <1>3 DEF RestartAppList, FirstStatus
    <2> QED BY <2>1 DEF CaughtUp, OnlyToManager, Asked
  <1>4. CASE AnswerListApps
    <2>1. UNCHANGED <<registered, askFailed, statusMsgs, managerUp>> /\ managerUp
      BY <1>4 DEF AnswerListApps, daemonVars
    <2>2. subscriptions' = subscriptions + 1 /\ listCalls' \in Nat /\ subscriptions \in Nat
      BY <1>4, MirrorTypes DEF AnswerListApps, BusInv, Types, Numbers
    <2>3. listCalls' + subscriptions' > 0
      <3>1. \A c, d \in Nat : c + (d + 1) > 0
        OBVIOUS
      <3> QED BY <2>2, <3>1
    <2> QED BY <1>4, <2>1, <2>3, CaughtUpAnswer DEF OnlyToManager, Asked
  <1>5. CASE RefuseListApps
    <2>1. ~managerUp' /\ UNCHANGED <<managerUp, subscriptions>>
      BY <1>5 DEF RefuseListApps, managerVars
    <2> QED BY <2>1 DEF CaughtUp, OnlyToManager, Asked
  <1>6. ASSUME NEW kind \in {"added", "updated", "removed"}, NEW a \in Apps, NEW icon \in Icons,
               ChangeApp(kind, a, icon)
        PROVE  CaughtUp' /\ OnlyToManager' /\ Asked'
    <2>1. UNCHANGED <<registered, askFailed, statusMsgs, listCalls, managerUp, subscriptions>>
      BY <1>6 DEF ChangeApp, daemonVars
    <2> QED BY <1>6, <2>1, CaughtUpChange DEF OnlyToManager, Asked
  <1>7. CASE StopManager
    <2>1. ~managerUp' /\ subscriptions' = 0
      BY <1>7 DEF StopManager
    <2> QED BY <2>1 DEF CaughtUp, OnlyToManager, Asked
  <1>8. CASE StartManager
    <2>1. /\ ~managerUp /\ subscriptions' = subscriptions /\ registered' = registered
          /\ registered => statusMsgs' = Append(statusMsgs, TRUE)
      BY <1>8 DEF StartManager, ToldOf, daemonVars
    <2>2. registered' => statusMsgs' # <<>>
      BY <2>1, LastOfSequence DEF BusInv, Types, BusTypes
    <2>3. subscriptions' = 0
      BY <2>1 DEF OnlyToManager
    <2> QED BY <2>2, <2>3 DEF CaughtUp, OnlyToManager, Asked
  <1>9. CASE UNCHANGED appListVars
    <2>1. UNCHANGED <<applist, registered, askFailed, statusMsgs, appMsgs, listCalls, installed,
                      managerUp, subscriptions>>
      BY <1>9 DEF appListVars, daemonVars, busVars, managerVars
    <2> QED BY <2>1, CaughtUpKept DEF EntriesAfter, OnlyToManager, Asked
  <1> QED BY <1>1, <1>2, <1>3, <1>4, <1>5, <1>6, <1>7, <1>8, <1>9 DEF AppListNext, Manager

\* What the invariant is for.
LEMMA MirrorInvSuffices == MirrorInv => AppListTypeOK /\ MirrorCatchesUp /\ MirrorAtRest
  <1> SUFFICES ASSUME MirrorInv PROVE MirrorCatchesUp /\ MirrorAtRest
    BY BusInvSuffices DEF MirrorInv
  <1>1. MirrorCatchesUp
    BY DEF MirrorInv, CaughtUp, Current, MirrorCatchesUp
  <1>2. MirrorAtRest
    <2> SUFFICES ASSUME managerUp, registered, ~askFailed, statusMsgs = <<>>, appMsgs = <<>>,
                        listCalls = 0, NEW a \in Apps
                 PROVE  Shows(applist[a], a)
      BY DEF MirrorAtRest, Mirrored
    <2>1. listCalls + subscriptions > 0
      BY DEF MirrorInv, Asked
    <2>2. subscriptions > 0
      BY <2>1, MirrorTypes DEF MirrorInv
    <2>3. EntriesAfter(a) = applist[a]
      BY AfterNone DEF EntriesAfter
    <2> QED BY <1>1, <2>2, <2>3 DEF MirrorCatchesUp
  <1> QED BY <1>1, <1>2

-----------------------------------------------------------------------------
(* Theorems.                                                                  *)

LEMMA MirrorInvariance ==
    InitAppList /\ [][AppListNext]_appListVars => []MirrorInv
  BY MirrorInit, MirrorNext, PTL

\* However the first reply, the changes, a second subscription and what an
\* earlier manager left interleave, the replies on their way make the mirror
\* the manager's list (cbAppMgrAppList, handleAppResponse).
THEOREM MirrorHolds == AppListSpec => []MirrorCatchesUp
  BY MirrorInvariance, MirrorInvSuffices, PTL DEF AppListSpec

\* With nothing under way the mirror is the manager's list, however often the
\* manager and the daemon restarted (cbAppMgrBusStatusNotification).
THEOREM MirrorRests == AppListSpec => []MirrorAtRest
  BY MirrorInvariance, MirrorInvSuffices, PTL DEF AppListSpec
=============================================================================
