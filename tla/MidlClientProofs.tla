--------------------------- MODULE MidlClientProofs ---------------------------
(***************************************************************************)
(* The router of the generated client, for any number of callers,          *)
(* subscriptions and drainers: types, one task at a time fetches, no       *)
(* caller fetches past its own reply, and no message is lost or doubled;   *)
(* and for one subscription, that its events are returned in order.        *)
(***************************************************************************)
EXTENDS MidlClient, SequenceTheorems, TLAPS

Types ==
    /\ fetchLock \in Seq(Tasks)
    /\ at \in [Tasks -> Points]
    /\ request \in [Callers -> Nat] /\ nextId \in Nat

(* Whoever fetches or sorts has the fetch lock, so there is one. *)
FetcherHoldsLock == \A t \in Tasks : at[t] \in {"fetching", "sorting"} => Holds(t)

RouterInv == Types /\ FetcherHoldsLock /\ NobodyFetchesPastItsReply

(* The fetch lock is a queue: who asks comes last, who releases is first,  *)
(* who gives up leaves the others in their order.                          *)
LEMMA AskKeepsHead ==
    ASSUME fetchLock \in Seq(Tasks), NEW t \in Tasks, fetchLock' = Append(fetchLock, t)
    PROVE  /\ fetchLock' \in Seq(Tasks)
           /\ \A u \in Tasks : Holds(u) => Holds(u)'
<1>1. fetchLock' \in Seq(Tasks)
  BY AppendProperties
<1>2. ASSUME fetchLock # <<>>
      PROVE  fetchLock' # <<>> /\ Head(fetchLock') = Head(fetchLock)
  BY <1>2, AppendProperties, EmptySeq
<1>3. QED
  BY <1>1, <1>2 DEF Holds

LEMMA ReleaseIsTyped ==
    ASSUME fetchLock \in Seq(Tasks), fetchLock # <<>>, Release
    PROVE  fetchLock' \in Seq(Tasks)
  BY HeadTailProperties DEF Release

LEMMA HeadOfConcat ==
    ASSUME NEW S, NEW s \in Seq(S), NEW r \in Seq(S), s # <<>>
    PROVE  s \o r # <<>> /\ Head(s \o r) = Head(s)
<1>1. Len(s) \in Nat \ {0} /\ s \o r \in Seq(S) /\ Len(r) \in Nat
  BY EmptySeq, LenProperties, ConcatProperties
<1>2. Len(s \o r) = Len(s) + Len(r) /\ (s \o r)[1] = s[1]
  BY <1>1, ConcatProperties
<1>3. QED
  BY <1>1, <1>2

LEMMA GiveUpKeepsOthers ==
    ASSUME fetchLock \in Seq(Tasks), NEW t \in Tasks, GiveUp(t)
    PROVE  /\ fetchLock' \in Seq(Tasks)
           /\ \A u \in Tasks \ {t} : Holds(u) => Holds(u)'
<1>1. CASE UNCHANGED fetchLock
  BY <1>1 DEF Holds
<1>2. CASE \E i \in DOMAIN fetchLock :
              fetchLock[i] = t /\ fetchLock' = RemoveAt(fetchLock, i)
  <2>1. PICK i \in 1 .. Len(fetchLock) :
              fetchLock[i] = t /\ fetchLock' = RemoveAt(fetchLock, i)
    BY <1>2
  <2>2. /\ i \in Nat /\ 1 <= i /\ i <= Len(fetchLock) /\ Len(fetchLock) \in Nat
        /\ fetchLock' = SubSeq(fetchLock, 1, i - 1) \o SubSeq(fetchLock, i + 1, Len(fetchLock))
    BY <2>1 DEF RemoveAt
  <2>3. /\ SubSeq(fetchLock, 1, i - 1) \in Seq(Tasks)
        /\ SubSeq(fetchLock, i + 1, Len(fetchLock)) \in Seq(Tasks)
        /\ Len(SubSeq(fetchLock, 1, i - 1)) = i - 1
    BY <2>2
  <2>4. fetchLock' \in Seq(Tasks)
    BY <2>2, <2>3, ConcatProperties
  <2>5. ASSUME i # 1
        PROVE  fetchLock' # <<>> /\ Head(fetchLock') = Head(fetchLock)
    <3>1. /\ SubSeq(fetchLock, 1, i - 1) # <<>>
          /\ Head(SubSeq(fetchLock, 1, i - 1)) = fetchLock[1]
      BY <2>2, <2>3, <2>5
    <3>2. Head(fetchLock') = Head(SubSeq(fetchLock, 1, i - 1)) /\ fetchLock' # <<>>
      BY <2>2, <2>3, <3>1, HeadOfConcat
    <3>3. Head(fetchLock) = fetchLock[1]
      OBVIOUS
    <3>4. QED
      BY <3>1, <3>2, <3>3, Zenon
  <2>6. i = 1 => Head(fetchLock) = t
    BY <2>1
  <2>7. QED
    BY <2>4, <2>5, <2>6 DEF Holds
<1>3. QED
  BY <1>1, <1>2 DEF GiveUp

-----------------------------------------------------------------------------
LEMMA OnlyTheHolderFetches ==
    ASSUME RouterInv, NEW t \in Tasks, Holds(t), NEW u \in Tasks, u # t
    PROVE  at[u] \notin {"fetching", "sorting"}
  BY DEF RouterInv, FetcherHoldsLock, Holds

(* A step of t after which t has the lock, or is at a point where it needs *)
(* none, and after which the others have what they had.                    *)
LEMMA StepKeepsRouter ==
    ASSUME RouterInv, NEW t \in Tasks,
           fetchLock' \in Seq(Tasks),
           at' \in [Tasks -> Points], \A u \in Tasks \ {t} : at'[u] = at[u],
           \/ \A u \in Tasks \ {t} : Holds(u) => Holds(u)'
           \/ Holds(t),
           at'[t] \in {"fetching", "sorting"} => Holds(t)',
           request' = request, nextId' = nextId,
           replies' \subseteq replies \/ Holds(t),
           t \in Callers /\ at'[t] \in {"fetching", "sorting"} =>
               Awaited(t) \notin replies'
    PROVE  RouterInv'
<1>1. Types'
  BY DEF RouterInv, Types
<1>2. FetcherHoldsLock'
  BY OnlyTheHolderFetches DEF RouterInv, FetcherHoldsLock
<1>3. NobodyFetchesPastItsReply'
  <2>1. ASSUME NEW c \in Callers, at'[c] \in {"fetching", "sorting"}
        PROVE  Awaited(c)' \notin replies'
    <3>1. Awaited(c)' = Awaited(c) /\ c \in Tasks
      BY DEF Awaited, Tasks
    <3>2. CASE c = t
      BY <2>1, <3>1, <3>2
    <3>3. CASE c # t
      <4>1. at[c] \in {"fetching", "sorting"}
        BY <2>1, <3>1, <3>3
      <4>2. ~Holds(t) /\ Awaited(c) \notin replies
        BY <3>1, <3>3, <4>1, OnlyTheHolderFetches DEF RouterInv, NobodyFetchesPastItsReply
      <4>3. QED
        BY <3>1, <4>2
    <3>4. QED
      BY <3>2, <3>3
  <2>2. QED
    BY <2>1 DEF NobodyFetchesPastItsReply
<1>4. QED
  BY <1>1, <1>2, <1>3 DEF RouterInv

LEMMA GotoIsTyped ==
    ASSUME RouterInv, NEW t \in Tasks, NEW p \in Points, Goto(t, p)
    PROVE  /\ at' \in [Tasks -> Points] /\ at'[t] = p
           /\ \A u \in Tasks \ {t} : at'[u] = at[u]
  BY DEF RouterInv, Types, Goto

LEMMA LockIsTyped == RouterInv => fetchLock \in Seq(Tasks)
  BY DEF RouterInv, Types

LEMMA CallKeepsRouter == ASSUME RouterInv, NEW c \in Callers, Call(c) PROVE RouterInv'
<1>1. c \in Tasks /\ UNCHANGED <<fetchLock, replies>> /\ Goto(c, "looking")
  BY DEF Call, Tasks, router
<1>2. /\ at' \in [Tasks -> Points] /\ at'[c] = "looking"
      /\ \A u \in Tasks \ {c} : at'[u] = at[u]
  BY <1>1, GotoIsTyped DEF Points
<1>3. /\ request' \in [Callers -> Nat] /\ nextId' \in Nat
      /\ \A d \in Callers \ {c} : request'[d] = request[d]
  BY DEF Call, RouterInv, Types
<1>4. Types'
  BY <1>1, <1>2, <1>3 DEF RouterInv, Types
<1>5. FetcherHoldsLock'
  BY <1>1, <1>2 DEF RouterInv, FetcherHoldsLock, Holds
<1>6. NobodyFetchesPastItsReply'
  BY <1>1, <1>2, <1>3 DEF RouterInv, NobodyFetchesPastItsReply, Awaited, Tasks
<1>7. QED
  BY <1>4, <1>5, <1>6 DEF RouterInv

(* Asking for the lock, taking the place in the queue *)
LEMMA AskKeepsRouter ==
    ASSUME RouterInv, NEW t \in Tasks, AskForLock(t),
           UNCHANGED <<replies, request, nextId>>
    PROVE  RouterInv'
<1>1. /\ fetchLock' \in Seq(Tasks)
      /\ \A u \in Tasks : Holds(u) => Holds(u)'
  BY AskKeepsHead, LockIsTyped DEF AskForLock
<1>2. /\ at' \in [Tasks -> Points] /\ at'[t] = "locking"
      /\ \A u \in Tasks \ {t} : at'[u] = at[u]
  BY GotoIsTyped DEF AskForLock, Points
<1>3. QED
  BY <1>1, <1>2, StepKeepsRouter

Away == {"idle", "scanning", "taking", "locking", "deciding"}
GoesAway(t) == \E p \in Away : Goto(t, p)

(* A step to a point where nothing is fetched; the lock is kept or, by its *)
(* holder, released, and only the holder adds to the cached replies.       *)
LEMMA LeaveKeepsRouter ==
    ASSUME RouterInv, NEW t \in Tasks, GoesAway(t),
           fetchLock' = fetchLock \/ (Holds(t) /\ Release),
           replies' \subseteq replies \/ Holds(t),
           request' = request, nextId' = nextId
    PROVE  RouterInv'
<1>1. /\ at' \in [Tasks -> Points] /\ at'[t] \in Away
      /\ \A u \in Tasks \ {t} : at'[u] = at[u]
  <2>1. PICK p \in Away : Goto(t, p)
    BY DEF GoesAway
  <2>2. p \in Points
    BY DEF Away, Points
  <2>3. QED
    BY <2>1, <2>2, GotoIsTyped
<1>2. /\ fetchLock' \in Seq(Tasks)
      /\ Holds(t) \/ \A u \in Tasks \ {t} : Holds(u) => Holds(u)'
  <2>1. CASE UNCHANGED fetchLock
    BY <2>1, LockIsTyped DEF Holds
  <2>2. CASE Holds(t) /\ Release
    BY <2>2, LockIsTyped, ReleaseIsTyped DEF Holds
  <2>3. QED
    BY <2>1, <2>2
<1>3. QED
  BY <1>1, <1>2, StepKeepsRouter DEF Away

(* The two steps into the fetch and out of it *)
LEMMA EnterKeepsRouter ==
    ASSUME RouterInv, NEW t \in Tasks, Holds(t),
           NEW p \in {"fetching", "sorting"}, Goto(t, p),
           UNCHANGED <<fetchLock, replies, request, nextId>>,
           t \in Callers => Awaited(t) \notin replies
    PROVE  RouterInv'
<1>1. /\ at' \in [Tasks -> Points] /\ at'[t] = p
      /\ \A u \in Tasks \ {t} : at'[u] = at[u]
  BY GotoIsTyped DEF Points
<1>2. Holds(t)' /\ \A u \in Tasks : Holds(u) => Holds(u)'
  BY DEF Holds
<1>3. QED
  BY <1>1, <1>2, LockIsTyped, StepKeepsRouter

LEMMA FetchKeepsRouter == ASSUME RouterInv, NEW t \in Tasks, Fetch(t) PROVE RouterInv'
<1>1. Holds(t) /\ (t \in Callers => Awaited(t) \notin replies)
  BY DEF Fetch, RouterInv, FetcherHoldsLock, NobodyFetchesPastItsReply
<1>2. QED
  BY <1>1, EnterKeepsRouter DEF Fetch

LEMMA CallerKeepsRouter ==
    ASSUME RouterInv, NEW c \in Callers, CallerStep(c)
    PROVE  RouterInv'
<1>1. c \in Tasks
  BY DEF Tasks
<1>2. CASE LookForReply(c)
  <2>1. CASE TakeReply(c) /\ UNCHANGED fetchLock
    <3>1. GoesAway(c) /\ replies' \subseteq replies
      BY <2>1 DEF TakeReply, Return, GoesAway, Away
    <3>2. QED
      BY <1>1, <1>2, <2>1, <3>1, LeaveKeepsRouter DEF LookForReply
  <2>2. CASE AskForLock(c) /\ UNCHANGED replies
    BY <1>1, <1>2, <2>2, AskKeepsRouter DEF LookForReply
  <2>3. QED
    BY <1>2, <2>1, <2>2 DEF LookForReply
<1>3. CASE LookAgain(c)
  <2>1. CASE TakeReply(c) /\ Release
    <3>1. GoesAway(c) /\ replies' \subseteq replies
      BY <2>1 DEF TakeReply, Return, GoesAway, Away
    <3>2. QED
      BY <1>1, <1>3, <2>1, <3>1, LeaveKeepsRouter DEF LookAgain
  <2>2. CASE /\ Awaited(c) \notin replies /\ Goto(c, "fetching")
             /\ UNCHANGED <<replies, fetchLock>>
    BY <1>1, <1>3, <2>2, EnterKeepsRouter DEF LookAgain
  <2>3. QED
    BY <1>3, <2>1, <2>2 DEF LookAgain
<1>4. CASE Fetch(c)
  BY <1>1, <1>4, FetchKeepsRouter
<1>5. CASE SortForCall(c)
  <2>1. Holds(c) /\ UNCHANGED <<request, nextId>>
    BY <1>1, <1>5 DEF SortForCall, RouterInv, FetcherHoldsLock
  <2>2. GoesAway(c) /\ (Release \/ UNCHANGED fetchLock)
    BY <1>5 DEF SortForCall, Return, GoesAway, Away
  <2>3. QED
    BY <1>1, <2>1, <2>2, LeaveKeepsRouter
<1>6. QED
  BY <1>2, <1>3, <1>4, <1>5 DEF CallerStep

(* super_next_message ends for t: it goes on where it needs no lock. *)
LEMMA GotLeaves ==
    ASSUME NEW t, NEW m, Got(t, m)
    PROVE  GoesAway(t)
  BY DEF Got, Return, GoesAway, Away

LEMMA LookForMessageKeepsRouter ==
    ASSUME RouterInv, NEW t \in Tasks, LookForMessage(t)
    PROVE  RouterInv'
<1>1. UNCHANGED <<replies, request, nextId>>
  BY DEF LookForMessage
<1>2. CASE TakeMessage(t) /\ UNCHANGED fetchLock
  BY <1>1, <1>2, GotLeaves, LeaveKeepsRouter DEF TakeMessage
<1>3. CASE AskForLock(t)
  BY <1>1, <1>3, AskKeepsRouter
<1>4. QED
  BY <1>2, <1>3 DEF LookForMessage

LEMMA MessageKeepsRouter ==
    ASSUME RouterInv, NEW t \in Tasks \ Callers, MessageStep(t)
    PROVE  RouterInv'
<1>1. CASE LookForMessageAgain(t)
  <2>1. Holds(t) /\ UNCHANGED <<replies, request, nextId>>
    BY <1>1 DEF LookForMessageAgain
  <2>2. CASE TakeMessage(t) /\ Release
    BY <2>1, <2>2, GotLeaves, LeaveKeepsRouter DEF TakeMessage
  <2>3. CASE Goto(t, "fetching") /\ UNCHANGED fetchLock
    BY <2>1, <2>3, EnterKeepsRouter
  <2>4. QED
    BY <1>1, <2>2, <2>3 DEF LookForMessageAgain
<1>2. CASE Fetch(t)
  BY <1>2, FetchKeepsRouter
<1>3. CASE SortForMessage(t)
  <2>1. Holds(t) /\ UNCHANGED <<request, nextId>>
    BY <1>3 DEF SortForMessage, RouterInv, FetcherHoldsLock
  <2>2. CASE Goto(t, "locking") /\ UNCHANGED fetchLock
    BY <2>1, <2>2, LeaveKeepsRouter DEF GoesAway, Away
  <2>3. CASE Got(t, hand[t]) /\ Release
    BY <2>1, <2>3, GotLeaves, LeaveKeepsRouter
  <2>4. QED
    BY <1>3, <2>2, <2>3 DEF SortForMessage
<1>4. QED
  BY <1>1, <1>2, <1>3 DEF MessageStep

LEMMA ScanKeepsRouter ==
    ASSUME RouterInv, NEW w \in Watchers, Scan(w) \/ Decide(w)
    PROVE  RouterInv'
<1>1. w \in Tasks /\ UNCHANGED <<fetchLock, replies, request, nextId>>
  BY DEF Scan, Decide, Tasks
<1>2. GoesAway(w)
  BY DEF Scan, Decide, Return, GoesAway, Away
<1>3. QED
  BY <1>1, <1>2, LeaveKeepsRouter

LEMMA AbandonKeepsRouter == ASSUME RouterInv, NEW t \in Tasks, Abandon(t) PROVE RouterInv'
<1>1. /\ fetchLock' \in Seq(Tasks)
      /\ \A u \in Tasks \ {t} : Holds(u) => Holds(u)'
  BY GiveUpKeepsOthers, LockIsTyped DEF Abandon
<1>2. /\ at' \in [Tasks -> Points] /\ at'[t] = "idle"
      /\ \A u \in Tasks \ {t} : at'[u] = at[u]
  BY GotoIsTyped DEF Abandon, Points
<1>3. UNCHANGED <<replies, request, nextId>>
  BY DEF Abandon
<1>4. QED
  BY <1>1, <1>2, <1>3, StepKeepsRouter

LEMMA StepRouter == RouterInv /\ [Next]_vars => RouterInv'
<1> SUFFICES ASSUME RouterInv, [Next]_vars PROVE RouterInv'
  OBVIOUS
<1>1. CASE UNCHANGED <<fetchLock, replies, at, request, nextId>>
  BY <1>1 DEF RouterInv, Types, FetcherHoldsLock, Holds, NobodyFetchesPastItsReply, Awaited
<1>2. Answer \/ Publish \/ Announce => UNCHANGED <<fetchLock, replies, at, request, nextId>>
  BY DEF Answer, Publish, Announce, Arrive
<1>3. UNCHANGED vars => UNCHANGED <<fetchLock, replies, at, request, nextId>>
  BY DEF vars, router
<1>4. /\ Callers \subseteq Tasks
      /\ Watchers \subseteq Tasks \ Callers /\ Drainers \subseteq Tasks \ Callers
  BY DistinctTasks DEF Tasks
<1>5. CASE \E c \in Callers : Call(c) \/ CallerStep(c)
  BY <1>5, CallKeepsRouter, CallerKeepsRouter
<1>6. CASE \E w \in Watchers : NextEvent(w) \/ WatcherStep(w)
  BY <1>4, <1>6, ScanKeepsRouter, LookForMessageKeepsRouter, MessageKeepsRouter
     DEF NextEvent, WatcherStep, ScanAgain, SuperNextMessage
<1>7. CASE \E d \in Drainers : NextMessage(d) \/ MessageStep(d)
  BY <1>4, <1>7, LookForMessageKeepsRouter, MessageKeepsRouter DEF NextMessage
<1>8. CASE \E t \in Tasks : Abandon(t)
  BY <1>8, AbandonKeepsRouter
<1>9. QED
  BY <1>1, <1>2, <1>3, <1>5, <1>6, <1>7, <1>8 DEF Next

(* However many tasks share the client, and whoever of them gives up where *)
(* it waits: the fetch lock lets one task fetch at a time, and that is     *)
(* never a caller whose reply another task has already put in the cache.   *)
THEOREM NobodyOverlooksItsReply == Spec => [](FetcherHoldsLock /\ NobodyFetchesPastItsReply)
<1>1. Init => RouterInv
  <2> SUFFICES ASSUME Init PROVE RouterInv
    OBVIOUS
  <2>1. Types
    BY EmptySeq DEF Init, Types, Points
  <2>2. FetcherHoldsLock /\ NobodyFetchesPastItsReply
    BY DEF Init, FetcherHoldsLock, NobodyFetchesPastItsReply
  <2>3. QED
    BY <2>1, <2>2 DEF RouterInv
<1>2. RouterInv /\ [Next]_vars => RouterInv'
  BY StepRouter
<1>3. RouterInv => FetcherHoldsLock /\ NobodyFetchesPastItsReply
  BY DEF RouterInv
<1>4. QED
  BY <1>1, <1>2, <1>3, PTL DEF Spec

-----------------------------------------------------------------------------
(***************************************************************************)
(* Where messages are.  A spot is the inbox, one of the two caches, what   *)
(* is lost, a task's hands, or what its function returned.                 *)
(***************************************************************************)
Spots ==
    ({"inbox", "messages", "replies", "dropped"} \X {Nil}) \cup ({"hand", "returned"} \X Tasks)

IsAt(k, m) ==
    \/ k[1] = "inbox" /\ m \in Range(inbox)
    \/ k[1] = "messages" /\ m \in Range(messages)
    \/ k[1] = "replies" /\ m \in replies
    \/ k[1] = "dropped" /\ m \in dropped
    \/ k[1] = "hand" /\ m # Nil /\ hand[k[2]] = m
    \/ k[1] = "returned" /\ m \in Range(delivered[k[2]])

(* A message that was sent is at one spot, ...                             *)
Sorted ==
    \A m : /\ m \in sent <=> \E k \in Spots : IsAt(k, m)
           /\ \A k, l \in Spots : IsAt(k, m) /\ IsAt(l, m) => k = l

(* ... there it is once, ...                                               *)
NoneTwice ==
    /\ IsInjective(inbox) /\ IsInjective(messages)
    /\ \A t \in Tasks : IsInjective(delivered[t])

(* ... and a task has one in its hands just while it looks what it is.     *)
HandInv ==
    \A t \in Tasks :
        /\ at[t] \in {"sorting", "deciding"} <=> hand[t] # Nil
        /\ at[t] = "deciding" => ~IsReply(hand[t])

ContentInv == ClientTypeOK /\ HandInv /\ NoneTwice /\ Sorted

-----------------------------------------------------------------------------
(* Sequences in which nothing is twice: what they contain after each of    *)
(* the operations of the router.                                           *)
LEMMA AppendOnce ==
    ASSUME NEW S, NEW s \in Seq(S), NEW x \in S, IsInjective(s), x \notin Range(s)
    PROVE  /\ Append(s, x) \in Seq(S) /\ IsInjective(Append(s, x))
           /\ \A m : m \in Range(Append(s, x)) <=> m \in Range(s) \/ m = x
<1>1. /\ Append(s, x) \in Seq(S) /\ Len(s) \in Nat /\ DOMAIN s = 1 .. Len(s)
      /\ DOMAIN Append(s, x) = 1 .. Len(s) + 1
      /\ \A i \in 1 .. Len(s) : Append(s, x)[i] = s[i]
      /\ Append(s, x)[Len(s) + 1] = x
  BY AppendProperties, LenProperties
<1>2. PICK n, a : n = Len(s) /\ a = Append(s, x)
  OBVIOUS
<1>3. /\ n \in Nat /\ DOMAIN s = 1 .. n /\ DOMAIN a = 1 .. n + 1 /\ a[n + 1] = x
      /\ \A i \in 1 .. n : a[i] = s[i]
      /\ \A i \in 1 .. n : s[i] # x
      /\ \A i, j \in 1 .. n : s[i] = s[j] => i = j
  BY <1>1, <1>2 DEF IsInjective, Range
<1>4. \A i \in 1 .. n + 1 : i \in 1 .. n \/ i = n + 1
  BY <1>3
<1>5. \A i, j \in 1 .. n + 1 : a[i] = a[j] => i = j
  BY <1>3, <1>4
<1>6. \A m : (\E i \in 1 .. n + 1 : a[i] = m) <=> (\E i \in 1 .. n : s[i] = m) \/ m = x
  <2>1. 1 .. n \subseteq 1 .. n + 1 /\ n + 1 \in 1 .. n + 1
    BY <1>3
  <2>2. QED
    BY <1>3, <1>4, <2>1
<1>7. QED
  BY <1>1, <1>2, <1>3, <1>5, <1>6 DEF IsInjective, Range

(* The messages from the (n + 1)-th on *)
LEMMA SuffixElements ==
    ASSUME NEW S, NEW s \in Seq(S), NEW n \in 0 .. Len(s)
    PROVE  LET r == SubSeq(s, n + 1, Len(s))
           IN  /\ r \in Seq(S) /\ Len(r) = Len(s) - n
               /\ \A i \in 1 .. Len(s) - n : r[i] = s[i + n]
<1>1. PICK l, r : l = Len(s) /\ r = SubSeq(s, n + 1, l)
  OBVIOUS
<1>2. /\ l \in Nat /\ n \in Nat /\ n <= l /\ DOMAIN s = 1 .. l
      /\ \A i \in 1 .. l : s[i] \in S
  BY <1>1, LenProperties
<1>3. /\ r \in Seq(S) /\ Len(r) = l - n
      /\ \A i \in 1 .. l - n : r[i] = s[i + n]
  <2>1. \A i \in n + 1 .. l : s[i] \in S
    BY <1>2
  <2>2. /\ r \in Seq(S)
        /\ Len(r) = IF n + 1 <= l THEN l - (n + 1) + 1 ELSE 0
        /\ \A i \in 1 .. l - (n + 1) + 1 : r[i] = s[n + 1 + i - 1]
    <3>1. n + 1 \in Int /\ l \in Int
      BY <1>2
    <3>2. QED
      BY <1>1, <2>1, <3>1, SubSeqProperties
  <2>3. l - (n + 1) + 1 = l - n /\ \A i \in Int : n + 1 + i - 1 = i + n
    BY <1>2
  <2>4. \A i \in 1 .. l - n : r[i] = s[i + n]
    <3>1. ASSUME NEW i \in 1 .. l - n PROVE r[i] = s[i + n]
      <4>1. n + 1 + i - 1 = i + n /\ i \in 1 .. l - (n + 1) + 1
        BY <1>2, <2>3
      <4>2. r[i] = s[n + 1 + i - 1]
        BY <2>2, <4>1
      <4>3. QED
        BY <4>1, <4>2
    <3>2. QED
      BY <3>1
  <2>5. Len(r) = l - n
    BY <1>2, <2>2
  <2>6. QED
    BY <2>2, <2>4, <2>5
<1>4. QED
  BY <1>1, <1>3

LEMMA SuffixOnce ==
    ASSUME NEW S, NEW s \in Seq(S), IsInjective(s), NEW n \in 0 .. Len(s)
    PROVE  LET r == SubSeq(s, n + 1, Len(s))
           IN  /\ r \in Seq(S) /\ IsInjective(r)
               /\ \A m : m \in Range(r) <=> m \in Range(s) /\ \A i \in 1 .. n : s[i] # m
<1>1. PICK l, r : l = Len(s) /\ r = SubSeq(s, n + 1, l)
  OBVIOUS
<1>2. /\ l \in Nat /\ n \in Nat /\ n <= l /\ DOMAIN s = 1 .. l
      /\ \A i \in 1 .. l : s[i] \in S
  BY <1>1, LenProperties
<1>3. /\ r \in Seq(S) /\ Len(r) = l - n
      /\ \A i \in 1 .. l - n : r[i] = s[i + n]
  BY <1>1, SuffixElements
<1>4. DOMAIN r = 1 .. l - n
  BY <1>3, LenProperties
<1>5. \A i, j \in 1 .. l - n : r[i] = r[j] => i = j
  <2>1. \A i, j \in 1 .. l : s[i] = s[j] => i = j
    BY <1>2 DEF IsInjective
  <2>2. \A i \in 1 .. l - n : i + n \in 1 .. l
    BY <1>2
  <2>3. \A i, j \in 1 .. l - n : i + n = j + n => i = j
    BY <1>2
  <2>4. QED
    BY <1>3, <2>1, <2>2, <2>3
<1>6. \A m : (\E i \in 1 .. l - n : r[i] = m) <=>
               (\E i \in 1 .. l : s[i] = m) /\ \A i \in 1 .. n : s[i] # m
  <2>1. ASSUME NEW i \in 1 .. l - n
        PROVE  i + n \in 1 .. l /\ i + n \notin 1 .. n /\ r[i] = s[i + n]
    BY <1>2, <1>3
  <2>2. ASSUME NEW i \in 1 .. l, i \notin 1 .. n
        PROVE  i - n \in 1 .. l - n /\ r[i - n] = s[i]
    <3>1. PICK j : j = i - n
      OBVIOUS
    <3>2. j \in 1 .. l - n /\ j + n = i
      BY <1>2, <2>2, <3>1
    <3>3. r[j] = s[j + n]
      BY <1>3, <3>2
    <3>4. QED
      BY <3>1, <3>2, <3>3
  <2>3. \A i \in 1 .. l, j \in 1 .. n : s[i] = s[j] => i = j
    BY <1>2 DEF IsInjective
  <2>4. QED
    BY <2>1, <2>2, <2>3
<1>7. /\ r \in Seq(S) /\ IsInjective(r)
      /\ \A m : m \in Range(r) <=> m \in Range(s) /\ \A i \in 1 .. n : s[i] # m
  <2>1. \A m : /\ m \in Range(r) <=> \E i \in 1 .. l - n : r[i] = m
               /\ m \in Range(s) <=> \E i \in 1 .. l : s[i] = m
    BY <1>2, <1>4 DEF Range
  <2>2. IsInjective(r)
    BY <1>4, <1>5 DEF IsInjective
  <2>3. QED
    BY <1>3, <1>6, <2>1, <2>2
<1>8. QED
  BY <1>1, <1>7

LEMMA TailOnce ==
    ASSUME NEW S, NEW s \in Seq(S), IsInjective(s), s # <<>>
    PROVE  /\ Tail(s) \in Seq(S) /\ IsInjective(Tail(s))
           /\ Head(s) \in S /\ Head(s) \in Range(s)
           /\ \A m : m \in Range(Tail(s)) <=> m \in Range(s) /\ m # Head(s)
<1>1. Len(s) \in Nat \ {0} /\ DOMAIN s = 1 .. Len(s)
  BY EmptySeq, LenProperties
<1>2. Tail(s) = SubSeq(s, 1 + 1, Len(s))
  BY TailIsSubSeq
<1>3. 1 \in 0 .. Len(s) /\ 1 \in DOMAIN s /\ Head(s) = s[1]
  BY <1>1
<1>4. /\ Tail(s) \in Seq(S) /\ IsInjective(Tail(s))
      /\ \A m : m \in Range(Tail(s)) <=> m \in Range(s) /\ \A i \in 1 .. 1 : s[i] # m
  BY <1>2, <1>3, SuffixOnce
<1>5. Head(s) \in S /\ Head(s) \in Range(s)
  BY <1>3, HeadTailProperties DEF Range
<1>6. QED
  BY <1>3, <1>4, <1>5

(* What is left when the n-th is taken out *)
LEMMA RemovedElements ==
    ASSUME NEW S, NEW s \in Seq(S), NEW n \in DOMAIN s
    PROVE  LET r == RemoveAt(s, n)
           IN  /\ r \in Seq(S) /\ Len(r) = Len(s) - 1
               /\ \A i \in 1 .. Len(s) - 1 : r[i] = IF i < n THEN s[i] ELSE s[i + 1]
<1>1. PICK l : l = Len(s)
  OBVIOUS
<1>2. /\ l \in Nat /\ n \in 1 .. l /\ DOMAIN s = 1 .. l
      /\ \A i \in 1 .. l : s[i] \in S
  BY <1>1, LenProperties
<1>3. PICK a, b, r : a = SubSeq(s, 1, n - 1) /\ b = SubSeq(s, n + 1, l) /\ r = a \o b
  OBVIOUS
<1>4. r = RemoveAt(s, n)
  BY <1>1, <1>3 DEF RemoveAt
<1>5. /\ a \in Seq(S) /\ Len(a) = n - 1 /\ \A i \in 1 .. n - 1 : a[i] = s[i]
      /\ b \in Seq(S) /\ Len(b) = l - n /\ \A i \in 1 .. l - n : b[i] = s[i + n]
  <2>1. /\ 1 \in Int /\ n - 1 \in Int /\ n + 1 \in Int /\ l \in Int
        /\ \A i \in 1 .. n - 1 : s[i] \in S
        /\ \A i \in n + 1 .. l : s[i] \in S
    BY <1>2
  <2>2. /\ a \in Seq(S) /\ Len(a) = (IF 1 <= n - 1 THEN n - 1 - 1 + 1 ELSE 0)
        /\ \A i \in 1 .. n - 1 - 1 + 1 : a[i] = s[1 + i - 1]
    BY <1>3, <2>1, SubSeqProperties
  <2>3. /\ b \in Seq(S) /\ Len(b) = (IF n + 1 <= l THEN l - (n + 1) + 1 ELSE 0)
        /\ \A i \in 1 .. l - (n + 1) + 1 : b[i] = s[n + 1 + i - 1]
    BY <1>3, <2>1, SubSeqProperties
  <2>4. ASSUME NEW i \in 1 .. n - 1 PROVE a[i] = s[i]
    <3>1. 1 + i - 1 = i /\ i \in 1 .. n - 1 - 1 + 1
      BY <1>2
    <3>2. a[i] = s[1 + i - 1]
      BY <2>2, <3>1
    <3>3. QED
      BY <3>1, <3>2
  <2>5. ASSUME NEW i \in 1 .. l - n PROVE b[i] = s[i + n]
    <3>1. n + 1 + i - 1 = i + n /\ i \in 1 .. l - (n + 1) + 1
      BY <1>2
    <3>2. b[i] = s[n + 1 + i - 1]
      BY <2>3, <3>1
    <3>3. QED
      BY <3>1, <3>2
  <2>6. Len(a) = n - 1 /\ Len(b) = l - n
    BY <1>2, <2>2, <2>3
  <2>7. QED
    BY <2>2, <2>3, <2>4, <2>5, <2>6
<1>6. /\ r \in Seq(S) /\ Len(r) = l - 1
      /\ \A i \in 1 .. l - 1 : r[i] = IF i < n THEN s[i] ELSE s[i + 1]
  <2>1. /\ r \in Seq(S) /\ Len(r) = Len(a) + Len(b)
        /\ \A i \in 1 .. Len(a) + Len(b) :
              r[i] = IF i <= Len(a) THEN a[i] ELSE b[i - Len(a)]
    <3>1. /\ a \o b \in Seq(S) /\ Len(a \o b) = Len(a) + Len(b)
          /\ \A i \in 1 .. Len(a) + Len(b) :
                (a \o b)[i] = IF i <= Len(a) THEN a[i] ELSE b[i - Len(a)]
      BY <1>5, ConcatProperties
    <3>2. QED
      BY <1>3, <3>1
  <2>2. ASSUME NEW i \in 1 .. l - 1 PROVE r[i] = IF i < n THEN s[i] ELSE s[i + 1]
    <3>1. CASE i < n
      BY <1>2, <1>5, <2>1, <3>1
    <3>2. CASE ~(i < n)
      <4>1. PICK j : j = i - (n - 1)
        OBVIOUS
      <4>2. j \in 1 .. l - n /\ j + n = i + 1 /\ ~(i <= n - 1) /\ i - Len(a) = j
        BY <1>2, <1>5, <3>2, <4>1
      <4>3. i \in 1 .. Len(a) + Len(b) /\ b[j] = s[i + 1]
        <5>1. Len(a) + Len(b) = l - 1
          BY <1>2, <1>5
        <5>2. b[j] = s[j + n]
          BY <1>5, <4>2
        <5>3. QED
          BY <4>2, <5>1, <5>2
      <4>4. r[i] = b[j]
        BY <1>5, <2>1, <4>2, <4>3
      <4>5. QED
        BY <3>2, <4>3, <4>4
    <3>3. QED
      BY <3>1, <3>2
  <2>3. QED
    BY <1>2, <1>5, <2>1, <2>2
<1>7. QED
  BY <1>1, <1>4, <1>6

LEMMA RemoveOnce ==
    ASSUME NEW S, NEW s \in Seq(S), IsInjective(s), NEW n \in DOMAIN s
    PROVE  /\ RemoveAt(s, n) \in Seq(S) /\ IsInjective(RemoveAt(s, n))
           /\ \A m : m \in Range(RemoveAt(s, n)) <=> m \in Range(s) /\ m # s[n]
<1>1. PICK l, r : l = Len(s) /\ r = RemoveAt(s, n)
  OBVIOUS
<1>2. /\ l \in Nat /\ n \in 1 .. l /\ DOMAIN s = 1 .. l
      /\ \A i \in 1 .. l : s[i] \in S
      /\ \A i, j \in 1 .. l : s[i] = s[j] => i = j
  BY <1>1, LenProperties DEF IsInjective
<1>3. /\ r \in Seq(S) /\ Len(r) = l - 1
      /\ \A i \in 1 .. l - 1 : r[i] = IF i < n THEN s[i] ELSE s[i + 1]
  BY <1>1, RemovedElements
<1>4. DOMAIN r = 1 .. l - 1
  BY <1>3, LenProperties
<1>5. \A i, j \in 1 .. l - 1 : r[i] = r[j] => i = j
  BY <1>2, <1>3
<1>6. \A m : (\E i \in 1 .. l - 1 : r[i] = m) <=> (\E i \in 1 .. l : s[i] = m) /\ m # s[n]
  <2>1. ASSUME NEW i \in 1 .. l - 1
        PROVE  \E j \in 1 .. l : j # n /\ r[i] = s[j]
    BY <1>2, <1>3
  <2>2. ASSUME NEW j \in 1 .. l, j # n
        PROVE  \E i \in 1 .. l - 1 : r[i] = s[j]
    <3>1. CASE j < n
      BY <1>2, <1>3, <2>2, <3>1
    <3>2. CASE ~(j < n)
      <4>1. j - 1 \in 1 .. l - 1 /\ ~(j - 1 < n) /\ j - 1 + 1 = j
        BY <1>2, <2>2, <3>2
      <4>2. QED
        BY <1>3, <4>1
    <3>3. QED
      BY <3>1, <3>2
  <2>3. \A j \in 1 .. l : s[j] = s[n] => j = n
    BY <1>2
  <2>4. QED
    BY <2>1, <2>2, <2>3
<1>7. /\ r \in Seq(S) /\ IsInjective(r)
       /\ \A m : m \in Range(r) <=> m \in Range(s) /\ m # s[n]
  <2>1. \A m : /\ m \in Range(r) <=> \E i \in 1 .. l - 1 : r[i] = m
               /\ m \in Range(s) <=> \E i \in 1 .. l : s[i] = m
    BY <1>2, <1>4 DEF Range
  <2>2. IsInjective(r)
    BY <1>4, <1>5 DEF IsInjective
  <2>3. QED
    BY <1>3, <1>6, <2>1, <2>2
<1>8. QED
  BY <1>1, <1>7

-----------------------------------------------------------------------------
(* What moves from one spot to another: Sorted stays when X moves from a   *)
(* to b and every other spot is left alone.                                *)
LEMMA MovesSorted ==
    ASSUME Sorted, sent' = sent,
           NEW a \in Spots, NEW b \in Spots, a # b, NEW X, \A x \in X : IsAt(a, x),
           \A k \in Spots \ {a, b} : \A m : IsAt(k, m)' <=> IsAt(k, m),
           \A m : IsAt(a, m)' <=> IsAt(a, m) /\ m \notin X,
           \A m : IsAt(b, m)' <=> IsAt(b, m) \/ m \in X
    PROVE  Sorted'
<1>1. \A m : m \in sent' <=> \E k \in Spots : IsAt(k, m)'
  BY DEF Sorted
<1>2. \A m : \A k \in Spots : IsAt(k, m)' =>
         (m \in X /\ k = b) \/ (m \notin X /\ IsAt(k, m))
  BY DEF Sorted
<1>3. \A m : \A k, l \in Spots : IsAt(k, m)' /\ IsAt(l, m)' => k = l
  BY <1>2 DEF Sorted
<1>4. QED
  BY <1>1, <1>3 DEF Sorted

LEMMA OthersStay ==
    ASSUME NEW a \in Spots, NEW b \in Spots,
           inbox' = inbox \/ "inbox" \in {a[1], b[1]},
           messages' = messages \/ "messages" \in {a[1], b[1]},
           replies' = replies \/ "replies" \in {a[1], b[1]},
           dropped' = dropped \/ "dropped" \in {a[1], b[1]},
           \A t \in Tasks : hand'[t] = hand[t] \/ <<"hand", t>> \in {a, b},
           \A t \in Tasks : delivered'[t] = delivered[t] \/ <<"returned", t>> \in {a, b}
    PROVE  \A k \in Spots \ {a, b} : \A m : IsAt(k, m)' <=> IsAt(k, m)
<1>1. \A k \in Spots : \/ k[1] \in {"inbox", "messages", "replies", "dropped"} /\ k = <<k[1], Nil>>
                       \/ k[1] \in {"hand", "returned"} /\ k[2] \in Tasks /\ k = <<k[1], k[2]>>
  BY DEF Spots
<1>2. QED
  BY <1>1 DEF IsAt

LEMMA SpotNames ==
    /\ \A p \in {"inbox", "messages", "replies", "dropped"} : <<p, Nil>> \in Spots
    /\ \A t \in Tasks : <<"hand", t>> \in Spots /\ <<"returned", t>> \in Spots
    /\ \A m : /\ IsAt(<<"inbox", Nil>>, m) <=> m \in Range(inbox)
              /\ IsAt(<<"messages", Nil>>, m) <=> m \in Range(messages)
              /\ IsAt(<<"replies", Nil>>, m) <=> m \in replies
              /\ IsAt(<<"dropped", Nil>>, m) <=> m \in dropped
    /\ \A t, m : /\ IsAt(<<"hand", t>>, m) <=> m # Nil /\ hand[t] = m
                 /\ IsAt(<<"returned", t>>, m) <=> m \in Range(delivered[t])
  BY DEF Spots, IsAt

LEMMA SpotNamesAfter ==
    /\ \A m : /\ IsAt(<<"inbox", Nil>>, m)' <=> m \in Range(inbox')
              /\ IsAt(<<"messages", Nil>>, m)' <=> m \in Range(messages')
              /\ IsAt(<<"replies", Nil>>, m)' <=> m \in replies'
              /\ IsAt(<<"dropped", Nil>>, m)' <=> m \in dropped'
    /\ \A t, m : /\ IsAt(<<"hand", t>>, m)' <=> m # Nil /\ hand'[t] = m
                 /\ IsAt(<<"returned", t>>, m)' <=> m \in Range(delivered'[t])
  BY DEF IsAt

LEMMA KindsOfMessages ==
    /\ \A m \in InboxMessage : IsReply(m) <=> m \in {Reply(id) : id \in 1 .. MaxCalls}
    /\ {Reply(id) : id \in 1 .. MaxCalls} \subseteq InboxMessage
    /\ \A w, m : IsOwn(w, m) => ~IsReply(m)
  BY DEF InboxMessage, IsReply, Reply, Event, News, IsOwn

LEMMA TaskKinds == /\ Callers \subseteq Tasks /\ Watchers \subseteq Tasks /\ Drainers \subseteq Tasks
                   /\ Watchers \cap Callers = {} /\ Drainers \cap Callers = {}
                   /\ Watchers \cap Drainers = {}
  BY DistinctTasks DEF Tasks

(* A step that moves no message *)
LEMMA NothingMoves ==
    ASSUME ContentInv, fetchLock' \in Seq(Tasks),
           UNCHANGED <<inbox, messages, replies, dropped, hand, delivered, sent>>,
           request' \in [Callers -> 0 .. MaxCalls], nextId' \in 0 .. MaxCalls,
           at' \in [Tasks -> Points],
           \A t \in Tasks : at'[t] = at[t] \/ ({at[t], at'[t]} \cap {"sorting", "deciding"} = {})
    PROVE  ContentInv'
<1>1. ClientTypeOK' /\ NoneTwice'
  BY DEF ContentInv, ClientTypeOK, NoneTwice
<1>2. HandInv'
  BY DEF ContentInv, HandInv
<1>3. Sorted'
  BY DEF ContentInv, Sorted, IsAt
<1>4. QED
  BY <1>1, <1>2, <1>3 DEF ContentInv

LEMMA GotoMoves ==
    ASSUME ContentInv, NEW t \in Tasks, NEW p \in Points, Goto(t, p)
    PROVE  /\ at' \in [Tasks -> Points] /\ at'[t] = p
           /\ \A u \in Tasks \ {t} : at'[u] = at[u]
  BY DEF ContentInv, ClientTypeOK, Goto

(* A function returns with a message that it has not returned before. *)
LEMMA ReturnMoves ==
    ASSUME ContentInv, NEW t \in Tasks, NEW m \in InboxMessage, m \notin Range(delivered[t]),
           Return(t, m)
    PROVE  /\ at' \in [Tasks -> Points] /\ at'[t] = "idle"
           /\ \A u \in Tasks \ {t} : at'[u] = at[u] /\ delivered'[u] = delivered[u]
           /\ delivered' \in [Tasks -> Seq(InboxMessage)]
           /\ \A u \in Tasks : IsInjective(delivered'[u])
           /\ \A x : x \in Range(delivered'[t]) <=> x \in Range(delivered[t]) \/ x = m
<1>1. /\ delivered \in [Tasks -> Seq(InboxMessage)]
      /\ \A u \in Tasks : IsInjective(delivered[u])
  BY DEF ContentInv, ClientTypeOK, NoneTwice
<1>2. /\ Append(delivered[t], m) \in Seq(InboxMessage)
      /\ IsInjective(Append(delivered[t], m))
      /\ \A x : x \in Range(Append(delivered[t], m)) <=> x \in Range(delivered[t]) \/ x = m
  <2>1. delivered[t] \in Seq(InboxMessage) /\ IsInjective(delivered[t])
    BY <1>1
  <2>2. QED
    BY <2>1, AppendOnce
<1>3. delivered' = [delivered EXCEPT ![t] = Append(delivered[t], m)] /\ Goto(t, "idle")
  BY DEF Return
<1>4. /\ at' \in [Tasks -> Points] /\ at'[t] = "idle"
      /\ \A u \in Tasks \ {t} : at'[u] = at[u]
  BY <1>3, GotoMoves DEF Points
<1>5. /\ delivered'[t] = Append(delivered[t], m)
      /\ \A u \in Tasks \ {t} : delivered'[u] = delivered[u]
      /\ delivered' \in [Tasks -> Seq(InboxMessage)]
  BY <1>1, <1>2, <1>3
<1>6. \A u \in Tasks : IsInjective(delivered'[u])
  BY <1>1, <1>2, <1>5
<1>7. QED
  BY <1>2, <1>4, <1>5, <1>6

(* The steps of the kernel: a new message comes into the inbox. *)
LEMMA ArriveContent ==
    ASSUME ContentInv, NEW m \in InboxMessage, m \notin sent, Arrive(m)
    PROVE  ContentInv'
<1>1. /\ inbox' = Append(inbox, m) /\ sent' = sent \cup {m}
      /\ UNCHANGED <<fetchLock, replies, messages, at, hand, request, nextId, delivered, dropped>>
  BY DEF Arrive
<1>2. \A k \in Spots : ~IsAt(k, m)
  BY DEF ContentInv, Sorted
<1>3. inbox \in Seq(InboxMessage) /\ IsInjective(inbox) /\ m \notin Range(inbox)
  BY <1>2, SpotNames DEF ContentInv, ClientTypeOK, NoneTwice
<1>4. /\ inbox' \in Seq(InboxMessage) /\ IsInjective(inbox')
      /\ \A x : x \in Range(inbox') <=> x \in Range(inbox) \/ x = m
  BY <1>1, <1>3, AppendOnce
<1>5. ClientTypeOK' /\ NoneTwice' /\ HandInv'
  BY <1>1, <1>4 DEF ContentInv, ClientTypeOK, NoneTwice, HandInv
<1>6. \A k \in Spots : \A x : IsAt(k, x)' <=> IsAt(k, x) \/ (k = <<"inbox", Nil>> /\ x = m)
  <2>1. \A k \in Spots \ {<<"inbox", Nil>>} : \A x : IsAt(k, x)' <=> IsAt(k, x)
    <3>1. <<"inbox", Nil>> \in Spots
      BY SpotNames
    <3>2. QED
      BY <1>1, <3>1, OthersStay
  <2>2. \A x : IsAt(<<"inbox", Nil>>, x)' <=> IsAt(<<"inbox", Nil>>, x) \/ x = m
    BY <1>4, SpotNames, SpotNamesAfter
  <2>3. QED
    BY <2>1, <2>2
<1>7. Sorted'
  <2>1. <<"inbox", Nil>> \in Spots
    BY SpotNames
  <2>2. QED
    BY <1>1, <1>2, <1>6, <2>1 DEF ContentInv, Sorted
<1>8. QED
  BY <1>5, <1>7 DEF ContentInv

LEMMA KernelContent ==
    ASSUME ContentInv, Answer \/ Publish \/ Announce
    PROVE  ContentInv'
<1>1. ASSUME NEW id \in 1 .. nextId, Reply(id) \notin sent, Arrive(Reply(id)) PROVE ContentInv'
  <2>1. Reply(id) \in InboxMessage
    BY ClientBounds DEF ContentInv, ClientTypeOK, InboxMessage
  <2>2. QED
    BY <1>1, <2>1, ArriveContent
<1>2. ASSUME NEW w \in Watchers, NEW n \in 1 .. MaxEvents, NEW good \in BOOLEAN,
             \A m \in sent : IsOwn(w, m) => m.n < n,
             Arrive(Event(w, n, good))
      PROVE  ContentInv'
  <2>1. Event(w, n, good) \in InboxMessage
    BY DEF InboxMessage
  <2>2. Event(w, n, good) \notin sent
    <3>1. IsOwn(w, Event(w, n, good)) /\ Event(w, n, good).n = n /\ ~(n < n)
      BY ClientBounds DEF IsOwn, Event
    <3>2. QED
      BY <1>2, <3>1
  <2>3. QED
    BY <1>2, <2>1, <2>2, ArriveContent
<1>3. ASSUME NEW n \in 1 .. MaxNews, News(n) \notin sent, Arrive(News(n)) PROVE ContentInv'
  <2>1. News(n) \in InboxMessage
    BY DEF InboxMessage
  <2>2. QED
    BY <1>3, <2>1, ArriveContent
<1>4. QED
  BY <1>1, <1>2, <1>3 DEF Answer, Publish, Announce

(* wait_for_reply takes its reply from the cache. *)
LEMMA TakeReplyContent ==
    ASSUME ContentInv, fetchLock' \in Seq(Tasks), NEW c \in Callers,
           at[c] \notin {"sorting", "deciding"}, TakeReply(c),
           UNCHANGED <<inbox, messages, hand, request, nextId, sent, dropped>>
    PROVE  ContentInv'
<1>1. c \in Tasks
  BY TaskKinds
<1>2. PICK m : m = Awaited(c)
  OBVIOUS
<1>3. m \in replies /\ replies' = replies \ {m} /\ Return(c, m)
  BY <1>2 DEF TakeReply
<1>4. m \in InboxMessage
  BY <1>3, KindsOfMessages DEF ContentInv, ClientTypeOK
<1>5. PICK a, b : a = <<"replies", Nil>> /\ b = <<"returned", c>>
  OBVIOUS
<1>6. a \in Spots /\ b \in Spots /\ a # b /\ IsAt(a, m)
  BY <1>1, <1>3, <1>5, SpotNames
<1>7. m \notin Range(delivered[c])
  <2>1. IsAt(b, m) <=> m \in Range(delivered[c])
    BY <1>5, SpotNames
  <2>2. ~IsAt(b, m)
    BY <1>6 DEF ContentInv, Sorted
  <2>3. QED
    BY <2>1, <2>2
<1>8. /\ at' \in [Tasks -> Points] /\ at'[c] = "idle"
      /\ \A u \in Tasks \ {c} : at'[u] = at[u] /\ delivered'[u] = delivered[u]
      /\ delivered' \in [Tasks -> Seq(InboxMessage)]
      /\ \A u \in Tasks : IsInjective(delivered'[u])
      /\ \A x : x \in Range(delivered'[c]) <=> x \in Range(delivered[c]) \/ x = m
  BY <1>1, <1>3, <1>4, <1>7, ReturnMoves
<1>9. ClientTypeOK' /\ NoneTwice'
  BY <1>3, <1>8 DEF ContentInv, ClientTypeOK, NoneTwice
<1>10. HandInv'
  BY <1>1, <1>8 DEF ContentInv, HandInv
<1>11. Sorted'
  <2>1. \A k \in Spots \ {a, b} : \A x : IsAt(k, x)' <=> IsAt(k, x)
    BY <1>5, <1>6, <1>8, OthersStay
  <2>2. /\ \A x : IsAt(a, x)' <=> IsAt(a, x) /\ x \notin {m}
        /\ \A x : IsAt(b, x)' <=> IsAt(b, x) \/ x \in {m}
    BY <1>3, <1>5, <1>8, SpotNames, SpotNamesAfter
  <2>3. \A x \in {m} : IsAt(a, x)
    BY <1>6
  <2>4. Sorted
    BY DEF ContentInv
  <2>5. QED
    BY <1>6, <2>1, <2>2, <2>3, <2>4, MovesSorted
<1>12. QED
  BY <1>9, <1>10, <1>11 DEF ContentInv

(* What a task has in its hands comes from the inbox or from the cache.    *)
LEMMA FetchContent ==
    ASSUME ContentInv, NEW t \in Tasks, Fetch(t)
    PROVE  ContentInv'
<1>1. /\ at[t] = "fetching" /\ inbox # <<>> /\ inbox' = Tail(inbox) /\ Goto(t, "sorting")
      /\ hand' = [hand EXCEPT ![t] = Head(inbox)]
      /\ UNCHANGED <<fetchLock, replies, messages, request, nextId, sent, delivered, dropped>>
  BY DEF Fetch
<1>2. PICK m : m = Head(inbox)
  OBVIOUS
<1>3. inbox \in Seq(InboxMessage) /\ IsInjective(inbox)
  BY DEF ContentInv, ClientTypeOK, NoneTwice
<1>4. /\ inbox' \in Seq(InboxMessage) /\ IsInjective(inbox')
      /\ m \in InboxMessage /\ m \in Range(inbox)
      /\ \A x : x \in Range(inbox') <=> x \in Range(inbox) /\ x # m
  BY <1>1, <1>2, <1>3, TailOnce
<1>5. /\ at' \in [Tasks -> Points] /\ at'[t] = "sorting"
      /\ \A u \in Tasks \ {t} : at'[u] = at[u]
  BY <1>1, GotoMoves DEF Points
<1>6. m # Nil /\ hand[t] = Nil
  BY <1>1, <1>4, NilIsNoMessage DEF ContentInv, HandInv
<1>7. /\ hand' \in [Tasks -> InboxMessage \cup {Nil}] /\ hand'[t] = m
      /\ \A u \in Tasks \ {t} : hand'[u] = hand[u]
  BY <1>1, <1>2, <1>4 DEF ContentInv, ClientTypeOK
<1>8. ClientTypeOK' /\ NoneTwice'
  BY <1>1, <1>4, <1>5, <1>7 DEF ContentInv, ClientTypeOK, NoneTwice
<1>9. HandInv'
  BY <1>5, <1>6, <1>7 DEF ContentInv, HandInv
<1>10. Sorted'
  <2>1. PICK a, b : a = <<"inbox", Nil>> /\ b = <<"hand", t>>
    OBVIOUS
  <2>2. a \in Spots /\ b \in Spots /\ a # b /\ \A x \in {m} : IsAt(a, x)
    BY <1>4, <2>1, SpotNames
  <2>3. \A k \in Spots \ {a, b} : \A x : IsAt(k, x)' <=> IsAt(k, x)
    BY <1>1, <1>7, <2>1, <2>2, OthersStay
  <2>4. /\ \A x : IsAt(a, x)' <=> IsAt(a, x) /\ x \notin {m}
        /\ \A x : IsAt(b, x)' <=> IsAt(b, x) \/ x \in {m}
    BY <1>4, <1>6, <1>7, <2>1, SpotNames, SpotNamesAfter
  <2>5. Sorted /\ sent' = sent
    BY <1>1 DEF ContentInv
  <2>6. QED
    BY <2>2, <2>3, <2>4, <2>5, MovesSorted
<1>11. QED
  BY <1>8, <1>9, <1>10 DEF ContentInv

(* super_next_message ends with the oldest cached message. *)
LEMMA TakeMessageContent ==
    ASSUME ContentInv, fetchLock' \in Seq(Tasks), NEW t \in Watchers \cup Drainers,
           at[t] \notin {"sorting", "deciding"}, TakeMessage(t),
           UNCHANGED <<inbox, replies, request, nextId, sent, dropped>>
    PROVE  ContentInv'
<1>1. PICK m : m = Head(messages)
  OBVIOUS
<1>2. messages # <<>> /\ messages' = Tail(messages) /\ Got(t, m)
  BY <1>1 DEF TakeMessage
<1>3. /\ messages \in Seq(InboxMessage) /\ IsInjective(messages)
      /\ \A x \in Range(messages) : ~IsReply(x)
  BY DEF ContentInv, ClientTypeOK, NoneTwice, Range
<1>4. /\ messages' \in Seq(InboxMessage) /\ IsInjective(messages')
      /\ m \in InboxMessage /\ m \in Range(messages)
      /\ \A x : x \in Range(messages') <=> x \in Range(messages) /\ x # m
  BY <1>1, <1>2, <1>3, TailOnce
<1>5. \A i \in DOMAIN messages' : ~IsReply(messages'[i])
  BY <1>3, <1>4 DEF Range
<1>6. t \in Tasks /\ m # Nil /\ hand[t] = Nil /\ ~IsReply(m)
  BY <1>3, <1>4, NilIsNoMessage, TaskKinds DEF ContentInv, HandInv
<1>7. hand \in [Tasks -> InboxMessage \cup {Nil}]
  BY DEF ContentInv, ClientTypeOK
<1>8. Sorted /\ sent' = sent
  BY DEF ContentInv
<1>9. PICK a : a = <<"messages", Nil>>
  OBVIOUS
<1>10. /\ a \in Spots /\ \A x \in {m} : IsAt(a, x)
       /\ \A x : IsAt(a, x)' <=> IsAt(a, x) /\ x \notin {m}
  BY <1>4, <1>9, SpotNames, SpotNamesAfter
<1>11. CASE t \in Drainers /\ Return(t, m) /\ hand' = [hand EXCEPT ![t] = Nil]
  <2>1. PICK b : b = <<"returned", t>>
    OBVIOUS
  <2>2. b \in Spots /\ a # b
    BY <1>6, <1>9, <2>1, SpotNames
  <2>3. m \notin Range(delivered[t])
    BY <1>8, <1>10, <2>1, <2>2, SpotNames DEF Sorted
  <2>4. /\ at' \in [Tasks -> Points] /\ at'[t] = "idle"
        /\ \A u \in Tasks \ {t} : at'[u] = at[u] /\ delivered'[u] = delivered[u]
        /\ delivered' \in [Tasks -> Seq(InboxMessage)]
        /\ \A u \in Tasks : IsInjective(delivered'[u])
        /\ \A x : x \in Range(delivered'[t]) <=> x \in Range(delivered[t]) \/ x = m
    BY <1>4, <1>6, <1>11, <2>3, ReturnMoves
  <2>5. hand' = hand
    BY <1>6, <1>7, <1>11
  <2>6. ClientTypeOK' /\ NoneTwice'
    BY <1>4, <1>5, <2>4, <2>5 DEF ContentInv, ClientTypeOK, NoneTwice
  <2>7. HandInv'
    BY <1>6, <2>4, <2>5 DEF ContentInv, HandInv
  <2>8. \A k \in Spots \ {a, b} : \A x : IsAt(k, x)' <=> IsAt(k, x)
    BY <1>9, <1>10, <2>1, <2>2, <2>4, <2>5, OthersStay
  <2>9. \A x : IsAt(b, x)' <=> IsAt(b, x) \/ x \in {m}
    BY <2>1, <2>4, SpotNames, SpotNamesAfter
  <2>10. Sorted'
    BY <1>8, <1>10, <2>2, <2>8, <2>9, MovesSorted
  <2>11. QED
    BY <2>6, <2>7, <2>10 DEF ContentInv
<1>12. CASE /\ t \in Watchers /\ Goto(t, "deciding") /\ hand' = [hand EXCEPT ![t] = m]
            /\ UNCHANGED delivered
  <2>1. PICK b : b = <<"hand", t>>
    OBVIOUS
  <2>2. b \in Spots /\ a # b
    BY <1>6, <1>9, <2>1, SpotNames
  <2>3. /\ at' \in [Tasks -> Points] /\ at'[t] = "deciding"
        /\ \A u \in Tasks \ {t} : at'[u] = at[u]
    BY <1>6, <1>12, GotoMoves DEF Points
  <2>4. /\ hand' \in [Tasks -> InboxMessage \cup {Nil}] /\ hand'[t] = m
        /\ \A u \in Tasks \ {t} : hand'[u] = hand[u]
    BY <1>4, <1>6, <1>7, <1>12
  <2>5. ClientTypeOK' /\ NoneTwice'
    BY <1>4, <1>5, <1>12, <2>3, <2>4 DEF ContentInv, ClientTypeOK, NoneTwice
  <2>6. HandInv'
    BY <1>6, <2>3, <2>4 DEF ContentInv, HandInv
  <2>7. \A k \in Spots \ {a, b} : \A x : IsAt(k, x)' <=> IsAt(k, x)
    BY <1>9, <1>10, <1>12, <2>1, <2>2, <2>4, OthersStay
  <2>8. \A x : IsAt(b, x)' <=> IsAt(b, x) \/ x \in {m}
    BY <1>6, <2>1, <2>4, SpotNames, SpotNamesAfter
  <2>9. Sorted'
    BY <1>8, <1>10, <2>2, <2>7, <2>8, MovesSorted
  <2>10. QED
    BY <2>5, <2>6, <2>9 DEF ContentInv
<1>13. QED
  BY <1>2, <1>11, <1>12 DEF Got

(* A task parts with the message it has in its hands: its function returns *)
(* it, or keeps it in one of the caches, or loses it.                      *)
PartsWith(t, m) ==
    \/ Return(t, m) /\ UNCHANGED <<replies, messages, dropped>>
    \/ /\ \E p \in Away \ {"deciding"} : Goto(t, p)
       /\ UNCHANGED delivered
       /\ \/ IsReply(m) /\ KeepReply(m) /\ UNCHANGED <<messages, dropped>>
          \/ ~IsReply(m) /\ KeepMessage(m) /\ UNCHANGED <<replies, dropped>>
          \/ dropped' = dropped \cup {m} /\ UNCHANGED <<replies, messages>>

LEMMA PartsWithContent ==
    ASSUME ContentInv, fetchLock' \in Seq(Tasks), NEW t \in Tasks, NEW m,
           m = hand[t], m # Nil, hand' = [hand EXCEPT ![t] = Nil],
           UNCHANGED <<inbox, request, nextId, sent>>, PartsWith(t, m)
    PROVE  ContentInv'
<1>1. hand \in [Tasks -> InboxMessage \cup {Nil}] /\ m \in InboxMessage
  BY DEF ContentInv, ClientTypeOK
<1>2. /\ hand' \in [Tasks -> InboxMessage \cup {Nil}] /\ hand'[t] = Nil
      /\ \A u \in Tasks \ {t} : hand'[u] = hand[u]
  BY <1>1
<1>3. Sorted /\ sent' = sent
  BY DEF ContentInv
<1>4. PICK a : a = <<"hand", t>>
  OBVIOUS
<1>5. /\ a \in Spots /\ \A x \in {m} : IsAt(a, x)
      /\ \A x : IsAt(a, x)' <=> IsAt(a, x) /\ x \notin {m}
  BY <1>2, <1>4, SpotNames, SpotNamesAfter
<1>6. \A b \in Spots : b # a => ~IsAt(b, m)
  BY <1>3, <1>5 DEF Sorted
<1>7. CASE Return(t, m) /\ UNCHANGED <<replies, messages, dropped>>
  <2>1. PICK b : b = <<"returned", t>>
    OBVIOUS
  <2>2. b \in Spots /\ a # b
    BY <1>4, <2>1, SpotNames
  <2>3. m \notin Range(delivered[t])
    BY <1>6, <2>1, <2>2, SpotNames
  <2>4. /\ at' \in [Tasks -> Points] /\ at'[t] = "idle"
        /\ \A u \in Tasks \ {t} : at'[u] = at[u] /\ delivered'[u] = delivered[u]
        /\ delivered' \in [Tasks -> Seq(InboxMessage)]
        /\ \A u \in Tasks : IsInjective(delivered'[u])
        /\ \A x : x \in Range(delivered'[t]) <=> x \in Range(delivered[t]) \/ x = m
    BY <1>1, <1>7, <2>3, ReturnMoves
  <2>5. ClientTypeOK' /\ NoneTwice'
    BY <1>2, <1>7, <2>4 DEF ContentInv, ClientTypeOK, NoneTwice
  <2>6. HandInv'
    BY <1>2, <2>4 DEF ContentInv, HandInv
  <2>7. \A k \in Spots \ {a, b} : \A x : IsAt(k, x)' <=> IsAt(k, x)
    BY <1>2, <1>4, <1>5, <1>7, <2>1, <2>2, <2>4, OthersStay
  <2>8. \A x : IsAt(b, x)' <=> IsAt(b, x) \/ x \in {m}
    BY <2>1, <2>4, SpotNames, SpotNamesAfter
  <2>9. Sorted'
    BY <1>3, <1>5, <2>2, <2>7, <2>8, MovesSorted
  <2>10. QED
    BY <2>5, <2>6, <2>9 DEF ContentInv
<1>8. ASSUME NEW p \in Away \ {"deciding"}, Goto(t, p), UNCHANGED delivered,
             NEW name \in {"replies", "messages", "dropped"},
             replies' = IF name = "replies" THEN replies \cup {m} ELSE replies,
             messages' = IF name = "messages" THEN Append(messages, m) ELSE messages,
             dropped' = IF name = "dropped" THEN dropped \cup {m} ELSE dropped,
             name = "replies" => IsReply(m), name = "messages" => ~IsReply(m)
      PROVE  ContentInv'
  <2>1. PICK b : b = <<name, Nil>>
    OBVIOUS
  <2>2. b \in Spots /\ a # b /\ ~IsAt(b, m)
    BY <1>4, <1>6, <2>1, SpotNames
  <2>3. /\ at' \in [Tasks -> Points] /\ at'[t] = p /\ p \notin {"sorting", "deciding"}
        /\ \A u \in Tasks \ {t} : at'[u] = at[u]
    BY <1>8, GotoMoves DEF Away, Points
  <2>4. /\ messages' \in Seq(InboxMessage) /\ IsInjective(messages')
        /\ \A i \in DOMAIN messages' : ~IsReply(messages'[i])
        /\ \A x : x \in Range(messages') <=>
                     x \in Range(messages) \/ (name = "messages" /\ x = m)
    <3>1. /\ messages \in Seq(InboxMessage) /\ IsInjective(messages)
          /\ \A x \in Range(messages) : ~IsReply(x)
      BY DEF ContentInv, ClientTypeOK, NoneTwice, Range
    <3>2. CASE name = "messages"
      <4>1. m \notin Range(messages)
        BY <2>1, <2>2, <3>2, SpotNames
      <4>2. /\ messages' \in Seq(InboxMessage) /\ IsInjective(messages')
            /\ \A x : x \in Range(messages') <=> x \in Range(messages) \/ x = m
        BY <1>1, <1>8, <3>1, <3>2, <4>1, AppendOnce
      <4>3. \A x \in Range(messages') : ~IsReply(x)
        BY <1>8, <3>1, <3>2, <4>2
      <4>4. QED
        BY <3>2, <4>2, <4>3 DEF Range
    <3>3. CASE name # "messages"
      <4>1. messages' = messages
        BY <1>8, <3>3
      <4>2. QED
        BY <3>1, <3>3, <4>1 DEF Range
    <3>4. QED
      BY <3>2, <3>3
  <2>5. ClientTypeOK' /\ NoneTwice'
    BY <1>1, <1>2, <1>8, <2>3, <2>4, KindsOfMessages DEF ContentInv, ClientTypeOK, NoneTwice
  <2>6. HandInv'
    BY <1>2, <2>3 DEF ContentInv, HandInv
  <2>7. \A k \in Spots \ {a, b} : \A x : IsAt(k, x)' <=> IsAt(k, x)
    <3>1. /\ inbox' = inbox
          /\ messages' = messages \/ "messages" \in {a[1], b[1]}
          /\ replies' = replies \/ "replies" \in {a[1], b[1]}
          /\ dropped' = dropped \/ "dropped" \in {a[1], b[1]}
          /\ \A u \in Tasks : hand'[u] = hand[u] \/ <<"hand", u>> \in {a, b}
          /\ \A u \in Tasks : delivered'[u] = delivered[u]
      BY <1>2, <1>4, <1>8, <2>1
    <3>2. QED
      BY <1>5, <2>2, <3>1, OthersStay
  <2>8. \A x : IsAt(b, x)' <=> IsAt(b, x) \/ x \in {m}
    <3>1. CASE name = "messages"
      BY <2>1, <2>4, <3>1, SpotNames, SpotNamesAfter
    <3>2. CASE name = "replies"
      BY <1>8, <2>1, <3>2, SpotNames, SpotNamesAfter
    <3>3. CASE name = "dropped"
      BY <1>8, <2>1, <3>3, SpotNames, SpotNamesAfter
    <3>4. QED
      BY <1>8, <3>1, <3>2, <3>3
  <2>9. Sorted'
    BY <1>3, <1>5, <2>2, <2>7, <2>8, MovesSorted
  <2>10. QED
    BY <2>5, <2>6, <2>9 DEF ContentInv
<1>9. QED
  BY <1>7, <1>8 DEF PartsWith, KeepReply, KeepMessage

(* The scan of next_event *)
LEMMA ScanContent ==
    ASSUME ContentInv, fetchLock' \in Seq(Tasks), NEW w \in Watchers,
           at[w] \in {"idle", "scanning"}, Scan(w)
    PROVE  ContentInv'
<1>1. w \in Tasks /\ UNCHANGED <<inbox, fetchLock, replies, hand, request, nextId, sent>>
  BY TaskKinds DEF Scan
<1>2. /\ messages \in Seq(InboxMessage) /\ IsInjective(messages)
      /\ \A x \in Range(messages) : ~IsReply(x) /\ x \in InboxMessage
      /\ Len(messages) \in Nat /\ DOMAIN messages = 1 .. Len(messages)
  <2>1. messages \in Seq(InboxMessage) /\ IsInjective(messages)
    BY DEF ContentInv, ClientTypeOK, NoneTwice
  <2>2. Len(messages) \in Nat /\ DOMAIN messages = 1 .. Len(messages)
    BY <2>1, LenProperties
  <2>3. \A i \in DOMAIN messages : messages[i] \in InboxMessage
    BY <2>1, <2>2, ElementOfSeq
  <2>4. QED
    BY <2>1, <2>2, <2>3 DEF ContentInv, ClientTypeOK, Range
<1>3. Sorted /\ sent' = sent
  BY <1>1 DEF ContentInv
<1>4. PICK a : a = <<"messages", Nil>>
  OBVIOUS
<1>5. a \in Spots
  BY <1>4, SpotNames
<1>6. CASE Goto(w, "taking") /\ UNCHANGED <<messages, delivered, dropped>>
  <2>1. /\ at' \in [Tasks -> Points] /\ at'[w] = "taking"
        /\ \A u \in Tasks \ {w} : at'[u] = at[u]
    BY <1>1, <1>6, GotoMoves DEF Points
  <2>2. request' \in [Callers -> 0 .. MaxCalls] /\ nextId' \in 0 .. MaxCalls
    BY <1>1 DEF ContentInv, ClientTypeOK
  <2>3. \A t \in Tasks : at'[t] = at[t] \/ ({at[t], at'[t]} \cap {"sorting", "deciding"} = {})
    BY <2>1
  <2>4. UNCHANGED <<inbox, messages, replies, dropped, hand, delivered, sent>>
    BY <1>1, <1>6
  <2>5. QED
    BY <2>1, <2>2, <2>3, <2>4, NothingMoves
<1>7. ASSUME NEW i \in DOMAIN messages, messages' = RemoveAt(messages, i),
             Return(w, messages[i]), UNCHANGED dropped
      PROVE  ContentInv'
  <2>1. PICK m : m = messages[i]
    OBVIOUS
  <2>2. m \in InboxMessage /\ m \in Range(messages)
    BY <1>2, <2>1 DEF Range
  <2>3. /\ messages' \in Seq(InboxMessage) /\ IsInjective(messages')
        /\ \A x : x \in Range(messages') <=> x \in Range(messages) /\ x # m
    BY <1>2, <1>7, <2>1, RemoveOnce
  <2>4. PICK b : b = <<"returned", w>>
    OBVIOUS
  <2>5. b \in Spots /\ a # b /\ \A x \in {m} : IsAt(a, x)
    BY <1>1, <1>4, <2>2, <2>4, SpotNames
  <2>6. m \notin Range(delivered[w])
    BY <1>3, <1>5, <2>4, <2>5, SpotNames DEF Sorted
  <2>7. /\ at' \in [Tasks -> Points] /\ at'[w] = "idle"
        /\ \A u \in Tasks \ {w} : at'[u] = at[u] /\ delivered'[u] = delivered[u]
        /\ delivered' \in [Tasks -> Seq(InboxMessage)]
        /\ \A u \in Tasks : IsInjective(delivered'[u])
        /\ \A x : x \in Range(delivered'[w]) <=> x \in Range(delivered[w]) \/ x = m
    BY <1>1, <1>7, <2>1, <2>2, <2>6, ReturnMoves
  <2>8. \A j \in DOMAIN messages' : ~IsReply(messages'[j])
    BY <1>2, <2>3 DEF Range
  <2>9. ClientTypeOK' /\ NoneTwice'
    BY <1>1, <1>7, <2>3, <2>7, <2>8 DEF ContentInv, ClientTypeOK, NoneTwice
  <2>10. HandInv'
    BY <1>1, <2>7 DEF ContentInv, HandInv
  <2>11. \A k \in Spots \ {a, b} : \A x : IsAt(k, x)' <=> IsAt(k, x)
    BY <1>1, <1>4, <1>5, <1>7, <2>4, <2>5, <2>7, OthersStay
  <2>12. /\ \A x : IsAt(a, x)' <=> IsAt(a, x) /\ x \notin {m}
         /\ \A x : IsAt(b, x)' <=> IsAt(b, x) \/ x \in {m}
    BY <1>4, <2>3, <2>4, <2>7, SpotNames, SpotNamesAfter
  <2>13. Sorted'
    BY <1>3, <1>5, <2>5, <2>11, <2>12, MovesSorted
  <2>14. QED
    BY <2>9, <2>10, <2>13 DEF ContentInv
<1>8. ASSUME NEW n \in DOMAIN messages,
             messages' = SubSeq(messages, n + 1, Len(messages)),
             dropped' = dropped \cup {messages[i] : i \in 1 .. n},
             Goto(w, "idle"), UNCHANGED delivered
      PROVE  ContentInv'
  <2>1. PICK lost : lost = {messages[i] : i \in 1 .. n}
    OBVIOUS
  <2>2. n \in 0 .. Len(messages) /\ 1 .. n \subseteq DOMAIN messages
    BY <1>2
  <2>3. lost \subseteq Range(messages) /\ \A m : m \in lost <=> \E i \in 1 .. n : messages[i] = m
    BY <2>1, <2>2 DEF Range
  <2>4. /\ messages' \in Seq(InboxMessage) /\ IsInjective(messages')
        /\ \A x : x \in Range(messages') <=> x \in Range(messages) /\ x \notin lost
    <3>1. /\ messages' \in Seq(InboxMessage) /\ IsInjective(messages')
          /\ \A x : x \in Range(messages') <=>
                       x \in Range(messages) /\ \A i \in 1 .. n : messages[i] # x
      BY <1>2, <1>8, <2>2, SuffixOnce
    <3>2. QED
      BY <2>3, <3>1
  <2>5. PICK b : b = <<"dropped", Nil>>
    OBVIOUS
  <2>6. b \in Spots /\ a # b /\ \A x \in lost : IsAt(a, x)
    BY <1>4, <2>3, <2>5, SpotNames
  <2>7. /\ at' \in [Tasks -> Points] /\ at'[w] = "idle"
        /\ \A u \in Tasks \ {w} : at'[u] = at[u]
    BY <1>1, <1>8, GotoMoves DEF Points
  <2>8. \A j \in DOMAIN messages' : ~IsReply(messages'[j])
    BY <1>2, <2>4 DEF Range
  <2>9. dropped' = dropped \cup lost /\ dropped' \subseteq InboxMessage
    BY <1>2, <1>8, <2>1, <2>3 DEF ContentInv, ClientTypeOK
  <2>10. ClientTypeOK' /\ NoneTwice'
    BY <1>1, <1>8, <2>4, <2>7, <2>8, <2>9 DEF ContentInv, ClientTypeOK, NoneTwice
  <2>11. HandInv'
    BY <1>1, <2>7 DEF ContentInv, HandInv
  <2>12. \A k \in Spots \ {a, b} : \A x : IsAt(k, x)' <=> IsAt(k, x)
    BY <1>1, <1>4, <1>5, <1>8, <2>5, <2>6, OthersStay
  <2>13. /\ \A x : IsAt(a, x)' <=> IsAt(a, x) /\ x \notin lost
         /\ \A x : IsAt(b, x)' <=> IsAt(b, x) \/ x \in lost
    BY <1>4, <2>4, <2>5, <2>9, SpotNames, SpotNamesAfter
  <2>14. Sorted'
    BY <1>3, <1>5, <2>6, <2>12, <2>13, MovesSorted
  <2>15. QED
    BY <2>10, <2>11, <2>14 DEF ContentInv
<1>9. QED
  BY <1>6, <1>7, <1>8 DEF Scan

LEMMA PointMoves ==
    ASSUME ContentInv, fetchLock' \in Seq(Tasks), NEW t \in Tasks, NEW p \in Points, Goto(t, p),
           p \notin {"sorting", "deciding"}, at[t] \notin {"sorting", "deciding"},
           UNCHANGED <<inbox, messages, replies, dropped, hand, delivered, sent>>,
           request' \in [Callers -> 0 .. MaxCalls], nextId' \in 0 .. MaxCalls
    PROVE  ContentInv'
<1>1. /\ at' \in [Tasks -> Points] /\ at'[t] = p
      /\ \A u \in Tasks \ {t} : at'[u] = at[u]
  BY GotoMoves
<1>2. \A u \in Tasks : at'[u] = at[u] \/ ({at[u], at'[u]} \cap {"sorting", "deciding"} = {})
  BY <1>1
<1>3. QED
  BY <1>1, <1>2, NothingMoves

LEMMA InHand ==
    ASSUME ContentInv, NEW t \in Tasks
    PROVE  /\ at[t] \in {"sorting", "deciding"} <=> hand[t] # Nil
           /\ at[t] = "deciding" => ~IsReply(hand[t])
  BY DEF ContentInv, HandInv

LEMMA CallerContent ==
    ASSUME ContentInv, fetchLock' \in Seq(Tasks), NEW c \in Callers, Call(c) \/ CallerStep(c)
    PROVE  ContentInv'
<1>1. c \in Tasks /\ request \in [Callers -> 0 .. MaxCalls] /\ nextId \in 0 .. MaxCalls
  BY TaskKinds DEF ContentInv, ClientTypeOK
<1>2. CASE Call(c)
  <2>1. nextId' \in 0 .. MaxCalls /\ request' \in [Callers -> 0 .. MaxCalls]
    BY <1>1, <1>2, ClientBounds DEF Call
  <2>2. QED
    BY <1>1, <1>2, <2>1, PointMoves DEF Call, router, Points
<1>3. CASE LookForReply(c)
  <2>1. CASE TakeReply(c)
    BY <1>3, <2>1, TakeReplyContent DEF LookForReply
  <2>2. CASE Goto(c, "locking") /\ UNCHANGED <<replies, delivered>>
    BY <1>1, <1>3, <2>2, PointMoves DEF LookForReply, Points
  <2>3. QED
    BY <1>3, <2>1, <2>2 DEF LookForReply, AskForLock
<1>4. CASE LookAgain(c)
  <2>1. CASE TakeReply(c)
    BY <1>4, <2>1, TakeReplyContent DEF LookAgain
  <2>2. CASE Goto(c, "fetching") /\ UNCHANGED <<replies, delivered>>
    BY <1>1, <1>4, <2>2, PointMoves DEF LookAgain, Points
  <2>3. QED
    BY <1>4, <2>1, <2>2 DEF LookAgain
<1>5. CASE SortForCall(c)
  <2>1. PICK m : m = hand[c]
    OBVIOUS
  <2>2. m # Nil
    BY <1>1, <1>5, <2>1, InHand DEF SortForCall
  <2>3. PartsWith(c, m)
    BY <1>5, <2>1 DEF SortForCall, PartsWith, Away
  <2>4. QED
    BY <1>1, <1>5, <2>1, <2>2, <2>3, PartsWithContent DEF SortForCall
<1>6. QED
  BY <1>1, <1>2, <1>3, <1>4, <1>5, FetchContent DEF CallerStep

LEMMA LookForMessageContent ==
    ASSUME ContentInv, fetchLock' \in Seq(Tasks), NEW t \in Watchers \cup Drainers,
           at[t] \in {"idle", "taking"}, LookForMessage(t)
    PROVE  ContentInv'
<1>1. /\ t \in Tasks /\ UNCHANGED <<inbox, replies, request, nextId, sent, dropped>>
      /\ request' \in [Callers -> 0 .. MaxCalls] /\ nextId' \in 0 .. MaxCalls
  BY TaskKinds DEF LookForMessage, ContentInv, ClientTypeOK
<1>2. CASE TakeMessage(t)
  BY <1>1, <1>2, TakeMessageContent
<1>3. CASE AskForLock(t) /\ UNCHANGED <<messages, hand, delivered>>
  BY <1>1, <1>3, PointMoves DEF AskForLock, Points
<1>4. QED
  BY <1>2, <1>3 DEF LookForMessage

LEMMA MessageContent ==
    ASSUME ContentInv, fetchLock' \in Seq(Tasks), NEW t \in Watchers \cup Drainers, MessageStep(t)
    PROVE  ContentInv'
<1>1. /\ t \in Tasks
      /\ request \in [Callers -> 0 .. MaxCalls] /\ nextId \in 0 .. MaxCalls
      /\ hand \in [Tasks -> InboxMessage \cup {Nil}]
  BY TaskKinds DEF ContentInv, ClientTypeOK
<1>2. CASE LookForMessageAgain(t)
  <2>1. at[t] = "locking" /\ UNCHANGED <<inbox, replies, request, nextId, sent, dropped>>
    BY <1>2 DEF LookForMessageAgain
  <2>2. CASE TakeMessage(t)
    BY <2>1, <2>2, TakeMessageContent
  <2>3. CASE Goto(t, "fetching") /\ UNCHANGED <<messages, hand, delivered>>
    BY <1>1, <2>1, <2>3, PointMoves DEF Points
  <2>4. QED
    BY <1>2, <2>2, <2>3 DEF LookForMessageAgain
<1>3. CASE SortForMessage(t)
  <2>1. PICK m : m = hand[t]
    OBVIOUS
  <2>2. /\ at[t] = "sorting" /\ UNCHANGED <<inbox, messages, request, nextId, sent, dropped>>
        /\ m # Nil
    BY <1>1, <1>3, <2>1, InHand DEF SortForMessage
  <2>3. CASE /\ IsReply(m) /\ KeepReply(m) /\ Goto(t, "locking")
             /\ hand' = [hand EXCEPT ![t] = Nil] /\ UNCHANGED delivered
    <3>1. PartsWith(t, m)
      BY <2>2, <2>3 DEF PartsWith, Away
    <3>2. QED
      BY <1>1, <2>1, <2>2, <2>3, <3>1, PartsWithContent
  <2>4. CASE Return(t, m) /\ hand' = [hand EXCEPT ![t] = Nil] /\ UNCHANGED replies
    <3>1. PartsWith(t, m)
      BY <2>2, <2>4 DEF PartsWith
    <3>2. QED
      BY <1>1, <2>1, <2>2, <2>4, <3>1, PartsWithContent
  <2>5. CASE /\ Goto(t, "deciding") /\ hand' = [hand EXCEPT ![t] = m]
             /\ ~IsReply(m) /\ UNCHANGED <<replies, delivered>>
    <3>1. hand' = hand
      BY <1>1, <2>1, <2>5
    <3>2. /\ at' \in [Tasks -> Points] /\ at'[t] = "deciding"
          /\ \A u \in Tasks \ {t} : at'[u] = at[u]
      BY <1>1, <2>5, GotoMoves DEF Points
    <3>3. ClientTypeOK' /\ NoneTwice'
      BY <2>2, <2>5, <3>1, <3>2 DEF ContentInv, ClientTypeOK, NoneTwice
    <3>4. HandInv'
      BY <2>1, <2>2, <2>5, <3>1, <3>2 DEF ContentInv, HandInv
    <3>5. UNCHANGED <<inbox, messages, replies, dropped, delivered, sent>>
      BY <2>2, <2>5
    <3>6. \A k, x : IsAt(k, x)' <=> IsAt(k, x)
      BY <3>1, <3>5 DEF IsAt
    <3>7. Sorted'
      BY <3>5, <3>6 DEF ContentInv, Sorted
    <3>8. QED
      BY <3>3, <3>4, <3>7 DEF ContentInv
  <2>6. QED
    BY <1>3, <2>1, <2>3, <2>4, <2>5 DEF SortForMessage, Got
<1>4. QED
  BY <1>1, <1>2, <1>3, FetchContent DEF MessageStep

LEMMA DecideContent ==
    ASSUME ContentInv, fetchLock' \in Seq(Tasks), NEW w \in Watchers, Decide(w)
    PROVE  ContentInv'
<1>1. PICK m : m = hand[w]
  OBVIOUS
<1>2. w \in Tasks /\ m # Nil /\ ~IsReply(m)
  BY <1>1, TaskKinds, InHand DEF Decide
<1>3. PartsWith(w, m)
  BY <1>1, <1>2 DEF Decide, PartsWith, Away
<1>4. QED
  BY <1>1, <1>2, <1>3, PartsWithContent DEF Decide

LEMMA AbandonContent ==
    ASSUME ContentInv, fetchLock' \in Seq(Tasks), NEW t \in Tasks, Abandon(t)
    PROVE  ContentInv'
<1>1. PICK m : m = hand[t]
  OBVIOUS
<1>2. /\ hand' = [hand EXCEPT ![t] = Nil] /\ dropped' = dropped \cup ({m} \ {Nil})
      /\ Goto(t, "idle")
      /\ UNCHANGED <<inbox, replies, messages, request, nextId, sent, delivered>>
  BY <1>1 DEF Abandon
<1>3. CASE m = Nil
  <2>1. /\ hand' = hand /\ dropped' = dropped
        /\ request \in [Callers -> 0 .. MaxCalls] /\ nextId \in 0 .. MaxCalls
    BY <1>1, <1>2, <1>3 DEF ContentInv, ClientTypeOK
  <2>2. at[t] \notin {"sorting", "deciding"}
    BY <1>1, <1>3, InHand
  <2>3. QED
    BY <1>2, <2>1, <2>2, PointMoves DEF Points
<1>4. CASE m # Nil
  <2>1. dropped' = dropped \cup {m}
    BY <1>2, <1>4
  <2>2. PartsWith(t, m)
    BY <1>2, <2>1 DEF PartsWith, Away
  <2>3. QED
    BY <1>1, <1>2, <1>4, <2>2, PartsWithContent
<1>5. QED
  BY <1>3, <1>4

LEMMA StepContent == RouterInv' /\ ContentInv /\ [Next]_vars => ContentInv'
<1> SUFFICES ASSUME RouterInv', ContentInv, [Next]_vars PROVE ContentInv'
  OBVIOUS
<1>1. fetchLock' \in Seq(Tasks)
  BY DEF RouterInv, Types
<1>2. CASE UNCHANGED vars
  BY <1>2 DEF vars, router, ContentInv, ClientTypeOK, NoneTwice, HandInv, Sorted, IsAt
<1>3. CASE \E c \in Callers : Call(c) \/ CallerStep(c)
  BY <1>1, <1>3, CallerContent
<1>4. CASE \E w \in Watchers : NextEvent(w) \/ WatcherStep(w)
  BY <1>1, <1>4, ScanContent, LookForMessageContent, MessageContent, DecideContent
     DEF NextEvent, WatcherStep, ScanAgain, SuperNextMessage
<1>5. CASE \E d \in Drainers : NextMessage(d) \/ MessageStep(d)
  BY <1>1, <1>5, LookForMessageContent, MessageContent DEF NextMessage
<1>6. CASE \E t \in Tasks : Abandon(t)
  BY <1>1, <1>6, AbandonContent
<1>7. QED
  BY <1>2, <1>3, <1>4, <1>5, <1>6, KernelContent DEF Next

LEMMA InitContent == Init => ContentInv
<1> SUFFICES ASSUME Init PROVE ContentInv
  OBVIOUS
<1>1. /\ inbox = <<>> /\ messages = <<>> /\ \A t \in Tasks : delivered[t] = <<>>
      /\ sent = {} /\ dropped = {} /\ replies = {} /\ \A t \in Tasks : hand[t] = Nil
  BY DEF Init
<1>2. ClientTypeOK
  BY EmptySeq, ClientBounds DEF Init, ClientTypeOK, Points
<1>3. NoneTwice
  BY <1>1 DEF NoneTwice, IsInjective
<1>4. HandInv
  BY DEF Init, HandInv
<1>5. Range(<<>>) = {}
  BY DEF Range
<1>6. \A k \in Spots : \A m : ~IsAt(k, m)
  BY <1>1, <1>5 DEF Spots, IsAt
<1>7. Sorted
  BY <1>1, <1>6 DEF Sorted
<1>8. QED
  BY <1>2, <1>3, <1>4, <1>7 DEF ContentInv

LEMMA RouterInvariant == Spec => []RouterInv
<1>1. Init => RouterInv
  <2> SUFFICES ASSUME Init PROVE RouterInv
    OBVIOUS
  <2>1. Types
    BY EmptySeq DEF Init, Types, Points
  <2>2. FetcherHoldsLock /\ NobodyFetchesPastItsReply
    BY DEF Init, FetcherHoldsLock, NobodyFetchesPastItsReply
  <2>3. QED
    BY <2>1, <2>2 DEF RouterInv
<1>2. QED
  BY <1>1, StepRouter, PTL DEF Spec

LEMMA ContentInvariant == Spec => []ContentInv
  BY InitContent, StepContent, RouterInvariant, PTL DEF Spec

(* Everything the generated client keeps has its type, with any number of  *)
(* tasks and whoever of them gives up; the cache of messages never holds a *)
(* reply.                                                                  *)
THEOREM ClientTypesCorrect == Spec => []ClientTypeOK
<1>1. ContentInv => ClientTypeOK
  BY DEF ContentInv
<1>2. QED
  BY <1>1, ContentInvariant, PTL

LEMMA OncePlace ==
    ASSUME NEW S, NEW s \in Seq(S), IsInjective(s), NEW m \in Range(s)
    PROVE  \E i : Occurrences(m, s) = {i}
  BY DEF Occurrences, IsInjective, Range

LEMMA NoPlace ==
    ASSUME NEW s, NEW m, m \notin Range(s)
    PROVE  Occurrences(m, s) = {}
  BY DEF Occurrences, Range

(* The router of the generated client neither loses nor doubles a message, *)
(* however its tasks interleave: what the kernel put in the inbox is in    *)
(* the inbox, in one of the caches, in the hands of one task or was        *)
(* returned by one function, once, or went with a decoding error or with a *)
(* dropped future ("must never discard messages", rust-mapping.md:207).    *)
THEOREM NoMessageIsLost == Spec => []NothingDiscarded
<1>1. ContentInv => NothingDiscarded
  <2> SUFFICES ASSUME ContentInv, NEW m \in sent
               PROVE  \E p \in Places(m) : Places(m) = {p}
    BY DEF NothingDiscarded
  <2>1. PICK k \in Spots : IsAt(k, m) /\ \A l \in Spots : IsAt(l, m) => l = k
    BY DEF ContentInv, Sorted
  <2>2. /\ m \in InboxMessage /\ m # Nil
        /\ inbox \in Seq(InboxMessage) /\ IsInjective(inbox)
        /\ messages \in Seq(InboxMessage) /\ IsInjective(messages)
        /\ \A t \in Tasks : delivered[t] \in Seq(InboxMessage) /\ IsInjective(delivered[t])
    BY NilIsNoMessage DEF ContentInv, ClientTypeOK, NoneTwice
  <2>3. PICK box, cache, kept, lost, hands, returned :
            /\ box = Occurrences(m, inbox) /\ cache = Occurrences(m, messages)
            /\ kept = replies \cap {m} /\ lost = dropped \cap {m}
            /\ hands = {t \in Tasks : hand[t] = m}
            /\ returned = UNION {Occurrences(m, delivered[t]) \X {t} : t \in Tasks}
    OBVIOUS
  <2>4. Places(m) = (box \X {"inbox"}) \cup (cache \X {"messages"}) \cup (kept \X {"replies"})
                       \cup (lost \X {"dropped"}) \cup (hands \X {"hand"}) \cup returned
    BY <2>3 DEF Places
  <2>5. /\ k # <<"inbox", Nil>> => box = {}
        /\ k # <<"messages", Nil>> => cache = {}
        /\ k # <<"replies", Nil>> => kept = {}
        /\ k # <<"dropped", Nil>> => lost = {}
        /\ \A t \in Tasks : k # <<"hand", t>> => t \notin hands
        /\ \A t \in Tasks : k # <<"returned", t>> => Occurrences(m, delivered[t]) = {}
    BY <2>1, <2>2, <2>3, SpotNames, NoPlace
  <2>6. CASE k = <<"inbox", Nil>>
    <3>1. PICK i : box = {i}
      BY <2>1, <2>2, <2>3, <2>6, SpotNames, OncePlace
    <3>2. cache = {} /\ kept = {} /\ lost = {} /\ hands = {} /\ returned = {}
      BY <2>3, <2>5, <2>6
    <3>3. Places(m) = {<<i, "inbox">>}
      BY <2>4, <3>1, <3>2
    <3>4. QED
      BY <3>3
  <2>7. CASE k = <<"messages", Nil>>
    <3>1. PICK i : cache = {i}
      BY <2>1, <2>2, <2>3, <2>7, SpotNames, OncePlace
    <3>2. box = {} /\ kept = {} /\ lost = {} /\ hands = {} /\ returned = {}
      BY <2>3, <2>5, <2>7
    <3>3. Places(m) = {<<i, "messages">>}
      BY <2>4, <3>1, <3>2
    <3>4. QED
      BY <3>3
  <2>8. CASE k = <<"replies", Nil>>
    <3>1. kept = {m}
      BY <2>1, <2>3, <2>8, SpotNames
    <3>2. box = {} /\ cache = {} /\ lost = {} /\ hands = {} /\ returned = {}
      BY <2>3, <2>5, <2>8
    <3>3. Places(m) = {<<m, "replies">>}
      BY <2>4, <3>1, <3>2
    <3>4. QED
      BY <3>3
  <2>9. CASE k = <<"dropped", Nil>>
    <3>1. lost = {m}
      BY <2>1, <2>3, <2>9, SpotNames
    <3>2. box = {} /\ cache = {} /\ kept = {} /\ hands = {} /\ returned = {}
      BY <2>3, <2>5, <2>9
    <3>3. Places(m) = {<<m, "dropped">>}
      BY <2>4, <3>1, <3>2
    <3>4. QED
      BY <3>3
  <2>10. ASSUME NEW t \in Tasks, k = <<"hand", t>>
         PROVE  \E p \in Places(m) : Places(m) = {p}
    <3>1. hands = {t}
      BY <2>1, <2>3, <2>5, <2>10, SpotNames
    <3>2. box = {} /\ cache = {} /\ kept = {} /\ lost = {} /\ returned = {}
      BY <2>3, <2>5, <2>10
    <3>3. Places(m) = {<<t, "hand">>}
      BY <2>4, <3>1, <3>2
    <3>4. QED
      BY <3>3
  <2>11. ASSUME NEW t \in Tasks, k = <<"returned", t>>
         PROVE  \E p \in Places(m) : Places(m) = {p}
    <3>1. PICK i : Occurrences(m, delivered[t]) = {i}
      BY <2>1, <2>2, <2>11, SpotNames, OncePlace
    <3>2. box = {} /\ cache = {} /\ kept = {} /\ lost = {} /\ hands = {}
      BY <2>3, <2>5, <2>11
    <3>3. returned = {<<i, t>>}
      <4>1. \A u \in Tasks : u # t => Occurrences(m, delivered[u]) = {}
        BY <2>5, <2>11
      <4>2. QED
        BY <2>3, <3>1, <4>1
    <3>4. Places(m) = {<<i, t>>}
      BY <2>4, <3>2, <3>3
    <3>5. QED
      BY <3>4
  <2>12. QED
    BY <2>6, <2>7, <2>8, <2>9, <2>10, <2>11 DEF Spots
<1>2. QED
  BY <1>1, ContentInvariant, PTL

-----------------------------------------------------------------------------
(***************************************************************************)
(* The order of the events of w, the only subscription of the process.     *)
(* They stand in line: the events that w's function returned are older     *)
(* than the one in its hands, that one is older than those in the cache,   *)
(* then come those in the hands of callers and those in the inbox.  Every  *)
(* step moves an event forwards, past stages that are empty.               *)
(***************************************************************************)
Line(w) ==
    <<Range(delivered[w]), {hand[w]} \ {Nil}, Range(messages),
      {hand[c] : c \in Callers} \ {Nil}, Range(inbox)>>
Stage(w, k) == {m \in Line(w)[k] : IsOwn(w, m)}

InLine(w) == \A k, l \in 1 .. 5 : k < l => \A x \in Stage(w, k), y \in Stage(w, l) : x.n < y.n
Rising(w, s) ==
    \A i, j \in DOMAIN s : i < j /\ IsOwn(w, s[i]) /\ IsOwn(w, s[j]) => s[i].n < s[j].n

Order(w) ==
    /\ InLine(w)
    /\ Rising(w, delivered[w]) /\ Rising(w, messages) /\ Rising(w, inbox)
    /\ \A m \in Range(delivered[w]) : IsOwn(w, m)
    /\ at[w] \in {"fetching", "sorting"} => Stage(w, 3) = {}

(* A caller does not have to decide whether a message is its own. *)
CallersNeverDecide == \A c \in Callers : at[c] # "deciding"

Alone(w) ==
    /\ w \in Watchers /\ Watchers = {w}
    /\ RouterInv /\ ContentInv /\ CallersNeverDecide /\ Order(w)

LEMMA StageNames ==
    \A w, m : /\ m \in Stage(w, 1) <=> m \in Range(delivered[w]) /\ IsOwn(w, m)
              /\ m \in Stage(w, 2) <=> m = hand[w] /\ m # Nil /\ IsOwn(w, m)
              /\ m \in Stage(w, 3) <=> m \in Range(messages) /\ IsOwn(w, m)
              /\ m \in Stage(w, 4) <=> m # Nil /\ IsOwn(w, m) /\ \E c \in Callers : m = hand[c]
              /\ m \in Stage(w, 5) <=> m \in Range(inbox) /\ IsOwn(w, m)
  BY DEF Stage, Line

LEMMA StageNamesAfter ==
    \A w, m : /\ m \in Stage(w, 1)' <=> m \in Range(delivered'[w]) /\ IsOwn(w, m)
              /\ m \in Stage(w, 2)' <=> m = hand'[w] /\ m # Nil /\ IsOwn(w, m)
              /\ m \in Stage(w, 3)' <=> m \in Range(messages') /\ IsOwn(w, m)
              /\ m \in Stage(w, 4)' <=> m # Nil /\ IsOwn(w, m) /\ \E c \in Callers : m = hand'[c]
              /\ m \in Stage(w, 5)' <=> m \in Range(inbox') /\ IsOwn(w, m)
  BY DEF Stage, Line

(* What each operation of the router leaves of a rising sequence *)
LEMMA RisingAppend ==
    ASSUME NEW w, NEW S, NEW s \in Seq(S), NEW x \in S, Rising(w, s),
           IsOwn(w, x) => \A m \in Range(s) : IsOwn(w, m) => m.n < x.n
    PROVE  /\ Rising(w, Append(s, x))
           /\ \A m : m \in Range(Append(s, x)) <=> m \in Range(s) \/ m = x
<1>1. PICK n, a : n = Len(s) /\ a = Append(s, x)
  OBVIOUS
<1>2. /\ n \in Nat /\ DOMAIN s = 1 .. n /\ DOMAIN a = 1 .. n + 1 /\ a[n + 1] = x
      /\ \A i \in 1 .. n : a[i] = s[i]
  BY <1>1, AppendProperties, LenProperties
<1>3. \A i \in 1 .. n + 1 : i \in 1 .. n \/ i = n + 1
  BY <1>2
<1>4. \A m : (\E i \in 1 .. n + 1 : a[i] = m) <=> (\E i \in 1 .. n : s[i] = m) \/ m = x
  <2>1. 1 .. n \subseteq 1 .. n + 1 /\ n + 1 \in 1 .. n + 1
    BY <1>2
  <2>2. QED
    BY <1>2, <1>3, <2>1
<1>5. ASSUME NEW i \in 1 .. n + 1, NEW j \in 1 .. n + 1, i < j, IsOwn(w, a[i]), IsOwn(w, a[j])
      PROVE  a[i].n < a[j].n
  <2>1. i \in 1 .. n /\ a[i] = s[i] /\ s[i] \in Range(s)
    BY <1>2, <1>5 DEF Range
  <2>2. CASE j \in 1 .. n
    BY <1>2, <1>5, <2>1, <2>2 DEF Rising
  <2>3. CASE j = n + 1
    BY <1>2, <1>5, <2>1, <2>3
  <2>4. QED
    BY <1>3, <2>2, <2>3
<1>6. QED
  BY <1>1, <1>2, <1>4, <1>5 DEF Rising, Range

LEMMA RisingSuffix ==
    ASSUME NEW w, NEW S, NEW s \in Seq(S), NEW n \in 0 .. Len(s), Rising(w, s)
    PROVE  LET r == SubSeq(s, n + 1, Len(s))
           IN  /\ Rising(w, r) /\ Range(r) \subseteq Range(s)
               /\ \A i \in 1 .. n : \A m \in Range(r) :
                     IsOwn(w, s[i]) /\ IsOwn(w, m) => s[i].n < m.n
<1>1. PICK l, r : l = Len(s) /\ r = SubSeq(s, n + 1, l)
  OBVIOUS
<1>2. l \in Nat /\ n \in Nat /\ n <= l /\ DOMAIN s = 1 .. l
  BY <1>1, LenProperties
<1>3. /\ r \in Seq(S) /\ Len(r) = l - n
      /\ \A i \in 1 .. l - n : r[i] = s[i + n]
  BY <1>1, SuffixElements
<1>4. DOMAIN r = 1 .. l - n
  BY <1>3, LenProperties
<1>5. \A i \in 1 .. l - n : i + n \in 1 .. l /\ \A j \in 1 .. n : j < i + n /\ j \in 1 .. l
  BY <1>2
<1>6. \A i, j \in 1 .. l - n : i < j => i + n < j + n
  BY <1>2
<1>7. Rising(w, r)
  BY <1>2, <1>3, <1>4, <1>5, <1>6 DEF Rising
<1>8. Range(r) \subseteq Range(s)
  BY <1>2, <1>3, <1>4, <1>5 DEF Range
<1>9. ASSUME NEW i \in 1 .. n, NEW m \in Range(r), IsOwn(w, s[i]), IsOwn(w, m)
      PROVE  s[i].n < m.n
  <2>1. PICK j \in 1 .. l - n : m = s[j + n]
    BY <1>3, <1>4 DEF Range
  <2>2. i \in 1 .. l /\ j + n \in 1 .. l /\ i < j + n
    BY <1>5
  <2>3. QED
    BY <1>2, <1>9, <2>1, <2>2 DEF Rising
<1>10. QED
  BY <1>1, <1>7, <1>8, <1>9

LEMMA RisingTail ==
    ASSUME NEW w, NEW S, NEW s \in Seq(S), s # <<>>, Rising(w, s)
    PROVE  /\ Rising(w, Tail(s)) /\ Range(Tail(s)) \subseteq Range(s)
           /\ Head(s) \in S /\ Head(s) \in Range(s)
           /\ IsOwn(w, Head(s)) => \A m \in Range(Tail(s)) : IsOwn(w, m) => Head(s).n < m.n
<1>1. Len(s) \in Nat \ {0} /\ DOMAIN s = 1 .. Len(s)
  BY EmptySeq, LenProperties
<1>2. Tail(s) = SubSeq(s, 1 + 1, Len(s))
  BY TailIsSubSeq
<1>3. 1 \in 0 .. Len(s) /\ 1 \in 1 .. 1 /\ 1 \in DOMAIN s /\ Head(s) = s[1]
  BY <1>1
<1>4. /\ Rising(w, Tail(s)) /\ Range(Tail(s)) \subseteq Range(s)
      /\ \A i \in 1 .. 1 : \A m \in Range(Tail(s)) :
            IsOwn(w, s[i]) /\ IsOwn(w, m) => s[i].n < m.n
  BY <1>2, <1>3, RisingSuffix
<1>5. Head(s) \in S /\ Head(s) \in Range(s)
  BY <1>3, HeadTailProperties DEF Range
<1>6. QED
  BY <1>3, <1>4, <1>5

LEMMA RisingRemove ==
    ASSUME NEW w, NEW S, NEW s \in Seq(S), NEW n \in DOMAIN s, Rising(w, s),
           IsOwn(w, s[n]), \A i \in DOMAIN s : IsOwn(w, s[i]) => n <= i
    PROVE  LET r == RemoveAt(s, n)
           IN  /\ Rising(w, r) /\ Range(r) \subseteq Range(s)
               /\ \A m \in Range(r) : IsOwn(w, m) => s[n].n < m.n
<1>1. PICK l, r : l = Len(s) /\ r = RemoveAt(s, n)
  OBVIOUS
<1>2. l \in Nat /\ n \in 1 .. l /\ DOMAIN s = 1 .. l
  BY <1>1, LenProperties
<1>3. /\ r \in Seq(S) /\ Len(r) = l - 1
      /\ \A i \in 1 .. l - 1 : r[i] = IF i < n THEN s[i] ELSE s[i + 1]
  BY <1>1, RemovedElements
<1>4. DOMAIN r = 1 .. l - 1
  BY <1>3, LenProperties
<1>5. ASSUME NEW i \in 1 .. l - 1
      PROVE  \E k \in 1 .. l : k # n /\ k = (IF i < n THEN i ELSE i + 1) /\ r[i] = s[k]
  BY <1>2, <1>3
<1>6. Rising(w, r)
  <2>1. ASSUME NEW i \in 1 .. l - 1, NEW j \in 1 .. l - 1, i < j, IsOwn(w, r[i]), IsOwn(w, r[j])
        PROVE  r[i].n < r[j].n
    <3>1. PICK a \in 1 .. l : a = (IF i < n THEN i ELSE i + 1) /\ r[i] = s[a]
      BY <1>5
    <3>2. PICK b \in 1 .. l : b = (IF j < n THEN j ELSE j + 1) /\ r[j] = s[b]
      BY <1>5
    <3>3. a < b
      BY <1>2, <2>1, <3>1, <3>2
    <3>4. QED
      BY <1>2, <2>1, <3>1, <3>2, <3>3 DEF Rising
  <2>2. QED
    BY <1>4, <2>1 DEF Rising
<1>7. ASSUME NEW m \in Range(r) PROVE m \in Range(s) /\ (IsOwn(w, m) => s[n].n < m.n)
  <2>1. PICK i \in 1 .. l - 1 : m = r[i]
    BY <1>4 DEF Range
  <2>2. PICK k \in 1 .. l : k # n /\ m = s[k]
    BY <1>5, <2>1
  <2>3. IsOwn(w, m) => n < k
    BY <1>2, <2>2
  <2>4. QED
    BY <1>2, <2>2, <2>3 DEF Rising, Range
<1>8. QED
  BY <1>1, <1>6, <1>7

(* Events move forwards, or nowhere. *)
LEMMA MovesOrder ==
    ASSUME NEW w, Order(w), NEW a \in 1 .. 5, NEW b \in 1 .. 5, b < a,
           NEW X \in SUBSET Stage(w, a),
           \A k \in 1 .. 5 : k # b => Stage(w, k)' \subseteq Stage(w, k),
           Stage(w, b)' \subseteq Stage(w, b) \cup X,
           \A k \in 1 .. 5 : b < k /\ k < a => Stage(w, k)' = {},
           \A x \in X : \A y \in Stage(w, a)' : x.n < y.n,
           Rising(w, messages'), Rising(w, inbox'), Rising(w, delivered'[w]),
           \A m \in Range(delivered'[w]) : IsOwn(w, m),
           at'[w] \in {"fetching", "sorting"} => Stage(w, 3)' = {}
    PROVE  Order(w)'
<1>1. ASSUME NEW k \in 1 .. 5, NEW l \in 1 .. 5, k < l,
             NEW x \in Stage(w, k)', NEW y \in Stage(w, l)'
      PROVE  x.n < y.n
  <2>1. CASE x \in Stage(w, k) /\ y \in Stage(w, l)
    BY <1>1, <2>1 DEF Order, InLine
  <2>2. CASE k = b /\ x \in X
    <3>1. l = a \/ a < l
      BY <1>1, <2>2
    <3>2. CASE l = a
      BY <1>1, <2>2, <3>2
    <3>3. CASE a < l
      <4>1. y \in Stage(w, l) /\ x \in Stage(w, a)
        BY <1>1, <2>2
      <4>2. QED
        BY <3>3, <4>1 DEF Order, InLine
    <3>4. QED
      BY <3>1, <3>2, <3>3
  <2>3. CASE l = b /\ y \in X
    <3>1. k < a /\ x \in Stage(w, k) /\ y \in Stage(w, a)
      BY <1>1, <2>3
    <3>2. QED
      BY <3>1 DEF Order, InLine
  <2>4. QED
    BY <1>1, <2>1, <2>2, <2>3
<1>2. InLine(w)'
  BY <1>1 DEF InLine
<1>3. QED
  BY <1>2 DEF Order

LEMMA ShrinksOrder ==
    ASSUME NEW w, Order(w), \A k \in 1 .. 5 : Stage(w, k)' \subseteq Stage(w, k),
           Rising(w, messages'), Rising(w, inbox'), delivered'[w] = delivered[w],
           at'[w] = at[w] \/ at'[w] \notin {"fetching", "sorting"} \/ Stage(w, 3)' = {}
    PROVE  Order(w)'
<1>1. InLine(w)'
  BY DEF Order, InLine
<1>2. at'[w] \in {"fetching", "sorting"} => Stage(w, 3)' = {}
  BY DEF Order
<1>3. QED
  BY <1>1, <1>2 DEF Order

LEMMA FiveStages ==
    ASSUME NEW w, NEW K \in SUBSET (1 .. 5),
           1 \in K => \A m \in Range(delivered'[w]) : IsOwn(w, m) => m \in Range(delivered[w]),
           2 \in K => (hand'[w] # Nil => hand'[w] = hand[w]),
           3 \in K => \A m \in Range(messages') : IsOwn(w, m) => m \in Range(messages),
           4 \in K => \A c \in Callers : hand'[c] # Nil => hand'[c] = hand[c],
           5 \in K => Range(inbox') \subseteq Range(inbox)
    PROVE  \A k \in K : Stage(w, k)' \subseteq Stage(w, k)
<1>1. ASSUME NEW k \in K, NEW m \in Stage(w, k)' PROVE m \in Stage(w, k)
  <2>1. CASE k = 1
    BY <1>1, <2>1, StageNames, StageNamesAfter
  <2>2. CASE k = 2
    BY <1>1, <2>2, StageNames, StageNamesAfter
  <2>3. CASE k = 3
    BY <1>1, <2>3, StageNames, StageNamesAfter
  <2>4. CASE k = 4
    BY <1>1, <2>4, StageNames, StageNamesAfter
  <2>5. CASE k = 5
    BY <1>1, <2>5, StageNames, StageNamesAfter
  <2>6. k \in {1, 2, 3, 4, 5}
    <3>1. k \in 1 .. 5
      BY <1>1
    <3>2. QED
      BY <3>1
  <2>7. QED
    BY <2>1, <2>2, <2>3, <2>4, <2>5, <2>6
<1>2. QED
  BY <1>1

LEMMA AloneTypes ==
    ASSUME NEW w, Alone(w)
    PROVE  /\ w \in Tasks \ (Callers \cup Drainers) /\ Tasks = Callers \cup {w} \cup Drainers
           /\ inbox \in Seq(InboxMessage) /\ messages \in Seq(InboxMessage)
           /\ delivered \in [Tasks -> Seq(InboxMessage)]
           /\ hand \in [Tasks -> InboxMessage \cup {Nil}]
           /\ at \in [Tasks -> Points]
           /\ Nil \notin InboxMessage
  BY TaskKinds, NilIsNoMessage DEF Alone, Tasks, ContentInv, ClientTypeOK

(* What stands in line was sent. *)
LEMMA StagesWereSent ==
    ASSUME NEW w, Alone(w), NEW k \in 1 .. 5, NEW m \in Stage(w, k)
    PROVE  m \in sent /\ IsOwn(w, m)
<1>1. IsOwn(w, m)
  BY DEF Stage
<1>2. \A x : (\E s \in Spots : IsAt(s, x)) => x \in sent
  BY DEF Alone, ContentInv, Sorted
<1>3. w \in Tasks /\ Callers \subseteq Tasks
  BY AloneTypes, TaskKinds
<1>4. \E s \in Spots : IsAt(s, m)
  <2>1. CASE k = 1
    BY <1>3, <2>1, StageNames, SpotNames
  <2>2. CASE k = 2
    BY <1>3, <2>2, StageNames, SpotNames
  <2>3. CASE k = 3
    BY <2>3, StageNames, SpotNames
  <2>4. CASE k = 4
    BY <1>3, <2>4, StageNames, SpotNames
  <2>5. CASE k = 5
    BY <2>5, StageNames, SpotNames
  <2>6. QED
    BY <2>1, <2>2, <2>3, <2>4, <2>5
<1>5. QED
  BY <1>1, <1>2, <1>4

(* The kernel's steps: an event is published after those before it. *)
LEMMA ArriveOrder ==
    ASSUME NEW w, Alone(w), NEW m \in InboxMessage, Arrive(m),
           IsOwn(w, m) => \A x \in sent : IsOwn(w, x) => x.n < m.n
    PROVE  Order(w)'
<1>1. /\ inbox' = Append(inbox, m) /\ inbox \in Seq(InboxMessage)
      /\ UNCHANGED <<messages, at, hand, delivered>>
      /\ Order(w)
  BY AloneTypes DEF Arrive, Alone
<1>2. /\ Rising(w, inbox')
      /\ \A x : x \in Range(inbox') <=> x \in Range(inbox) \/ x = m
  <2>1. \A x \in Range(inbox) : IsOwn(w, x) => x \in sent
    BY StagesWereSent, StageNames
  <2>2. Rising(w, inbox)
    BY <1>1 DEF Order
  <2>3. QED
    BY <1>1, <2>1, <2>2, RisingAppend
<1>3. \A k \in 1 .. 4 : Stage(w, k)' \subseteq Stage(w, k)
  <2>1. PICK K : K = 1 .. 4
    OBVIOUS
  <2>2. K \in SUBSET (1 .. 5) /\ 5 \notin K
    BY <2>1
  <2>3. \A k \in K : Stage(w, k)' \subseteq Stage(w, k)
    BY <1>1, <2>2, FiveStages
  <2>4. QED
    BY <2>1, <2>3
<1>4. \A x \in Stage(w, 5)' : IsOwn(w, x) /\ (x \in Stage(w, 5) \/ x = m)
  BY <1>2, StageNames, StageNamesAfter
<1>5. ASSUME NEW k \in 1 .. 5, NEW l \in 1 .. 5, k < l,
             NEW x \in Stage(w, k)', NEW y \in Stage(w, l)'
      PROVE  x.n < y.n
  <2>1. x \in Stage(w, k) /\ (y \in Stage(w, l) \/ (y = m /\ IsOwn(w, m)))
    BY <1>3, <1>4, <1>5
  <2>2. CASE y \in Stage(w, l)
    BY <1>1, <1>5, <2>1, <2>2 DEF Order, InLine
  <2>3. CASE y = m /\ IsOwn(w, m)
    BY <2>1, <2>3, StagesWereSent
  <2>4. QED
    BY <2>1, <2>2, <2>3
<1>6. InLine(w)'
  BY <1>5 DEF InLine
<1>7. at'[w] \in {"fetching", "sorting"} => Stage(w, 3)' = {}
  BY <1>1, <1>3 DEF Order
<1>8. QED
  BY <1>1, <1>2, <1>6, <1>7 DEF Order

LEMMA KernelOrder ==
    ASSUME NEW w, Alone(w), Answer \/ Publish \/ Announce
    PROVE  Order(w)'
<1>1. ASSUME NEW id \in 1 .. nextId, Arrive(Reply(id)) PROVE Order(w)'
  <2>1. Reply(id) \in InboxMessage
    BY ClientBounds DEF Alone, ContentInv, ClientTypeOK, InboxMessage
  <2>2. ~IsOwn(w, Reply(id))
    BY DEF IsOwn, Reply
  <2>3. QED
    BY <1>1, <2>1, <2>2, ArriveOrder
<1>2. ASSUME NEW v \in Watchers, NEW n \in 1 .. MaxEvents, NEW good \in BOOLEAN,
             \A m \in sent : IsOwn(v, m) => m.n < n,
             Arrive(Event(v, n, good))
      PROVE  Order(w)'
  <2>1. v = w
    BY DEF Alone
  <2>2. Event(v, n, good) \in InboxMessage /\ Event(v, n, good).n = n
    BY DEF InboxMessage, Event
  <2>3. QED
    BY <1>2, <2>1, <2>2, ArriveOrder
<1>3. ASSUME NEW n \in 1 .. MaxNews, Arrive(News(n)) PROVE Order(w)'
  <2>1. News(n) \in InboxMessage
    BY DEF InboxMessage
  <2>2. ~IsOwn(w, News(n))
    BY DEF IsOwn, News
  <2>3. QED
    BY <1>3, <2>1, <2>2, ArriveOrder
<1>4. QED
  BY <1>1, <1>2, <1>3 DEF Answer, Publish, Announce

(* A step that leaves inbox, cache and hands alone *)
LEMMA QuietOrder ==
    ASSUME NEW w, Alone(w), UNCHANGED <<inbox, messages, hand>>, delivered'[w] = delivered[w],
           at'[w] = at[w] \/ at'[w] \notin {"fetching", "sorting"} \/ messages = <<>>
    PROVE  Order(w)'
<1>1. /\ Order(w) /\ Rising(w, messages') /\ Rising(w, inbox')
  BY DEF Alone, Order
<1>2. \A k \in 1 .. 5 : Stage(w, k)' \subseteq Stage(w, k)
  BY FiveStages
<1>3. messages = <<>> => Stage(w, 3)' = {}
  <2>1. messages = <<>> => Range(messages') = {}
    BY DEF Range
  <2>2. QED
    BY <2>1, StageNamesAfter
<1>4. QED
  BY <1>1, <1>2, <1>3, ShrinksOrder

(* What another task does leaves w where it is. *)
LEMMA OthersAreElsewhere ==
    ASSUME NEW w, Alone(w), NEW t \in Tasks \ {w}
    PROVE  /\ \A p : Goto(t, p) => at'[w] = at[w]
           /\ \A m : Return(t, m) => at'[w] = at[w] /\ delivered'[w] = delivered[w]
  BY AloneTypes DEF Goto, Return

(* Who fetches or sorts is the only one, and no other caller has anything  *)
(* in its hands.                                                           *)
LEMMA TheFetcherIsAlone ==
    ASSUME NEW w, Alone(w), NEW t \in Tasks, at[t] \in {"fetching", "sorting"}
    PROVE  /\ \A c \in Callers \ {t} : hand[c] = Nil
           /\ t # w => at[w] \notin {"fetching", "sorting"}
<1>1. Holds(t) /\ RouterInv
  BY DEF Alone, RouterInv, FetcherHoldsLock
<1>2. \A u \in Tasks \ {t} : at[u] \notin {"fetching", "sorting"}
  BY <1>1, OnlyTheHolderFetches
<1>3. \A c \in Callers \ {t} : hand[c] = Nil
  BY <1>2, TaskKinds DEF Alone, CallersNeverDecide, ContentInv, HandInv
<1>4. QED
  BY <1>2, <1>3, AloneTypes

LEMMA FetchOrder ==
    ASSUME NEW w, Alone(w), NEW t \in Tasks, Fetch(t)
    PROVE  Order(w)'
<1>1. /\ at[t] = "fetching" /\ inbox # <<>> /\ inbox' = Tail(inbox) /\ Goto(t, "sorting")
      /\ hand' = [hand EXCEPT ![t] = Head(inbox)]
      /\ UNCHANGED <<messages, delivered>>
  BY DEF Fetch
<1>2. PICK m : m = Head(inbox)
  OBVIOUS
<1>3. /\ Order(w) /\ Rising(w, inbox) /\ Rising(w, messages') /\ Rising(w, delivered'[w])
      /\ \A x \in Range(delivered'[w]) : IsOwn(w, x)
  BY <1>1 DEF Alone, Order
<1>4. /\ Rising(w, inbox') /\ Range(inbox') \subseteq Range(inbox) /\ m \in Range(inbox)
      /\ IsOwn(w, m) => \A x \in Range(inbox') : IsOwn(w, x) => m.n < x.n
  BY <1>1, <1>2, <1>3, AloneTypes, RisingTail
<1>5. /\ hand'[t] = m /\ \A u \in Tasks \ {t} : hand'[u] = hand[u]
      /\ w \in Tasks /\ Callers \subseteq Tasks /\ w \notin Callers
  BY <1>1, <1>2, AloneTypes, TaskKinds
<1>6. /\ \A c \in Callers \ {t} : hand'[c] = Nil
      /\ t # w => at'[w] = at[w] /\ at[w] \notin {"fetching", "sorting"}
  BY <1>1, <1>5, TheFetcherIsAlone, OthersAreElsewhere
<1>7. PICK X : X = {x \in {m} : IsOwn(w, x)}
  OBVIOUS
<1>8. X \in SUBSET Stage(w, 5) /\ \A x \in X : \A y \in Stage(w, 5)' : x.n < y.n
  BY <1>4, <1>7, StageNames, StageNamesAfter
<1>9. CASE t = w
  <2>1. Stage(w, 3)' = {}
    <3>1. Stage(w, 3) = {}
      BY <1>1, <1>3, <1>9 DEF Order
    <3>2. QED
      BY <1>1, <3>1, StageNames, StageNamesAfter
  <2>2. Stage(w, 4)' = {}
    BY <1>5, <1>6, <1>9, StageNamesAfter
  <2>3. /\ Stage(w, 1)' \subseteq Stage(w, 1)
        /\ Stage(w, 5)' \subseteq Stage(w, 5)
        /\ Stage(w, 2)' \subseteq Stage(w, 2) \cup X
    BY <1>1, <1>4, <1>5, <1>7, <1>9, StageNames, StageNamesAfter
  <2>4. /\ \A k \in 1 .. 5 : k # 2 => Stage(w, k)' \subseteq Stage(w, k)
        /\ \A k \in 1 .. 5 : 2 < k /\ k < 5 => Stage(w, k)' = {}
    <3>1. \A k \in 1 .. 5 : k \in {1, 2, 3, 4, 5} /\ (2 < k /\ k < 5 => k \in {3, 4})
      OBVIOUS
    <3>2. QED
      BY <2>1, <2>2, <2>3, <3>1
  <2>5. QED
    BY <1>3, <1>4, <1>8, <2>1, <2>3, <2>4, MovesOrder
<1>10. CASE t \in Callers
  <2>1. /\ Stage(w, 1)' \subseteq Stage(w, 1) /\ Stage(w, 2)' \subseteq Stage(w, 2)
        /\ Stage(w, 3)' \subseteq Stage(w, 3) /\ Stage(w, 5)' \subseteq Stage(w, 5)
    BY <1>1, <1>4, <1>5, <1>10, StageNames, StageNamesAfter
  <2>2. Stage(w, 4)' \subseteq Stage(w, 4) \cup X
    BY <1>5, <1>6, <1>7, StageNamesAfter
  <2>3. /\ \A k \in 1 .. 5 : k # 4 => Stage(w, k)' \subseteq Stage(w, k)
        /\ \A k \in 1 .. 5 : ~(4 < k /\ k < 5)
    <3>1. \A k \in 1 .. 5 : k \in {1, 2, 3, 4, 5} /\ ~(4 < k /\ k < 5)
      OBVIOUS
    <3>2. QED
      BY <2>1, <3>1
  <2>4. at'[w] \notin {"fetching", "sorting"}
    BY <1>5, <1>6, <1>10
  <2>5. QED
    BY <1>3, <1>4, <1>8, <2>2, <2>3, <2>4, MovesOrder
<1>11. CASE t \notin Callers \cup {w}
  <2>1. \A k \in 1 .. 5 : Stage(w, k)' \subseteq Stage(w, k)
    BY <1>1, <1>4, <1>5, <1>11, FiveStages
  <2>2. QED
    BY <1>1, <1>3, <1>4, <1>6, <1>11, <2>1, ShrinksOrder
<1>12. QED
  BY <1>9, <1>10, <1>11

(* wait_for_reply sorts: an event goes to the end of the cache. *)
LEMMA SortForCallOrder ==
    ASSUME NEW w, Alone(w), NEW c \in Callers, SortForCall(c)
    PROVE  Order(w)'
<1>1. PICK m : m = hand[c]
  OBVIOUS
<1>2. /\ at[c] = "sorting" /\ hand' = [hand EXCEPT ![c] = Nil] /\ inbox' = inbox
      /\ Order(w) /\ c \in Tasks \ {w} /\ w \in Tasks /\ Callers \subseteq Tasks
  BY AloneTypes, TaskKinds DEF SortForCall, Alone
<1>3. hand'[c] = Nil /\ \A u \in Tasks \ {c} : hand'[u] = hand[u]
  BY <1>2, AloneTypes
<1>4. /\ at'[w] = at[w] /\ delivered'[w] = delivered[w]
      /\ messages' = messages \/ KeepMessage(m)
  BY <1>1, <1>2, OthersAreElsewhere DEF SortForCall
<1>5. /\ at'[w] \notin {"fetching", "sorting"}
      /\ \A u \in Callers : hand'[u] = Nil
  BY <1>2, <1>3, <1>4, TheFetcherIsAlone
<1>6. /\ Rising(w, inbox') /\ Rising(w, messages) /\ Rising(w, delivered'[w])
      /\ \A x \in Range(delivered'[w]) : IsOwn(w, x)
  BY <1>2, <1>4 DEF Order
<1>7. CASE messages' = messages
  <2>1. \A k \in 1 .. 5 : Stage(w, k)' \subseteq Stage(w, k)
    BY <1>2, <1>3, <1>4, <1>5, <1>7, FiveStages
  <2>2. QED
    BY <1>2, <1>4, <1>6, <1>7, <2>1, ShrinksOrder
<1>8. CASE messages' = Append(messages, m)
  <2>1. m \in InboxMessage
    BY <1>1, <1>2, NilIsNoMessage DEF Alone, ContentInv, ClientTypeOK, HandInv
  <2>2. m # Nil
    BY <2>1, NilIsNoMessage
  <2>3. PICK X : X = {x \in {m} : IsOwn(w, x)}
    OBVIOUS
  <2>4. X \in SUBSET Stage(w, 4)
    BY <1>1, <2>2, <2>3, StageNames
  <2>5. IsOwn(w, m) => \A x \in Range(messages) : IsOwn(w, x) => x.n < m.n
    BY <1>2, <2>3, <2>4, StageNames DEF Order, InLine
  <2>6. /\ Rising(w, messages')
        /\ \A x : x \in Range(messages') <=> x \in Range(messages) \/ x = m
    BY <1>6, <1>8, <2>1, <2>5, AloneTypes, RisingAppend
  <2>7. Stage(w, 4)' = {}
    BY <1>5, StageNamesAfter
  <2>8. Stage(w, 3)' \subseteq Stage(w, 3) \cup X
    BY <2>3, <2>6, StageNames, StageNamesAfter
  <2>9. /\ Stage(w, 1)' \subseteq Stage(w, 1) /\ Stage(w, 2)' \subseteq Stage(w, 2)
        /\ Stage(w, 5)' \subseteq Stage(w, 5)
    BY <1>2, <1>3, <1>4, StageNames, StageNamesAfter
  <2>10. /\ \A k \in 1 .. 5 : k # 3 => Stage(w, k)' \subseteq Stage(w, k)
         /\ \A k \in 1 .. 5 : ~(3 < k /\ k < 4)
    <3>1. \A k \in 1 .. 5 : k \in {1, 2, 3, 4, 5} /\ ~(3 < k /\ k < 4)
      OBVIOUS
    <3>2. QED
      BY <2>7, <2>9, <3>1
  <2>11. QED
    BY <1>2, <1>5, <1>6, <2>4, <2>6, <2>7, <2>8, <2>10, MovesOrder
<1>9. QED
  BY <1>4, <1>7, <1>8 DEF KeepMessage
LEMMA StageNumbers ==
    /\ \A k \in 1 .. 5 : k \in {1, 2, 3, 4, 5}
    /\ \A k \in 1 .. 5 : /\ 1 < k /\ k < 3 => k = 2
                         /\ ~(1 < k /\ k < 2) /\ ~(2 < k /\ k < 3)
  OBVIOUS

(* The scan takes the first event of w, or loses it with all before it. *)
LEMMA ScanOrder ==
    ASSUME NEW w, Alone(w), at[w] \in {"idle", "scanning"}, Scan(w)
    PROVE  Order(w)'
<1>1. /\ UNCHANGED <<inbox, hand>> /\ Order(w) /\ w \in Tasks
      /\ messages \in Seq(InboxMessage) /\ hand[w] = Nil
  BY AloneTypes, InHand DEF Scan, Alone
<1>2. /\ Rising(w, inbox') /\ Rising(w, messages) /\ Rising(w, delivered[w])
      /\ \A x \in Range(delivered[w]) : IsOwn(w, x)
  BY <1>1 DEF Order
<1>3. \A p \in Points : Goto(w, p) => at'[w] = p
  BY AloneTypes DEF Goto
<1>4. CASE Goto(w, "taking") /\ UNCHANGED <<messages, delivered>>
  BY <1>1, <1>3, <1>4, QuietOrder DEF Points
<1>5. ASSUME NEW n \in DOMAIN messages, IsOwn(w, messages[n]),
             \A i \in DOMAIN messages : IsOwn(w, messages[i]) => n <= i,
             messages' = RemoveAt(messages, n), Return(w, messages[n])
      PROVE  Order(w)'
  <2>1. PICK m : m = messages[n]
    OBVIOUS
  <2>2. m \in InboxMessage /\ m \in Range(messages) /\ IsOwn(w, m)
    BY <1>1, <1>5, <2>1, LenProperties DEF Range
  <2>3. /\ Rising(w, messages') /\ Range(messages') \subseteq Range(messages)
        /\ \A x \in Range(messages') : IsOwn(w, x) => m.n < x.n
    BY <1>1, <1>2, <1>5, <2>1, RisingRemove
  <2>4. delivered'[w] = Append(delivered[w], m) /\ at'[w] = "idle"
    BY <1>1, <1>3, <1>5, <2>1, AloneTypes DEF Return, Points
  <2>5. m \in Stage(w, 3)
    BY <2>2, StageNames
  <2>6. \A x \in Range(delivered[w]) : IsOwn(w, x) => x.n < m.n
    BY <1>1, <2>5, StageNames DEF Order, InLine
  <2>7. /\ Rising(w, delivered'[w])
        /\ \A x : x \in Range(delivered'[w]) <=> x \in Range(delivered[w]) \/ x = m
    <3>1. PICK s : s = delivered[w]
      OBVIOUS
    <3>2. s \in Seq(InboxMessage) /\ Rising(w, s)
      BY <1>1, <1>2, <3>1, AloneTypes
    <3>3. /\ Rising(w, Append(s, m))
          /\ \A x : x \in Range(Append(s, m)) <=> x \in Range(s) \/ x = m
      BY <2>2, <2>6, <3>1, <3>2, RisingAppend
    <3>4. QED
      BY <2>4, <3>1, <3>3
  <2>8. Stage(w, 2)' = {}
    BY <1>1, StageNamesAfter
  <2>9. Stage(w, 1)' \subseteq Stage(w, 1) \cup {m}
    BY <2>7, StageNames, StageNamesAfter
  <2>10. /\ Stage(w, 3)' \subseteq Stage(w, 3) /\ Stage(w, 4)' \subseteq Stage(w, 4)
         /\ Stage(w, 5)' \subseteq Stage(w, 5)
    BY <1>1, <2>3, StageNames, StageNamesAfter
  <2>11. /\ \A k \in 1 .. 5 : k # 1 => Stage(w, k)' \subseteq Stage(w, k)
         /\ \A k \in 1 .. 5 : 1 < k /\ k < 3 => Stage(w, k)' = {}
    BY <2>8, <2>10, StageNumbers
  <2>12. /\ {m} \in SUBSET Stage(w, 3)
         /\ \A x \in {m} : \A y \in Stage(w, 3)' : x.n < y.n
    BY <2>3, <2>5, StageNamesAfter
  <2>13. \A x \in Range(delivered'[w]) : IsOwn(w, x)
    BY <1>2, <2>2, <2>7
  <2>14. /\ Order(w) /\ Rising(w, messages') /\ Rising(w, inbox') /\ Rising(w, delivered'[w])
         /\ at'[w] \in {"fetching", "sorting"} => Stage(w, 3)' = {}
         /\ 3 \in 1 .. 5 /\ 1 \in 1 .. 5 /\ 1 < 3
    BY <1>1, <1>2, <2>3, <2>4, <2>7
  <2>15. PICK X : X = {m}
    OBVIOUS
  <2>16. /\ X \in SUBSET Stage(w, 3) /\ Stage(w, 1)' \subseteq Stage(w, 1) \cup X
         /\ \A x \in X : \A y \in Stage(w, 3)' : x.n < y.n
    BY <2>9, <2>12, <2>15
  <2>17. PICK a, b : a = 3 /\ b = 1
    OBVIOUS
  <2>18. /\ a \in 1 .. 5 /\ b \in 1 .. 5 /\ b < a
         /\ X \in SUBSET Stage(w, a)
         /\ \A k \in 1 .. 5 : k # b => Stage(w, k)' \subseteq Stage(w, k)
         /\ Stage(w, b)' \subseteq Stage(w, b) \cup X
         /\ \A k \in 1 .. 5 : b < k /\ k < a => Stage(w, k)' = {}
         /\ \A x \in X : \A y \in Stage(w, a)' : x.n < y.n
    BY <2>11, <2>16, <2>17
  <2>19. QED
    BY <2>13, <2>14, <2>18, MovesOrder
<1>6. ASSUME NEW n \in DOMAIN messages, Goto(w, "idle"), UNCHANGED delivered,
             messages' = SubSeq(messages, n + 1, Len(messages))
      PROVE  Order(w)'
  <2>1. n \in 0 .. Len(messages)
    BY <1>1, <1>6, LenProperties
  <2>2. Rising(w, messages') /\ Range(messages') \subseteq Range(messages)
    BY <1>1, <1>2, <1>6, <2>1, RisingSuffix
  <2>3. \A k \in 1 .. 5 : Stage(w, k)' \subseteq Stage(w, k)
    BY <1>1, <1>6, <2>2, FiveStages
  <2>4. at'[w] = "idle"
    BY <1>3, <1>6 DEF Points
  <2>5. QED
    BY <1>1, <1>2, <1>6, <2>2, <2>3, <2>4, ShrinksOrder
<1>7. QED
  BY <1>4, <1>5, <1>6 DEF Scan

(* The first message of the cache goes to a drainer, or into w's hands. *)
LEMMA TakeMessageOrder ==
    ASSUME NEW w, Alone(w), NEW t \in {w} \cup Drainers, TakeMessage(t), UNCHANGED inbox
    PROVE  Order(w)'
<1>1. PICK m : m = Head(messages)
  OBVIOUS
<1>2. /\ messages # <<>> /\ messages' = Tail(messages) /\ Got(t, m)
      /\ Order(w) /\ t \in Tasks /\ Callers \subseteq Tasks /\ t \notin Callers /\ w \in Tasks
  BY <1>1, AloneTypes, TaskKinds DEF TakeMessage, Alone
<1>3. /\ Rising(w, inbox') /\ Rising(w, messages) /\ Rising(w, delivered[w])
      /\ \A x \in Range(delivered[w]) : IsOwn(w, x)
  BY <1>2 DEF Order
<1>4. /\ Rising(w, messages') /\ Range(messages') \subseteq Range(messages)
      /\ m \in Range(messages)
      /\ IsOwn(w, m) => \A x \in Range(messages') : IsOwn(w, x) => m.n < x.n
  BY <1>1, <1>2, <1>3, AloneTypes, RisingTail
<1>5. CASE t \in Drainers /\ Return(t, m) /\ hand' = [hand EXCEPT ![t] = Nil]
  <2>1. t # w
    BY <1>5, AloneTypes
  <2>2. at'[w] = at[w] /\ delivered'[w] = delivered[w]
    BY <1>2, <1>5, <2>1, OthersAreElsewhere
  <2>3. hand'[w] = hand[w] /\ \A c \in Callers : hand'[c] = hand[c]
    BY <1>2, <1>5, <2>1, AloneTypes
  <2>4. \A k \in 1 .. 5 : Stage(w, k)' \subseteq Stage(w, k)
    BY <1>4, <2>2, <2>3, FiveStages
  <2>5. QED
    BY <1>2, <1>3, <1>4, <2>2, <2>4, ShrinksOrder
<1>6. CASE /\ t \in Watchers /\ Goto(t, "deciding") /\ hand' = [hand EXCEPT ![t] = m]
           /\ UNCHANGED delivered
  <2>1. t = w
    BY <1>6 DEF Alone
  <2>2. at'[w] = "deciding" /\ hand'[w] = m /\ \A c \in Callers : hand'[c] = hand[c]
    BY <1>2, <1>6, <2>1, AloneTypes DEF Goto
  <2>3. PICK X : X = {x \in {m} : IsOwn(w, x)}
    OBVIOUS
  <2>4. X \in SUBSET Stage(w, 3) /\ \A x \in X : \A y \in Stage(w, 3)' : x.n < y.n
    BY <1>4, <2>3, StageNames, StageNamesAfter
  <2>5. /\ Stage(w, 1)' \subseteq Stage(w, 1) /\ Stage(w, 3)' \subseteq Stage(w, 3)
        /\ Stage(w, 4)' \subseteq Stage(w, 4) /\ Stage(w, 5)' \subseteq Stage(w, 5)
    BY <1>4, <1>6, <2>2, StageNames, StageNamesAfter
  <2>6. Stage(w, 2)' \subseteq Stage(w, 2) \cup X
    BY <2>2, <2>3, StageNamesAfter
  <2>7. /\ \A k \in 1 .. 5 : k # 2 => Stage(w, k)' \subseteq Stage(w, k)
        /\ \A k \in 1 .. 5 : ~(2 < k /\ k < 3)
    BY <2>5, StageNumbers
  <2>8. /\ Order(w) /\ Rising(w, messages') /\ Rising(w, inbox') /\ Rising(w, delivered'[w])
        /\ \A x \in Range(delivered'[w]) : IsOwn(w, x)
        /\ at'[w] \in {"fetching", "sorting"} => Stage(w, 3)' = {}
        /\ 3 \in 1 .. 5 /\ 2 \in 1 .. 5 /\ 2 < 3
    BY <1>2, <1>3, <1>4, <1>6, <2>2
  <2>9. QED
    BY <2>4, <2>6, <2>7, <2>8, MovesOrder
<1>7. QED
  BY <1>2, <1>5, <1>6 DEF Got

LEMMA LookForMessageOrder ==
    ASSUME NEW w, Alone(w), NEW t \in {w} \cup Drainers,
           LookForMessage(t) \/ LookForMessageAgain(t)
    PROVE  Order(w)'
<1>1. UNCHANGED inbox /\ t \in Tasks /\ w \in Tasks
  BY AloneTypes, TaskKinds DEF LookForMessage, LookForMessageAgain
<1>2. CASE TakeMessage(t)
  BY <1>1, <1>2, TakeMessageOrder
<1>3. ASSUME messages = <<>>, UNCHANGED <<messages, hand, delivered>>
      PROVE  Order(w)'
  BY <1>1, <1>3, QuietOrder
<1>4. QED
  BY <1>2, <1>3 DEF LookForMessage, LookForMessageAgain

LEMMA SortForMessageOrder ==
    ASSUME NEW w, Alone(w), NEW t \in {w} \cup Drainers, SortForMessage(t)
    PROVE  Order(w)'
<1>1. /\ UNCHANGED <<inbox, messages>> /\ Order(w) /\ at[t] = "sorting"
      /\ t \in Tasks /\ w \in Tasks /\ Callers \subseteq Tasks /\ t \notin Callers
  BY AloneTypes, TaskKinds DEF SortForMessage, Alone
<1>2. Rising(w, messages') /\ Rising(w, inbox')
  BY <1>1 DEF Order
<1>3. hand' = [hand EXCEPT ![t] = Nil] \/ hand' = [hand EXCEPT ![t] = hand[t]]
  BY DEF SortForMessage, Got
<1>4. hand'[t] \in {hand[t], Nil} /\ \A u \in Tasks \ {t} : hand'[u] = hand[u]
  BY <1>1, <1>3, AloneTypes
<1>5. at'[w] = at[w] \/ at'[w] \notin {"fetching", "sorting"}
  BY AloneTypes DEF SortForMessage, Got, Return, Goto
<1>6. delivered'[w] = delivered[w]
  <2>1. CASE t = w
    BY <2>1, AloneTypes DEF SortForMessage, Got
  <2>2. CASE t # w
    BY <1>1, <2>2, AloneTypes, OthersAreElsewhere DEF SortForMessage, Got
  <2>3. QED
    BY <2>1, <2>2
<1>7. \A k \in 1 .. 5 : Stage(w, k)' \subseteq Stage(w, k)
  BY <1>1, <1>4, <1>6, FiveStages
<1>8. QED
  BY <1>1, <1>2, <1>5, <1>6, <1>7, ShrinksOrder

LEMMA AbandonOrder ==
    ASSUME NEW w, Alone(w), NEW t \in Tasks, Abandon(t)
    PROVE  Order(w)'
<1>1. /\ UNCHANGED <<inbox, messages, delivered>> /\ Order(w)
      /\ hand' = [hand EXCEPT ![t] = Nil] /\ Goto(t, "idle")
      /\ w \in Tasks /\ Callers \subseteq Tasks
  BY AloneTypes, TaskKinds DEF Abandon, Alone
<1>2. Rising(w, messages') /\ Rising(w, inbox')
  BY <1>1 DEF Order
<1>3. \A u \in Tasks : hand'[u] # Nil => hand'[u] = hand[u]
  BY <1>1, AloneTypes
<1>4. at'[w] = at[w] \/ at'[w] \notin {"fetching", "sorting"}
  BY <1>1, AloneTypes DEF Goto
<1>5. \A k \in 1 .. 5 : Stage(w, k)' \subseteq Stage(w, k)
  BY <1>1, <1>3, FiveStages
<1>6. QED
  BY <1>1, <1>2, <1>4, <1>5, ShrinksOrder

(* next_event returns the event in its hands, or puts a message that is    *)
(* not its own to the end of the cache.                                    *)
LEMMA DecideOrder ==
    ASSUME NEW w, Alone(w), Decide(w)
    PROVE  Order(w)'
<1>1. PICK m : m = hand[w]
  OBVIOUS
<1>2. /\ UNCHANGED inbox /\ Order(w) /\ w \in Tasks /\ Callers \subseteq Tasks
      /\ w \notin Callers /\ hand' = [hand EXCEPT ![w] = Nil]
      /\ at[w] = "deciding"
  BY AloneTypes, TaskKinds DEF Decide, Alone
<1>3. m \in InboxMessage
  BY <1>1, <1>2, AloneTypes, InHand DEF Alone
<1>4. /\ Rising(w, inbox') /\ Rising(w, messages) /\ Rising(w, delivered[w])
      /\ \A x \in Range(delivered[w]) : IsOwn(w, x)
  BY <1>2 DEF Order
<1>5. hand'[w] = Nil /\ \A c \in Callers : hand'[c] = hand[c]
  BY <1>2, AloneTypes
<1>6. \A p \in Points : Goto(w, p) => at'[w] = p
  BY AloneTypes DEF Goto
<1>7. Stage(w, 2)' = {}
  BY <1>5, StageNamesAfter
<1>8. CASE IsOwn(w, m) /\ Return(w, m) /\ UNCHANGED messages
  <2>1. m \in Stage(w, 2)
    BY <1>1, <1>3, <1>8, NilIsNoMessage, StageNames
  <2>2. delivered'[w] = Append(delivered[w], m) /\ at'[w] = "idle"
    BY <1>2, <1>6, <1>8, AloneTypes DEF Return, Points
  <2>3. \A x \in Range(delivered[w]) : IsOwn(w, x) => x.n < m.n
    BY <1>2, <2>1, StageNames DEF Order, InLine
  <2>4. /\ Rising(w, delivered'[w])
        /\ \A x : x \in Range(delivered'[w]) <=> x \in Range(delivered[w]) \/ x = m
    <3>1. PICK s : s = delivered[w]
      OBVIOUS
    <3>2. s \in Seq(InboxMessage) /\ Rising(w, s)
      BY <1>2, <1>4, <3>1, AloneTypes
    <3>3. /\ Rising(w, Append(s, m))
          /\ \A x : x \in Range(Append(s, m)) <=> x \in Range(s) \/ x = m
      BY <1>3, <2>3, <3>1, <3>2, RisingAppend
    <3>4. QED
      BY <2>2, <3>1, <3>3
  <2>5. Stage(w, 1)' \subseteq Stage(w, 1) \cup {m}
    BY <2>4, StageNames, StageNamesAfter
  <2>6. /\ Stage(w, 3)' \subseteq Stage(w, 3) /\ Stage(w, 4)' \subseteq Stage(w, 4)
        /\ Stage(w, 5)' \subseteq Stage(w, 5)
    BY <1>2, <1>5, <1>8, StageNames, StageNamesAfter
  <2>7. /\ \A k \in 1 .. 5 : k # 1 => Stage(w, k)' \subseteq Stage(w, k)
        /\ \A k \in 1 .. 5 : ~(1 < k /\ k < 2)
    BY <1>7, <2>6, StageNumbers
  <2>8. /\ {m} \in SUBSET Stage(w, 2)
        /\ \A x \in {m} : \A y \in Stage(w, 2)' : x.n < y.n
    BY <1>7, <2>1
  <2>9. Rising(w, messages') /\ \A x \in Range(delivered'[w]) : IsOwn(w, x)
    BY <1>4, <1>8, <2>4
  <2>10. /\ Order(w) /\ Rising(w, inbox') /\ Rising(w, delivered'[w])
         /\ at'[w] \in {"fetching", "sorting"} => Stage(w, 3)' = {}
         /\ 2 \in 1 .. 5 /\ 1 \in 1 .. 5 /\ 1 < 2
    BY <1>2, <1>4, <2>2, <2>4
  <2>11. PICK X : X = {m}
    OBVIOUS
  <2>12. /\ X \in SUBSET Stage(w, 2) /\ Stage(w, 1)' \subseteq Stage(w, 1) \cup X
         /\ \A x \in X : \A y \in Stage(w, 2)' : x.n < y.n
    BY <2>5, <2>8, <2>11
  <2>13. QED
    BY <2>7, <2>9, <2>10, <2>12, MovesOrder
<1>9. CASE Goto(w, "idle") /\ UNCHANGED <<messages, delivered>>
  <2>1. \A k \in 1 .. 5 : Stage(w, k)' \subseteq Stage(w, k)
    BY <1>2, <1>5, <1>9, FiveStages
  <2>2. at'[w] = "idle" /\ Rising(w, messages')
    BY <1>4, <1>6, <1>9 DEF Points
  <2>3. QED
    BY <1>2, <1>4, <1>9, <2>1, <2>2, ShrinksOrder
<1>10. CASE ~IsOwn(w, m) /\ KeepMessage(m) /\ Goto(w, "scanning") /\ UNCHANGED delivered
  <2>1. messages' = Append(messages, m) /\ at'[w] = "scanning"
    BY <1>6, <1>10 DEF KeepMessage, Points
  <2>2. /\ Rising(w, messages')
        /\ \A x : x \in Range(messages') <=> x \in Range(messages) \/ x = m
    BY <1>3, <1>4, <1>10, <2>1, AloneTypes, RisingAppend
  <2>3. \A x \in Range(messages') : IsOwn(w, x) => x \in Range(messages)
    BY <1>10, <2>2
  <2>4. \A k \in 1 .. 5 : Stage(w, k)' \subseteq Stage(w, k)
    BY <1>2, <1>5, <1>10, <2>3, FiveStages
  <2>5. QED
    BY <1>2, <1>4, <1>10, <2>1, <2>2, <2>4, ShrinksOrder
<1>11. QED
  BY <1>1, <1>8, <1>9, <1>10 DEF Decide

LEMMA CallerOrder ==
    ASSUME NEW w, Alone(w), NEW c \in Callers, Call(c) \/ CallerStep(c)
    PROVE  Order(w)'
<1>1. c \in Tasks \ {w}
  BY AloneTypes, TaskKinds
<1>2. CASE Call(c) \/ LookForReply(c) \/ LookAgain(c)
  <2>1. UNCHANGED <<inbox, messages, hand>>
    BY <1>2 DEF Call, LookForReply, LookAgain, router
  <2>2. (\E p : Goto(c, p)) /\ (UNCHANGED delivered \/ \E m : Return(c, m))
    BY <1>2 DEF Call, LookForReply, LookAgain, TakeReply, AskForLock, Return
  <2>3. at'[w] = at[w] /\ delivered'[w] = delivered[w]
    BY <1>1, <2>2, OthersAreElsewhere
  <2>4. QED
    BY <2>1, <2>3, QuietOrder
<1>3. CASE Fetch(c) \/ SortForCall(c)
  BY <1>1, <1>3, FetchOrder, SortForCallOrder
<1>4. QED
  BY <1>2, <1>3 DEF CallerStep

LEMMA StepOrder ==
    ASSUME NEW w \in Watchers, Watchers = {w}
    PROVE  RouterInv /\ ContentInv /\ CallersNeverDecide /\ Order(w) /\ [Next]_vars => Order(w)'
<1> SUFFICES ASSUME RouterInv, ContentInv, CallersNeverDecide, Order(w), [Next]_vars
             PROVE  Order(w)'
  OBVIOUS
<1>1. Alone(w)
  BY DEF Alone
<1>2. CASE UNCHANGED vars
  BY <1>1, <1>2, QuietOrder DEF vars, router
<1>3. CASE \E c \in Callers : Call(c) \/ CallerStep(c)
  BY <1>1, <1>3, CallerOrder
<1>4. CASE NextEvent(w) \/ WatcherStep(w)
  <2>1. w \in Tasks /\ w \in {w} \cup Drainers
    BY <1>1, AloneTypes
  <2>2. QED
    BY <1>1, <1>4, <2>1, ScanOrder, LookForMessageOrder, FetchOrder, SortForMessageOrder, DecideOrder
       DEF NextEvent, WatcherStep, ScanAgain, SuperNextMessage, MessageStep
<1>5. CASE \E d \in Drainers : NextMessage(d) \/ MessageStep(d)
  BY <1>1, <1>5, TaskKinds, LookForMessageOrder, FetchOrder, SortForMessageOrder
     DEF NextMessage, MessageStep
<1>6. CASE \E t \in Tasks : Abandon(t)
  BY <1>1, <1>6, AbandonOrder
<1>7. QED
  BY <1>1, <1>2, <1>3, <1>4, <1>5, <1>6, KernelOrder DEF Next

LEMMA StepCallers == ContentInv /\ CallersNeverDecide /\ [Next]_vars => CallersNeverDecide'
<1> SUFFICES ASSUME ContentInv, CallersNeverDecide, [Next]_vars, NEW c \in Callers
             PROVE  at'[c] # "deciding"
  BY DEF CallersNeverDecide
<1>1. c \in Tasks /\ at \in [Tasks -> Points] /\ at[c] # "deciding" /\ c \notin Watchers
  BY TaskKinds DEF ContentInv, ClientTypeOK, CallersNeverDecide
<1>2. \A t, p : Goto(t, p) /\ (p = "deciding" => t \in Watchers) => at'[c] # "deciding"
  BY <1>1 DEF Goto
<1>3. CASE UNCHANGED at
  BY <1>1, <1>3
<1>4. CASE \E t, p : Goto(t, p) /\ (p = "deciding" => t \in Watchers)
  BY <1>2, <1>4
<1>5. \A t, m : Got(t, m) => \E p : Goto(t, p) /\ (p = "deciding" => t \in Watchers)
  BY DEF Got, Return
<1>6. \A t : LookForMessage(t) => \E p : Goto(t, p) /\ (p = "deciding" => t \in Watchers)
  BY <1>5 DEF LookForMessage, TakeMessage, AskForLock
<1>7. \A t : MessageStep(t) => \E p : Goto(t, p) /\ (p = "deciding" => t \in Watchers)
  BY <1>5 DEF MessageStep, LookForMessageAgain, Fetch, SortForMessage, TakeMessage
<1>8. \A t : Call(t) \/ CallerStep(t) => \E p : Goto(t, p) /\ (p = "deciding" => t \in Watchers)
  BY DEF Call, CallerStep, LookForReply, LookAgain, Fetch, SortForCall, TakeReply, AskForLock, Return
<1>9. \A w : Scan(w) \/ Decide(w) => \E p : Goto(w, p) /\ (p = "deciding" => w \in Watchers)
  BY DEF Scan, Decide, Return
<1>10. \A t : Abandon(t) => \E p : Goto(t, p) /\ (p = "deciding" => t \in Watchers)
  BY DEF Abandon
<1>11. Answer \/ Publish \/ Announce \/ UNCHANGED vars => UNCHANGED at
  BY DEF Answer, Publish, Announce, Arrive, vars
<1>12. QED
  BY <1>3, <1>4, <1>6, <1>7, <1>8, <1>9, <1>10, <1>11
     DEF Next, NextEvent, WatcherStep, ScanAgain, SuperNextMessage, NextMessage

LEMMA InitOrder == ASSUME NEW w \in Watchers PROVE Init => Order(w) /\ CallersNeverDecide
<1> SUFFICES ASSUME Init PROVE Order(w) /\ CallersNeverDecide
  OBVIOUS
<1>1. /\ inbox = <<>> /\ messages = <<>> /\ delivered[w] = <<>> /\ at[w] = "idle"
      /\ \A t \in Tasks : hand[t] = Nil /\ at[t] = "idle"
      /\ w \in Tasks /\ Callers \subseteq Tasks
  BY TaskKinds DEF Init
<1>2. Range(<<>>) = {} /\ \A v : Rising(v, <<>>)
  BY DEF Range, Rising
<1>3. \A k \in {1, 2, 3, 4, 5} : Stage(w, k) = {}
  BY <1>1, <1>2, StageNames
<1>4. InLine(w)
  BY <1>3, StageNumbers DEF InLine
<1>5. CallersNeverDecide
  BY <1>1 DEF CallersNeverDecide
<1>6. QED
  BY <1>1, <1>2, <1>4, <1>5 DEF Order

(* A process with one subscription gets its events in the order in which   *)
(* they were published, whichever of its tasks fetched them, and whoever   *)
(* gives up or takes an event away in between.                             *)
THEOREM EventsComeInOrder ==
    ASSUME \A v, w \in Watchers : v = w
    PROVE  Spec => []EventsInOrder
<1>1. CASE Watchers = {}
  <2>1. EventsInOrder
    BY <1>1 DEF EventsInOrder
  <2>2. QED
    BY <2>1, PTL
<1>2. ASSUME NEW w \in Watchers PROVE Spec => []EventsInOrder
  <2>1. Watchers = {w}
    BY <1>2
  <2>2. Init => Order(w) /\ CallersNeverDecide
    BY InitOrder
  <2>3. RouterInv /\ ContentInv /\ CallersNeverDecide /\ Order(w) /\ [Next]_vars => Order(w)'
    BY <2>1, StepOrder
  <2>4. Order(w) => EventsInOrder
    <3>1. Order(w) => Rising(w, delivered[w]) /\ \A m \in Range(delivered[w]) : IsOwn(w, m)
      BY DEF Order
    <3>2. QED
      BY <2>1, <3>1 DEF EventsInOrder, Rising, Range
  <2>5. QED
    BY <2>2, <2>3, <2>4, StepCallers, RouterInvariant, ContentInvariant, PTL DEF Spec
<1>3. QED
  BY <1>1, <1>2
===============================================================================
