-------------------------- MODULE ActorLedgerProofs --------------------------
(***************************************************************************)
(* The actor runtime implements EventLedger, for every set of events and    *)
(* drains and every bound: no interleaving of drains, crash, stall, retry   *)
(* or cancel loses an accepted event, doubles it or lets one overtake it.   *)
(* The line of the ledger is inflight followed by pending.                  *)
(***************************************************************************)
EXTENDS ActorRuntimeProofs, FiniteSetTheorems

\* The front of a concatenation is its first part, the rest its second.
LEMMA SplitConcat ==
    ASSUME NEW s \in Seq(Event), NEW t \in Seq(Event)
    PROVE  /\ SubSeq(s \o t, 1, Len(s)) = s
           /\ SubSeq(s \o t, Len(s) + 1, Len(s \o t)) = t
<1>1. /\ s \o t \in Seq(Event) /\ Len(s \o t) = Len(s) + Len(t)
      /\ \A i \in 1..Len(s) + Len(t) :
            (s \o t)[i] = IF i <= Len(s) THEN s[i] ELSE t[i - Len(s)]
      /\ Len(s) \in Nat /\ Len(t) \in Nat
  BY ConcatProperties, LenProperties
<1>2. \A i \in 1..Len(s \o t) : (s \o t)[i] \in Event
  BY <1>1, ElementOfSeq
<1>3. /\ SubSeq(s \o t, 1, Len(s)) \in Seq(Event)
      /\ Len(SubSeq(s \o t, 1, Len(s))) = Len(s)
      /\ \A i \in 1..Len(s) : SubSeq(s \o t, 1, Len(s))[i] = (s \o t)[i]
  <2> DEFINE u == SubSeq(s \o t, 1, Len(s))
  <2>1. /\ u \in Seq(Event)
        /\ Len(u) = IF 1 <= Len(s) THEN Len(s) - 1 + 1 ELSE 0
        /\ \A i \in 1..Len(s) - 1 + 1 : u[i] = (s \o t)[1 + i - 1]
    <3>1. \A i \in 1..Len(s) : (s \o t)[i] \in Event
      BY <1>1, <1>2
    <3> QED
      BY <1>1, <3>1, SubSeqProperties
  <2> QED
    BY <1>1, <2>1
<1>4. /\ SubSeq(s \o t, Len(s) + 1, Len(s \o t)) \in Seq(Event)
      /\ Len(SubSeq(s \o t, Len(s) + 1, Len(s \o t))) = Len(t)
      /\ \A i \in 1..Len(t) :
            SubSeq(s \o t, Len(s) + 1, Len(s \o t))[i] = (s \o t)[Len(s) + i]
  <2> DEFINE m == Len(s) + 1
             n == Len(s) + Len(t)
             u == SubSeq(s \o t, m, n)
  <2>1. /\ u \in Seq(Event)
        /\ Len(u) = IF m <= n THEN n - m + 1 ELSE 0
        /\ \A i \in 1..n - m + 1 : u[i] = (s \o t)[m + i - 1]
    <3>1. \A i \in m..n : (s \o t)[i] \in Event
      BY <1>1, <1>2
    <3>2. m \in Int /\ n \in Int
      BY <1>1
    <3> QED
      BY <3>1, <3>2, SubSeqProperties
  <2>2. n - m + 1 = Len(t)
    BY <1>1
  <2>3. Len(u) = Len(t)
    BY <1>1, <2>1, <2>2
  <2>4. \A i \in 1..Len(t) : m + i - 1 = Len(s) + i
    BY <1>1
  <2> QED
    BY <1>1, <2>1, <2>2, <2>3, <2>4
<1>5. SubSeq(s \o t, 1, Len(s)) = s
  BY <1>1, <1>3, SeqEqual
<1>6. \A i \in 1..Len(t) : (s \o t)[Len(s) + i] = t[i]
  BY <1>1
<1>7. SubSeq(s \o t, Len(s) + 1, Len(s \o t)) = t
  BY <1>1, <1>4, <1>6, SeqEqual
<1> QED
  BY <1>5, <1>7

\* The elements of a sequence with its i-th removed.
LEMMA RemoveAtElements ==
    ASSUME NEW s \in Seq(Event), NEW i \in DOMAIN s
    PROVE  /\ RemoveAt(s, i) \in Seq(Event)
           /\ Len(RemoveAt(s, i)) = Len(s) - 1
           /\ \A j \in 1..Len(s) - 1 :
                 RemoveAt(s, i)[j] = IF j < i THEN s[j] ELSE s[j + 1]
<1> DEFINE u == SubSeq(s, 1, i - 1)
           v == SubSeq(s, i + 1, Len(s))
<1>1. /\ Len(s) \in Nat /\ i \in 1..Len(s)
      /\ \A j \in 1..Len(s) : s[j] \in Event
  BY LenProperties
<1>2. /\ u \in Seq(Event)
      /\ Len(u) = i - 1
      /\ \A j \in 1..i - 1 : u[j] = s[j]
  <2>1. 1 \in Int /\ i - 1 \in Int /\ \A j \in 1..i - 1 : s[j] \in Event
    BY <1>1
  <2>2. /\ u \in Seq(Event)
        /\ Len(u) = IF 1 <= i - 1 THEN i - 1 - 1 + 1 ELSE 0
        /\ \A j \in 1..i - 1 - 1 + 1 : u[j] = s[1 + j - 1]
    BY <2>1, SubSeqProperties
  <2>3. \A j \in 1..i - 1 : 1 + j - 1 = j
    OBVIOUS
  <2> QED
    BY <1>1, <2>2, <2>3
<1>3. /\ v \in Seq(Event)
      /\ Len(v) = Len(s) - i
      /\ \A j \in 1..Len(s) - i : v[j] = s[i + j]
  <2>1. i + 1 \in Int /\ Len(s) \in Int /\ \A j \in i + 1..Len(s) : s[j] \in Event
    BY <1>1
  <2>2. /\ v \in Seq(Event)
        /\ Len(v) = IF i + 1 <= Len(s) THEN Len(s) - (i + 1) + 1 ELSE 0
        /\ \A j \in 1..Len(s) - (i + 1) + 1 : v[j] = s[(i + 1) + j - 1]
    BY <2>1, SubSeqProperties
  <2>3. \A j \in 1..Len(s) - i : (i + 1) + j - 1 = i + j
    BY <1>1
  <2> QED
    BY <1>1, <2>2, <2>3
<1> HIDE DEF u, v
<1>4. /\ u \o v \in Seq(Event)
      /\ Len(u \o v) = Len(u) + Len(v)
      /\ \A j \in 1..Len(u) + Len(v) :
            (u \o v)[j] = IF j <= Len(u) THEN u[j] ELSE v[j - Len(u)]
  BY <1>2, <1>3, ConcatProperties
<1>5. RemoveAt(s, i) = u \o v
  BY DEF RemoveAt, u, v
<1>6. Len(u) + Len(v) = Len(s) - 1
  BY <1>1, <1>2, <1>3
<1>7. ASSUME NEW j \in 1..Len(s) - 1
      PROVE  (u \o v)[j] = IF j < i THEN s[j] ELSE s[j + 1]
  <2>1. CASE j < i
    BY <1>1, <1>2, <1>4, <1>6, <2>1
  <2>2. CASE ~(j < i)
    <3>1. j - Len(u) \in 1..Len(s) - i /\ i + (j - Len(u)) = j + 1
      BY <1>1, <1>2, <2>2
    <3>2. (u \o v)[j] = v[j - Len(u)]
      <4>1. j \in 1..Len(u) + Len(v)
        BY <1>6
      <4>2. ~(j <= Len(u))
        BY <1>1, <1>2, <2>2
      <4> QED
        BY <1>4, <4>1, <4>2
    <3>3. v[j - Len(u)] = s[i + (j - Len(u))]
      BY <1>3, <3>1
    <3> QED
      BY <2>2, <3>1, <3>2, <3>3
  <2> QED
    BY <2>1, <2>2
<1> QED
  BY <1>4, <1>5, <1>6, <1>7

\* Removing an element of the second part of a concatenation.
LEMMA RemoveAtConcat ==
    ASSUME NEW s \in Seq(Event), NEW t \in Seq(Event), NEW i \in DOMAIN t
    PROVE  /\ Len(s) + i \in DOMAIN (s \o t)
           /\ (s \o t)[Len(s) + i] = t[i]
           /\ RemoveAt(s \o t, Len(s) + i) = s \o RemoveAt(t, i)
<1> DEFINE st == s \o t
           k == Len(s) + i
           r == RemoveAt(t, i)
<1>1. /\ st \in Seq(Event) /\ Len(st) = Len(s) + Len(t)
      /\ \A j \in 1..Len(s) + Len(t) :
            st[j] = IF j <= Len(s) THEN s[j] ELSE t[j - Len(s)]
      /\ Len(s) \in Nat /\ Len(t) \in Nat /\ i \in 1..Len(t)
      /\ DOMAIN st = 1..Len(st)
  BY ConcatProperties, LenProperties
<1>2. k \in DOMAIN st /\ st[k] = t[i]
  BY <1>1
<1>3. /\ r \in Seq(Event) /\ Len(r) = Len(t) - 1
      /\ \A j \in 1..Len(t) - 1 : r[j] = IF j < i THEN t[j] ELSE t[j + 1]
  BY RemoveAtElements
<1> HIDE DEF r, st, k
<1>4. /\ s \o r \in Seq(Event) /\ Len(s \o r) = Len(s) + Len(r)
      /\ \A j \in 1..Len(s) + Len(r) :
            (s \o r)[j] = IF j <= Len(s) THEN s[j] ELSE r[j - Len(s)]
  BY <1>3, ConcatProperties
<1>5. /\ RemoveAt(st, k) \in Seq(Event) /\ Len(RemoveAt(st, k)) = Len(st) - 1
      /\ \A j \in 1..Len(st) - 1 :
            RemoveAt(st, k)[j] = IF j < k THEN st[j] ELSE st[j + 1]
  BY <1>1, <1>2, RemoveAtElements
<1>6. Len(RemoveAt(st, k)) = Len(s \o r)
  BY <1>1, <1>3, <1>4, <1>5
<1>7. ASSUME NEW j \in 1..Len(st) - 1
      PROVE  RemoveAt(st, k)[j] = (s \o r)[j]
  <2>1. Len(st) - 1 = Len(s) + Len(r)
    BY <1>1, <1>3
  <2>2. CASE j <= Len(s)
    BY <1>1, <1>4, <1>5, <2>1, <2>2 DEF k
  <2>3. CASE j > Len(s) /\ j < k
    <3>1. st[j] = t[j - Len(s)] /\ (s \o r)[j] = r[j - Len(s)]
      BY <1>1, <1>4, <2>1, <2>3
    <3>2. r[j - Len(s)] = t[j - Len(s)]
      <4>1. j - Len(s) \in 1..Len(t) - 1 /\ j - Len(s) < i
        BY <1>1, <2>1, <2>3 DEF k
      <4> QED
        BY <1>3, <4>1
    <3> QED
      BY <1>5, <2>3, <3>1, <3>2
  <2>4. CASE j >= k
    <3>1. st[j + 1] = t[j + 1 - Len(s)] /\ (s \o r)[j] = r[j - Len(s)]
      <4>1. /\ j + 1 \in 1..Len(s) + Len(t) /\ ~(j + 1 <= Len(s))
            /\ j \in 1..Len(s) + Len(r) /\ ~(j <= Len(s))
        BY <1>1, <2>1, <2>4 DEF k
      <4>2. st[j + 1] = t[j + 1 - Len(s)]
        BY <1>1, <4>1
      <4>3. (s \o r)[j] = r[j - Len(s)]
        BY <1>4, <4>1
      <4> QED
        BY <4>2, <4>3
    <3>2. r[j - Len(s)] = t[(j - Len(s)) + 1]
      <4>1. j - Len(s) \in 1..Len(t) - 1 /\ ~(j - Len(s) < i)
        BY <1>1, <1>3, <2>1, <2>4 DEF k
      <4> QED
        BY <1>3, <4>1
    <3>3. (j - Len(s)) + 1 = j + 1 - Len(s) /\ ~(j < k)
      BY <1>1, <2>4 DEF k
    <3> QED
      BY <1>5, <3>1, <3>2, <3>3
  <2>5. j <= Len(s) \/ (j > Len(s) /\ j < k) \/ j >= k
    BY <1>1 DEF k
  <2> QED
    BY <2>2, <2>3, <2>4, <2>5
<1>8. RemoveAt(st, k) = s \o r
  BY <1>4, <1>5, <1>6, <1>7, SeqEqual
<1> QED
  BY <1>2, <1>8 DEF st, k, r

-----------------------------------------------------------------------------
(* The refinement *)

\* The line of the ledger: what waits, the batch that is out first.
Line == inflight \o pending

\* How each move of the queue looks on the line.
LEMMA LineType ==
    ASSUME TypeOK
    PROVE  /\ Line \in Seq(Event) /\ Len(Line) = Len(inflight) + Len(pending)
           /\ Len(inflight) \in Nat /\ Len(pending) \in Nat
           /\ SubSeq(Line, 1, Len(inflight)) = inflight
           /\ SubSeq(Line, Len(inflight) + 1, Len(Line)) = pending
           /\ \A i \in 1..Len(inflight) : Line[i] = inflight[i]
  BY ConcatProperties, LenProperties, SplitConcat DEF TypeOK, Line

LEMMA AppendLine ==
    ASSUME TypeOK, NEW e \in Event, AppendEvent(e)
    PROVE  Line' = Append(Line, e)
<1>t. pending \in Seq(Event) /\ inflight \in Seq(Event) /\ Line \in Seq(Event)
  BY LineType DEF TypeOK
<1>1. Line' = inflight \o (pending \o <<e>>)
  BY <1>t, AppendIsConcat DEF AppendEvent, Line
<1>2. <<e>> \in Seq(Event)
  OBVIOUS
<1>3. inflight \o (pending \o <<e>>) = Line \o <<e>>
  BY <1>t, <1>2, ConcatAssociative DEF Line
<1> QED
  BY <1>t, <1>1, <1>3, AppendIsConcat

LEMMA RestoreLine ==
    ASSUME TypeOK, NEW d \in Drain, RestoreInflight(d)
    PROVE  Line' = Line
  BY LineType, ConcatEmptySeq DEF RestoreInflight, Line

LEMMA PopLine ==
    ASSUME TypeOK, NEW d \in Drain, PopNextBatch(d)
    PROVE  Line' = Line /\ Line = pending
<1>t. pending \in Seq(Event) /\ Len(pending) \in Nat
  BY LenProperties DEF TypeOK
<1>1. PICK n \in 1..Len(pending) :
         /\ inflight' = SubSeq(pending, 1, n)
         /\ pending' = SubSeq(pending, n + 1, Len(pending))
  BY DEF PopNextBatch
<1>2. SubSeq(pending, 1, n) \o SubSeq(pending, n + 1, Len(pending))
         = SubSeq(pending, 1, Len(pending))
  <2>1. /\ 1 \in 1..Len(pending) + 1 /\ n \in 1 - 1..Len(pending)
        /\ Len(pending) \in n..Len(pending)
    BY <1>t, <1>1
  <2> QED
    BY <1>t, <2>1, ConcatAdjacentSubSeq
<1>3. Line' = pending
  BY <1>t, <1>1, <1>2, SubSeqFull DEF Line
<1>4. Line = pending
  BY <1>t, ConcatEmptySeq DEF PopNextBatch, Line
<1> QED
  BY <1>3, <1>4

LEMMA SettleLine ==
    ASSUME TypeOK, inflight' = <<>>, pending' = pending
    PROVE  Line' = SubSeq(Line, Len(inflight) + 1, Len(Line))
<1>1. Line' = pending
  BY ConcatEmptySeq DEF TypeOK, Line
<1> QED
  BY <1>1, LineType

LEMMA LedgerInit == Init => Ledger!Init
<1> SUFFICES ASSUME Init PROVE Ledger!Init
  OBVIOUS
<1>1. inflight \o pending = <<>>
  BY EmptySeq, ConcatEmptySeq DEF Init
<1> QED
  BY <1>1 DEF Init, Ledger!Init

LEMMA LedgerStep ==
    TypeOK /\ [Next]_vars => [Ledger!Next]_<<inflight \o pending, fate>>
<1> SUFFICES ASSUME TypeOK, [Next]_vars
             PROVE  [Ledger!Next]_<<inflight \o pending, fate>>
  OBVIOUS
<1> DEFINE line == inflight \o pending
<1>l. line = Line /\ line' = Line'
  BY DEF Line
<1>t. /\ pending \in Seq(Event) /\ inflight \in Seq(Event)
      /\ line \in Seq(Event) /\ Len(line) = Len(inflight) + Len(pending)
      /\ Len(inflight) \in Nat /\ Len(pending) \in Nat
      /\ fate \in [Event -> Fates]
  BY ConcatProperties, LenProperties DEF TypeOK
<1>1. CASE UNCHANGED <<pending, inflight, fate>>
  BY <1>1
\* The whole of inflight leaves the head of the line.
<1>s. ASSUME NEW f \in {"acked", "dead"}, inflight' = <<>>, pending' = pending,
             fate' = Settle(inflight, f)
      PROVE  [Ledger!Next]_<<inflight \o pending, fate>>
  <2>1. line' = pending
    BY <1>s, <1>l, SettleLine, LineType
  <2>2. CASE inflight = <<>>
    <3>1. line' = line
      BY <1>t, <2>1, <2>2, ConcatEmptySeq
    <3>2. fate' = fate
      BY <1>s, <1>t, <2>2 DEF Settle, ToSet
    <3> QED
      BY <3>1, <3>2
  <2>3. CASE inflight # <<>>
    <3>1. Len(inflight) \in 1..Len(line)
      BY <1>t, <2>3, EmptySeq
    <3>2. /\ SubSeq(line, 1, Len(inflight)) = inflight
          /\ SubSeq(line, Len(inflight) + 1, Len(line)) = pending
      BY <1>t, SplitConcat
    <3>3. /\ line' = SubSeq(line, Len(inflight) + 1, Len(line))
          /\ fate' = [e \in Event |->
                IF e \in {SubSeq(line, 1, Len(inflight))[j] :
                             j \in DOMAIN SubSeq(line, 1, Len(inflight))}
                THEN f ELSE fate[e]]
      BY <1>s, <2>1, <3>2 DEF Settle, ToSet
    <3> HIDE DEF line
    <3>4. \E n \in 1..Len(line) :
             /\ line' = SubSeq(line, n + 1, Len(line))
             /\ fate' = [e \in Event |->
                   IF e \in {SubSeq(line, 1, n)[j] : j \in DOMAIN SubSeq(line, 1, n)}
                   THEN f ELSE fate[e]]
      BY <3>1, <3>3
    <3>5. Ledger!SettleHead
      BY <1>s, <3>4 DEF line, Ledger!SettleHead, Ledger!ToSet
    <3> QED
      BY <3>5 DEF Ledger!Next
  <2> QED
    BY <2>2, <2>3
<1>2. ASSUME NEW e \in Event, AppendEvent(e)
      PROVE  Ledger!Next
  <2>1. line' = Append(line, e)
    BY <1>2, <1>l, AppendLine
  <2>2. Ledger!Accept(e)
    BY <1>2, <2>1 DEF AppendEvent, Ledger!Accept
  <2> QED
    BY <2>2 DEF Ledger!Next
<1>3. ASSUME NEW e \in Event, RemovePendingEvent(e)
      PROVE  Ledger!Next
  <2>1. PICK i \in DOMAIN pending :
           pending[i] = e /\ pending' = RemoveAt(pending, i)
    BY <1>3 DEF RemovePendingEvent
  <2>2. inflight' = inflight
    BY <1>3 DEF RemovePendingEvent
  <2>3. /\ Len(inflight) + i \in DOMAIN line
        /\ line[Len(inflight) + i] = e
        /\ line' = RemoveAt(line, Len(inflight) + i)
    BY <1>t, <2>1, <2>2, RemoveAtConcat
  <2>4. Ledger!Cancel(e)
    BY <1>3, <2>3 DEF RemovePendingEvent, Ledger!Cancel, RemoveAt, Ledger!RemoveAt
  <2> QED
    BY <2>4 DEF Ledger!Next
<1>4. ASSUME NEW d \in Drain, RestoreInflight(d)
      PROVE  UNCHANGED <<inflight \o pending, fate>>
  <2>1. line' = line
    BY <1>4, <1>l, RestoreLine
  <2> QED
    BY <1>4, <2>1 DEF RestoreInflight, history
<1>5. ASSUME NEW d \in Drain, PopNextBatch(d)
      PROVE  UNCHANGED <<inflight \o pending, fate>>
  BY <1>5, <1>l, PopLine DEF PopNextBatch, history
<1>6. ASSUME NEW d \in Drain,
             AckBatch(d, "ack", "record")
               \/ AckBatch(d, "ackTerminated", "recordTerminated")
      PROVE  [Ledger!Next]_<<inflight \o pending, fate>>
  BY <1>6, <1>s, <1>1 DEF AckBatch
<1>7. ASSUME NEW d \in Drain, MarkInflightFailed(d)
      PROVE  [Ledger!Next]_<<inflight \o pending, fate>>
  BY <1>7, <1>s, <1>1 DEF MarkInflightFailed
<1> QED
  BY QueueStep, <1>1, <1>2, <1>3, <1>4, <1>5, <1>6, <1>7

\* The runtime implements the ledger: whatever crashes, stalls, retries and
\* cancels it goes through, each accepted event leaves the queue once, served or
\* given up with its batch at the head of the line, or cancelled.
THEOREM ImplementsLedger == Spec => LedgerSpec
<1> QED
  BY LedgerInit, LedgerStep, Typing, PTL DEF Spec, LedgerSpec, Ledger!Spec

-----------------------------------------------------------------------------
(* What the ledger preserves *)

\* The events of a line are the queued ones, each in one place.
Exact(s, f) ==
    /\ \A e \in Event : f[e] = "queued" <=> \E i \in 1..Len(s) : s[i] = e
    /\ \A i, j \in 1..Len(s) : i # j => s[i] # s[j]

LEMMA ExactIsQueueIsExact ==
    ASSUME TypeOK
    PROVE  QueueIsExact <=> Exact(inflight \o pending, fate)
<1> DEFINE line == inflight \o pending
<1>1. line \in Seq(Event)
  BY ConcatProperties DEF TypeOK
<1>2. DOMAIN line = 1..Len(line) /\ \A i \in 1..Len(line) : line[i] \in Event
  BY <1>1, LenProperties, ElementOfSeq
<1> HIDE DEF line
<1>3. ToSet(line) = {e \in Event : Queued(e)}
        <=> \A e \in Event : fate[e] = "queued" <=> \E i \in 1..Len(line) : line[i] = e
  BY <1>2 DEF ToSet, Queued
<1> QED
  BY <1>2, <1>3 DEF QueueIsExact, Exact, line

\* What follows the first n elements of a sequence.
LEMMA RestOf ==
    ASSUME NEW s \in Seq(Event), NEW n \in 1..Len(s)
    PROVE  /\ Len(SubSeq(s, n + 1, Len(s))) = Len(s) - n
           /\ \A i \in 1..Len(s) - n : SubSeq(s, n + 1, Len(s))[i] = s[n + i]
<1> DEFINE t == SubSeq(s, n + 1, Len(s))
<1>1. Len(s) \in Nat /\ \A i \in 1..Len(s) : s[i] \in Event
  BY LenProperties, ElementOfSeq
<1>2. n + 1 \in Int /\ Len(s) \in Int /\ \A i \in n + 1..Len(s) : s[i] \in Event
  BY <1>1
<1>3. /\ Len(t) = IF n + 1 <= Len(s) THEN Len(s) - (n + 1) + 1 ELSE 0
      /\ \A i \in 1..Len(s) - (n + 1) + 1 : t[i] = s[(n + 1) + i - 1]
  BY <1>2, SubSeqProperties
<1>4. \A i \in 1..Len(s) - n : (n + 1) + i - 1 = n + i
  BY <1>1
<1> QED
  BY <1>1, <1>3, <1>4

\* An event that joins the line is new to it.
LEMMA AcceptExact ==
    ASSUME NEW s \in Seq(Event), NEW f \in [Event -> Fates], Exact(s, f),
           NEW e \in Event, f[e] = "unseen"
    PROVE  Exact(Append(s, e), [f EXCEPT ![e] = "queued"])
<1> DEFINE t == Append(s, e)
           g == [f EXCEPT ![e] = "queued"]
<1>1. /\ Len(s) \in Nat /\ Len(t) = Len(s) + 1 /\ t[Len(s) + 1] = e
      /\ \A i \in 1..Len(s) : t[i] = s[i]
  BY LenProperties, AppendProperties
<1>2. \A i \in 1..Len(s) : s[i] # e
  BY DEF Exact
<1>3. \A x \in Event : g[x] = IF x = e THEN "queued" ELSE f[x]
  OBVIOUS
<1> HIDE DEF t, g
<1>4. 1..Len(t) = (1..Len(s)) \cup {Len(s) + 1}
  BY <1>1
<1>5. ASSUME NEW x \in Event
      PROVE  g[x] = "queued" <=> \E i \in 1..Len(t) : t[i] = x
  BY <1>1, <1>2, <1>3, <1>4 DEF Exact
<1>6. \A i, j \in 1..Len(t) : i # j => t[i] # t[j]
  BY <1>1, <1>2, <1>4 DEF Exact
<1> QED
  BY <1>5, <1>6 DEF Exact, t, g

\* A batch that leaves the head takes all its events along, and no others.
LEMMA SettleExact ==
    ASSUME NEW s \in Seq(Event), NEW f \in [Event -> Fates], Exact(s, f),
           NEW n \in 1..Len(s), NEW v \in {"acked", "dead"},
           NEW g \in [Event -> Fates],
           \A e \in Event : g[e] = IF \E i \in 1..n : s[i] = e THEN v ELSE f[e]
    PROVE  Exact(SubSeq(s, n + 1, Len(s)), g)
<1> DEFINE t == SubSeq(s, n + 1, Len(s))
<1>1. Len(s) \in Nat /\ \A i \in 1..Len(s) : s[i] \in Event
  BY LenProperties, ElementOfSeq
<1>2. /\ Len(t) = Len(s) - n
      /\ \A i \in 1..Len(s) - n : t[i] = s[n + i]
  BY RestOf
<1> HIDE DEF t
<1>3. ASSUME NEW e \in Event
      PROVE  g[e] = "queued" <=> \E i \in 1..Len(t) : t[i] = e
  <2>1. CASE \E i \in 1..n : s[i] = e
    <3>1. g[e] # "queued"
      BY <2>1
    <3>2. \A i \in 1..Len(t) : t[i] # e
      <4> SUFFICES ASSUME NEW i \in 1..Len(t), t[i] = e PROVE FALSE
        OBVIOUS
      <4>1. PICK j \in 1..n : s[j] = e
        BY <2>1
      <4>2. n + i \in 1..Len(s) /\ j \in 1..Len(s) /\ j # n + i /\ s[n + i] = e
        BY <1>1, <1>2
      <4> QED
        BY <4>1, <4>2 DEF Exact
    <3> QED
      BY <3>1, <3>2
  <2>2. CASE ~\E i \in 1..n : s[i] = e
    <3>1. g[e] = f[e]
      BY <2>2
    <3>2. (\E i \in 1..Len(s) : s[i] = e) <=> \E i \in 1..Len(t) : t[i] = e
      <4>1. ASSUME NEW i \in 1..Len(s), s[i] = e
            PROVE  \E k \in 1..Len(t) : t[k] = e
        <5>1. i > n
          BY <1>1, <2>2, <4>1
        <5>2. i - n \in 1..Len(t) /\ n + (i - n) = i
          BY <1>1, <1>2, <5>1
        <5> QED
          BY <1>2, <4>1, <5>2
      <4>2. ASSUME NEW i \in 1..Len(t), t[i] = e
            PROVE  \E k \in 1..Len(s) : s[k] = e
        <5>1. n + i \in 1..Len(s)
          BY <1>1, <1>2
        <5> QED
          BY <1>2, <4>2, <5>1
      <4> QED
        BY <4>1, <4>2
    <3> QED
      BY <3>1, <3>2 DEF Exact
  <2> QED
    BY <2>1, <2>2
<1>4. ASSUME NEW i \in 1..Len(t), NEW j \in 1..Len(t), i # j
      PROVE  t[i] # t[j]
  <2>1. n + i \in 1..Len(s) /\ n + j \in 1..Len(s) /\ n + i # n + j
    BY <1>1, <1>2, <1>4
  <2> QED
    BY <1>2, <2>1 DEF Exact
<1> QED
  BY <1>3, <1>4 DEF Exact, t

\* A cancelled event leaves its place and keeps the others'.
LEMMA CancelExact ==
    ASSUME NEW s \in Seq(Event), NEW f \in [Event -> Fates], Exact(s, f),
           NEW k \in DOMAIN s
    PROVE  Exact(RemoveAt(s, k), [f EXCEPT ![s[k]] = "cancelled"])
<1> DEFINE t == RemoveAt(s, k)
           g == [f EXCEPT ![s[k]] = "cancelled"]
<1>1. /\ Len(s) \in Nat /\ k \in 1..Len(s)
      /\ \A i \in 1..Len(s) : s[i] \in Event
  BY LenProperties, ElementOfSeq
<1>2. /\ Len(t) = Len(s) - 1
      /\ \A i \in 1..Len(s) - 1 : t[i] = IF i < k THEN s[i] ELSE s[i + 1]
  BY RemoveAtElements
<1>3. \A e \in Event : g[e] = IF e = s[k] THEN "cancelled" ELSE f[e]
  OBVIOUS
<1> HIDE DEF t, g
\* Where the i-th of t was in s.
<1> DEFINE old(i) == IF i < k THEN i ELSE i + 1
<1>4. \A i \in 1..Len(t) : old(i) \in 1..Len(s) /\ old(i) # k /\ t[i] = s[old(i)]
  BY <1>1, <1>2
<1>5. \A i, j \in 1..Len(t) : i # j => old(i) # old(j)
  BY <1>1, <1>2
<1>6. ASSUME NEW i \in 1..Len(s), i # k
      PROVE  \E j \in 1..Len(t) : old(j) = i
  <2>1. CASE i < k
    <3>1. i \in 1..Len(t) /\ old(i) = i
      BY <1>1, <1>2, <2>1
    <3> QED
      BY <3>1
  <2>2. CASE i > k
    <3>1. i - 1 \in 1..Len(t) /\ old(i - 1) = i
      BY <1>1, <1>2, <2>2
    <3> QED
      BY <3>1
  <2> QED
    BY <1>1, <1>6, <2>1, <2>2
<1> HIDE DEF old
<1>7. ASSUME NEW e \in Event
      PROVE  g[e] = "queued" <=> \E i \in 1..Len(t) : t[i] = e
  <2>1. CASE e = s[k]
    <3>1. g[e] # "queued"
      BY <1>3, <2>1
    <3>2. \A i \in 1..Len(t) : t[i] # e
      BY <1>1, <1>4, <2>1 DEF Exact
    <3> QED
      BY <3>1, <3>2
  <2>2. CASE e # s[k]
    <3>1. g[e] = f[e]
      BY <1>3, <2>2
    <3>2. (\E i \in 1..Len(s) : s[i] = e) <=> \E i \in 1..Len(t) : t[i] = e
      BY <1>4, <1>6, <2>2
    <3> QED
      BY <3>1, <3>2 DEF Exact
  <2> QED
    BY <2>1, <2>2
<1>8. \A i, j \in 1..Len(t) : i # j => t[i] # t[j]
  BY <1>4, <1>5 DEF Exact
<1> QED
  BY <1>7, <1>8 DEF Exact, t, g

LEMMA ExactStep ==
    TypeOK /\ TypeOK' /\ QueueIsExact /\ [Next]_vars => QueueIsExact'
<1> SUFFICES ASSUME TypeOK, TypeOK', QueueIsExact, [Next]_vars
             PROVE  QueueIsExact'
  OBVIOUS
<1> DEFINE line == inflight \o pending
<1>1. Exact(line, fate) /\ line \in Seq(Event) /\ fate \in [Event -> Fates]
  BY ExactIsQueueIsExact, ConcatProperties DEF TypeOK
<1>2. (QueueIsExact <=> Exact(line, fate))'
  BY ExactIsQueueIsExact, PTL
<1>3. SUFFICES Exact(line', fate')
  BY <1>2 DEF Exact
<1>4. [Ledger!Next]_<<line, fate>>
  BY LedgerStep
<1> HIDE DEF line
<1>5. CASE UNCHANGED <<line, fate>>
  BY <1>1, <1>5
<1>6. ASSUME NEW e \in Event, fate[e] = "unseen", line' = Append(line, e),
             fate' = [fate EXCEPT ![e] = "queued"]
      PROVE  Exact(line', fate')
  BY <1>1, <1>6, AcceptExact
<1>7. ASSUME NEW e \in Event, NEW i \in DOMAIN line, line[i] = e,
             line' = RemoveAt(line, i), fate' = [fate EXCEPT ![e] = "cancelled"]
      PROVE  Exact(line', fate')
  BY <1>1, <1>7, CancelExact
<1>8. ASSUME NEW n \in 1..Len(line), NEW v \in {"acked", "dead"},
             line' = SubSeq(line, n + 1, Len(line)),
             fate' = [e \in Event |->
                        IF e \in ToSet(SubSeq(line, 1, n)) THEN v ELSE fate[e]]
      PROVE  Exact(line', fate')
  <2>1. Len(line) \in Nat /\ \A i \in 1..Len(line) : line[i] \in Event
    BY <1>1, LenProperties, ElementOfSeq
  <2>2. /\ DOMAIN SubSeq(line, 1, n) = 1..n
        /\ \A i \in 1..n : SubSeq(line, 1, n)[i] = line[i]
    <3> DEFINE u == SubSeq(line, 1, n)
    <3>1. 1 \in Int /\ n \in Int /\ \A i \in 1..n : line[i] \in Event
      BY <2>1
    <3>2. /\ u \in Seq(Event)
          /\ Len(u) = IF 1 <= n THEN n - 1 + 1 ELSE 0
          /\ \A i \in 1..n - 1 + 1 : u[i] = line[1 + i - 1]
      BY <3>1, SubSeqProperties
    <3>3. DOMAIN u = 1..Len(u)
      BY <3>2, LenProperties
    <3>4. n - 1 + 1 = n /\ 1 <= n /\ \A i \in 1..n : 1 + i - 1 = i
      BY <2>1
    <3> QED
      BY <3>2, <3>3, <3>4
  <2>3. \A e \in Event :
           fate'[e] = IF \E i \in 1..n : line[i] = e THEN v ELSE fate[e]
    BY <1>8, <2>2 DEF ToSet
  <2>4. fate' \in [Event -> Fates]
    BY DEF TypeOK
  <2>5. Exact(SubSeq(line, n + 1, Len(line)), fate')
    BY <1>1, <2>3, <2>4, SettleExact
  <2> QED
    BY <1>8, <2>5
<1>9. CASE Ledger!Next
  <2>1. ASSUME NEW e \in Event, Ledger!Accept(e)
        PROVE  Exact(line', fate')
    BY <1>6, <2>1 DEF Ledger!Accept, line
  <2>2. ASSUME NEW e \in Event, Ledger!Cancel(e)
        PROVE  Exact(line', fate')
    BY <1>7, <2>2 DEF Ledger!Cancel, RemoveAt, Ledger!RemoveAt, line
  <2>3. ASSUME Ledger!SettleHead
        PROVE  Exact(line', fate')
    BY <1>8, <2>3 DEF Ledger!SettleHead, ToSet, Ledger!ToSet, line
  <2> QED
    BY <1>9, <2>1, <2>2, <2>3 DEF Ledger!Next
<1> QED
  BY <1>4, <1>5, <1>9

\* The row of an actor and what became of its events agree, and no event stands
\* in two places, for every interleaving of drains, enqueuers, admin and crashes.
THEOREM Exactness == Spec => []QueueIsExact
<1>1. Init => QueueIsExact
  <2> SUFFICES ASSUME Init PROVE QueueIsExact
    OBVIOUS
  <2>1. inflight \o pending = <<>> /\ Len(<<>>) = 0
    BY EmptySeq, ConcatEmptySeq DEF Init
  <2>2. Exact(inflight \o pending, fate)
    BY <2>1 DEF Init, Exact
  <2> QED
    BY <2>2, TypeInit, ExactIsQueueIsExact
<1> QED
  BY <1>1, ExactStep, Typing, PTL DEF Spec

-----------------------------------------------------------------------------
(* The budget of handler runs *)

\* The counts a of the events in the line s, whose first n are in a batch: the
\* ones that were ever charged join the batch of the first, which was charged
\* most; while a batch is out, they are all in it.
Charged(s, n, a) ==
    /\ n \in 0..Len(s)
    /\ \A i \in 2..n : CanJoin(s, i)
    /\ \A i \in 1..Len(s) : a[s[i]] > 0 => \A j \in 2..i : CanJoin(s, j)
    /\ n > 0 => \A i \in n + 1..Len(s) : a[s[i]] = 0
    /\ \A i \in 1..Len(s) : a[s[i]] <= a[s[1]]

LEMMA ChargedAppend ==
    ASSUME NEW s \in Seq(Event), NEW n, NEW a \in [Event -> Nat], Charged(s, n, a),
           NEW e \in Event, a[e] = 0
    PROVE  Charged(Append(s, e), n, a)
<1> DEFINE t == Append(s, e)
<1>1. /\ Len(s) \in Nat /\ Len(t) = Len(s) + 1 /\ t[Len(s) + 1] = e
      /\ \A i \in 1..Len(s) : t[i] = s[i] /\ s[i] \in Event
  BY LenProperties, AppendProperties, ElementOfSeq
<1> HIDE DEF t
<1>2. \A i \in 2..Len(s) : CanJoin(s, i) <=> CanJoin(t, i)
  <2> SUFFICES ASSUME NEW i \in 2..Len(s) PROVE CanJoin(s, i) <=> CanJoin(t, i)
    OBVIOUS
  <2>1. t[1] = s[1] /\ t[i] = s[i] /\ t[i - 1] = s[i - 1]
    BY <1>1
  <2> QED
    BY <2>1 DEF CanJoin
<1>3. n \in 0..Len(t)
  BY <1>1 DEF Charged
<1>4. \A i \in 2..n : CanJoin(t, i)
  BY <1>1, <1>2 DEF Charged
<1>5. ASSUME NEW i \in 1..Len(t), a[t[i]] > 0, NEW j \in 2..i
      PROVE  CanJoin(t, j)
  <2>1. i \in 1..Len(s) /\ j \in 2..Len(s)
    BY <1>1, <1>5
  <2> QED
    BY <1>1, <1>2, <1>5, <2>1 DEF Charged
<1>6. ASSUME n > 0, NEW i \in n + 1..Len(t)
      PROVE  a[t[i]] = 0
  <2>1. n \in Nat /\ \A j \in n + 1..Len(s) : a[s[j]] = 0
    BY <1>6 DEF Charged
  <2>2. i = Len(s) + 1 \/ (i \in n + 1..Len(s) /\ i \in 1..Len(s))
    BY <1>1, <1>6, <2>1
  <2> QED
    BY <1>1, <2>1, <2>2
<1>7. ASSUME NEW i \in 1..Len(t) PROVE a[t[i]] <= a[t[1]]
  <2>1. CASE i = Len(s) + 1
    <3>1. t[1] \in Event
      BY <1>1
    <3>2. a[t[1]] \in Nat
      BY <3>1
    <3> QED
      BY <1>1, <2>1, <3>2
  <2>2. CASE i \in 1..Len(s)
    <3>1. t[i] = s[i] /\ t[1] = s[1]
      BY <1>1, <2>2
    <3>2. a[s[i]] <= a[s[1]]
      BY <2>2 DEF Charged
    <3> QED
      BY <3>1, <3>2
  <2> QED
    BY <1>1, <2>1, <2>2
<1> QED
  BY <1>3, <1>4, <1>5, <1>6, <1>7 DEF Charged, t

LEMMA ChargedPop ==
    ASSUME NEW s \in Seq(Event), NEW a \in [Event -> Nat], Charged(s, 0, a),
           NEW n \in 1..Len(s), IsNextBatch(s, n)
    PROVE  Charged(s, n, a)
<1>1. Len(s) \in Nat /\ \A i \in 1..Len(s) : s[i] \in Event
  BY LenProperties, ElementOfSeq
<1>2. ASSUME NEW i \in n + 1..Len(s) PROVE a[s[i]] = 0
  <2>1. ~CanJoin(s, n + 1) /\ n + 1 \in 2..i
    BY <1>1, <1>2 DEF IsNextBatch
  <2>2. ~(a[s[i]] > 0)
    BY <1>1, <2>1 DEF Charged
  <2>3. a[s[i]] \in Nat
    BY <1>1
  <2> QED
    BY <2>2, <2>3
<1> QED
  BY <1>1, <1>2 DEF Charged, IsNextBatch

LEMMA ChargedSettle ==
    ASSUME NEW s \in Seq(Event), NEW a \in [Event -> Nat],
           NEW n \in 1..Len(s), Charged(s, n, a)
    PROVE  /\ Charged(SubSeq(s, n + 1, Len(s)), 0, a)
           /\ \A i \in 1..Len(s) - n : a[SubSeq(s, n + 1, Len(s))[i]] = 0
<1> DEFINE t == SubSeq(s, n + 1, Len(s))
<1>1. Len(s) \in Nat /\ \A i \in 1..Len(s) : s[i] \in Event
  BY LenProperties, ElementOfSeq
<1>2. /\ Len(t) = Len(s) - n
      /\ \A i \in 1..Len(s) - n : t[i] = s[n + i]
  BY RestOf
<1> HIDE DEF t
<1>3. \A i \in 1..Len(t) : a[t[i]] = 0
  <2> SUFFICES ASSUME NEW i \in 1..Len(t) PROVE a[t[i]] = 0
    OBVIOUS
  <2>1. n + i \in n + 1..Len(s) /\ t[i] = s[n + i] /\ n > 0
    BY <1>1, <1>2
  <2>2. \A j \in n + 1..Len(s) : a[s[j]] = 0
    BY <2>1 DEF Charged
  <2> QED
    BY <2>1, <2>2
<1>4. Len(t) \in Nat
  BY <1>1, <1>2
<1>5. Charged(t, 0, a)
  BY <1>3, <1>4 DEF Charged
<1> QED
  BY <1>2, <1>3, <1>5 DEF t

LEMMA ChargedFail ==
    ASSUME NEW s \in Seq(Event), NEW a \in [Event -> Nat],
           NEW n \in 1..Len(s), Charged(s, n, a),
           NEW c \in Nat \ {0}, NEW b \in [Event -> Nat],
           \A i \in 1..n : b[s[i]] = c,
           \A i \in n + 1..Len(s) : b[s[i]] = a[s[i]]
    PROVE  Charged(s, n, b)
<1>1. Len(s) \in Nat /\ \A i \in 1..Len(s) : s[i] \in Event
  BY LenProperties, ElementOfSeq
<1>2. \A i \in 1..n : b[s[i]] = c
  OBVIOUS
<1>3. ASSUME NEW i \in n + 1..Len(s) PROVE b[s[i]] = 0
  <2>1. n > 0 /\ b[s[i]] = a[s[i]]
    BY <1>1
  <2> QED
    BY <2>1 DEF Charged
<1>4. ASSUME NEW i \in 1..Len(s), b[s[i]] > 0, NEW j \in 2..i PROVE CanJoin(s, j)
  <2>1. i \in 1..n
    BY <1>1, <1>3, <1>4
  <2> QED
    BY <1>1, <2>1 DEF Charged
<1>5. ASSUME NEW i \in 1..Len(s) PROVE b[s[i]] <= b[s[1]]
  <2>1. b[s[1]] = c
    BY <1>1, <1>2
  <2>2. i \in 1..n \/ i \in n + 1..Len(s)
    BY <1>1
  <2> QED
    BY <1>2, <1>3, <2>1, <2>2
<1> QED
  BY <1>1, <1>3, <1>4, <1>5 DEF Charged

\* The drains whose handler has raised over e, and not been charged for it yet.
FailingWith(e) == {d \in Drain : pc[d] = "fail" /\ e \in ToSet(batch[d])}
Uncharged(e) == Cardinality(FailingWith(e))

\* Handlers fail, and batches are charged, in these steps only.
LEMMA CountsStep ==
    ASSUME [Next]_vars
    PROVE  /\ UNCHANGED failures \/ \E d \in Drain : HandlerRaises(d)
           /\ UNCHANGED attempts \/ \E d \in Drain : MarkInflightFailed(d)
<1> USE DEF row, records, locals, requests, history, bounds
<1>1. ASSUME NEW e \in Event,
             AppendEvent(e) \/ MarkScheduled(e) \/ RemovePendingEvent(e)
      PROVE  UNCHANGED <<failures, attempts>>
  BY <1>1 DEF AppendEvent, MarkScheduled, RemovePendingEvent
<1>2. ASSUME NEW r \in DOMAIN runs, RequestRunTermination(r)
      PROVE  UNCHANGED <<failures, attempts>>
  BY <1>2 DEF RequestRunTermination
<1>3. CASE Resume
  BY <1>3 DEF Resume, ResumeScan, ResumeClear, ResumeMark
<1>4. ASSUME NEW d \in Drain,
             \/ AcquireLease(d) \/ RestoreInflight(d) \/ PopNothing(d)
             \/ PopNextBatch(d) \/ MarkPriorStale(d) \/ StartRun(d)
             \/ CheckTermination(d) \/ FirstHeartbeat(d) \/ FinalHeartbeat(d)
      PROVE  UNCHANGED <<failures, attempts>>
  BY <1>4 DEF AcquireLease, RestoreInflight, PopNothing, PopNextBatch,
              MarkPriorStale, StartRun, CheckTermination, FirstHeartbeat,
              FinalHeartbeat
<1>5. ASSUME NEW d \in Drain,
             \/ AckBatch(d, "ack", "record")
             \/ AckBatch(d, "ackTerminated", "recordTerminated")
             \/ RecordRun(d, "record", "renew")
             \/ RecordRun(d, "recordTerminated", "pop")
             \/ RecordFailure(d) \/ LoopHeartbeat(d) \/ ReleaseLease(d)
             \/ ClearActorScheduled(d) \/ HasActorEvents(d)
             \/ MarkActorScheduled(d)
      PROVE  UNCHANGED <<failures, attempts>>
  BY <1>5 DEF AckBatch, RecordRun, RecordFailure, LoopHeartbeat, ReleaseLease,
              ClearActorScheduled, HasActorEvents, MarkActorScheduled
<1>6. ASSUME NEW d \in Drain, MarkInflightFailed(d)
      PROVE  UNCHANGED failures
  BY <1>6 DEF MarkInflightFailed
<1>7. ASSUME NEW d \in Drain, HandlerReturns(d) \/ HandlerTerminated(d)
      PROVE  UNCHANGED <<failures, attempts>>
  BY <1>7 DEF HandlerReturns, HandlerTerminated
<1>8. ASSUME NEW d \in Drain, HandlerRaises(d) PROVE UNCHANGED attempts
  BY <1>8 DEF HandlerRaises
<1>9. ASSUME NEW d \in Drain, Heartbeat(d) \/ HeartbeatRaises(d) \/ DrainAborts(d)
      PROVE  UNCHANGED <<failures, attempts>>
  BY <1>9 DEF Heartbeat, HeartbeatRaises, DrainAborts
<1>10. CASE LeaseExpires \/ Stall \/ RequestAborts \/ WorkerCrash \/ WebCrash
  BY <1>10 DEF LeaseExpires, Stall, RequestAborts, WorkerCrash, WebCrash
<1>11. CASE UNCHANGED vars
  BY <1>11 DEF vars
<1> QED
  BY <1>1, <1>2, <1>3, <1>4, <1>5, <1>6, <1>7, <1>8, <1>9, <1>10, <1>11
     DEF Next, DrainStep, Handler

\* A handler's failure is counted when it is raised, and a drain that charges
\* the batch stops being one that has yet to.
LEMMA UnchargedStep ==
    ASSUME IsFiniteSet(Drain), TypeOK, [Next]_vars, NEW e \in Event
    PROVE  /\ Uncharged(e) \in Nat /\ Uncharged(e)' \in Nat
           /\ failures[e] \in Nat /\ failures'[e] \in Nat
           /\ failures'[e] >= failures[e]
           /\ failures[e] - Uncharged(e) <= failures'[e] - Uncharged(e)'
           /\ \A d \in Drain : MarkInflightFailed(d) /\ e \in ToSet(batch[d]) =>
                 failures[e] - Uncharged(e) < failures'[e] - Uncharged(e)'
<1> DEFINE F == FailingWith(e)
           G == FailingWith(e)'
<1>t. /\ pc \in [Drain -> PCs] /\ batch \in [Drain -> Seq(Event)]
      /\ failures \in [Event -> Nat]
  BY DEF TypeOK
<1>e. ToSet(<<>>) = {}
  BY EmptySeq DEF ToSet
<1>1. F \subseteq Drain /\ IsFiniteSet(F) /\ Cardinality(F) \in Nat
  BY FS_Subset, FS_CardinalityType DEF FailingWith
<1>2. G \subseteq Drain /\ IsFiniteSet(G) /\ Cardinality(G) \in Nat
  <2>1. G \subseteq Drain
    BY DEF FailingWith
  <2> HIDE DEF G
  <2> QED
    BY <2>1, FS_Subset, FS_CardinalityType
<1>u. Uncharged(e) = Cardinality(F) /\ Uncharged(e)' = Cardinality(G)
  BY DEF Uncharged
<1>3. ASSUME NEW d \in Drain, MarkInflightFailed(d)
      PROVE  /\ failures' = failures
             /\ Cardinality(G) <= Cardinality(F)
             /\ e \in ToSet(batch[d]) => Cardinality(G) < Cardinality(F)
  <2>1. failures' = failures /\ batch' = batch
        /\ pc[d] = "fail" /\ pc' = [pc EXCEPT ![d] = "recordFailed"]
    BY <1>3 DEF MarkInflightFailed, Goto
  <2>2. G = F \ {d}
    BY <1>t, <2>1 DEF FailingWith
  <2>3. e \in ToSet(batch[d]) => d \in F
    BY <2>1 DEF FailingWith
  <2> HIDE DEF F, G
  <2>4. Cardinality(F \ {d}) = IF d \in F THEN Cardinality(F) - 1 ELSE Cardinality(F)
    BY <1>1, FS_RemoveElement
  <2> QED
    BY <1>1, <2>1, <2>2, <2>3, <2>4
<1>4. ASSUME NEW d \in Drain, HandlerRaises(d)
      PROVE  /\ failures'[e] = IF e \in ToSet(batch[d]) THEN failures[e] + 1
                               ELSE failures[e]
             /\ Cardinality(G) <= IF e \in ToSet(batch[d]) THEN Cardinality(F) + 1
                                  ELSE Cardinality(F)
  <2>1. failures'[e] = IF e \in ToSet(batch[d]) THEN failures[e] + 1
                       ELSE failures[e]
    BY <1>4, <1>t DEF HandlerRaises
  <2>2. \A x \in Drain \ {d} : pc'[x] = pc[x] /\ batch'[x] = batch[x]
    BY <1>4, <1>t DEF HandlerRaises, Leave, Goto, locals
  <2>3. batch'[d] \in {batch[d], <<>>}
    BY <1>4, <1>t DEF HandlerRaises, Leave, Goto, locals
  <2>4. CASE e \in ToSet(batch[d])
    <3>1. G \subseteq F \cup {d}
      BY <2>2 DEF FailingWith
    <3> HIDE DEF F, G
    <3>a. /\ IsFiniteSet(F \cup {d})
          /\ Cardinality(F \cup {d}) = IF d \in F THEN Cardinality(F)
                                       ELSE Cardinality(F) + 1
      BY <1>1, FS_AddElement
    <3>2. /\ IsFiniteSet(F \cup {d})
          /\ Cardinality(F \cup {d}) <= Cardinality(F) + 1
      BY <1>1, <3>a
    <3>3. Cardinality(G) <= Cardinality(F \cup {d})
      BY <3>1, <3>2, FS_Subset
    <3>4. Cardinality(F \cup {d}) \in Nat
      BY <3>2, FS_CardinalityType
    <3> QED
      BY <1>1, <1>2, <2>1, <2>4, <3>2, <3>3, <3>4
  <2>5. CASE e \notin ToSet(batch[d])
    <3>1. G \subseteq F
      BY <1>e, <2>2, <2>3, <2>5 DEF FailingWith
    <3> HIDE DEF F, G
    <3>2. Cardinality(G) <= Cardinality(F)
      BY <1>1, <3>1, FS_Subset
    <3> QED
      BY <2>1, <2>5, <3>2
  <2> QED
    BY <2>4, <2>5
<1>5. ASSUME \A d \in Drain : ~HandlerRaises(d)
      PROVE  failures' = failures /\ Cardinality(G) <= Cardinality(F)
  <2>1. failures' = failures
    BY <1>5, CountsStep
  <2>2. ASSUME NEW x \in Drain, pc'[x] = "fail"
        PROVE  pc[x] = "fail" /\ batch'[x] = batch[x]
    <3>1. Moves(x)
      BY DrainMoves
    <3>2. ~PopNextBatch(x) /\ ~StartRun(x)
      BY <1>t, <2>2 DEF PopNextBatch, StartRun, Goto
    <3>3. /\ ~AckBatch(x, "ack", "record")
          /\ ~AckBatch(x, "ackTerminated", "recordTerminated")
      BY <1>t, <2>2 DEF AckBatch, Goto
    <3> QED
      BY <1>5, <2>2, <3>1, <3>2, <3>3 DEF Moves, Holding
  <2>3. G \subseteq F
    BY <2>2 DEF FailingWith
  <2> HIDE DEF F, G
  <2> QED
    BY <1>1, <2>1, <2>3, FS_Subset
<1>6. failures[e] \in Nat
  BY <1>t
<1> HIDE DEF F, G
<1>7. CASE \E d \in Drain : HandlerRaises(d)
  <2>1. PICK d \in Drain : HandlerRaises(d)
    BY <1>7
  <2>2. \A x \in Drain : ~MarkInflightFailed(x)
    <3> SUFFICES ASSUME NEW x \in Drain, MarkInflightFailed(x) PROVE FALSE
      OBVIOUS
    <3>1. pc[d] = "run" /\ pc'[d] # "run" /\ pc[x] = "fail"
      BY <1>t, <2>1 DEF HandlerRaises, Leave, Goto, MarkInflightFailed
    <3>2. pc'[d] = pc[d]
      BY <1>t, <3>1 DEF MarkInflightFailed, Goto
    <3> QED
      BY <3>1, <3>2
  <2> QED
    BY <1>1, <1>2, <1>4, <1>6, <1>u, <2>1, <2>2
<1>8. CASE \A d \in Drain : ~HandlerRaises(d)
  BY <1>1, <1>2, <1>3, <1>5, <1>6, <1>u, <1>8
<1> QED
  BY <1>7, <1>8

\* While a batch waits for its handlers to succeed: what was charged is at the
\* head of the line, the head's failures are as many as it was charged for and
\* yet will be, and nothing that waits was charged the full budget.
BudgetInv ==
    /\ Charged(Line, Len(inflight), attempts)
    /\ \A e \in Event : attempts[e] < MaxAttempts
    /\ \A e \in Event : fate[e] = "unseen" => attempts[e] = 0
    /\ \A e \in Event : failures[e] >= Uncharged(e)
    /\ Len(Line) > 0 =>
          failures[Line[1]] >= attempts[Line[1]] + Uncharged(Line[1])
    /\ (\E e \in Event : fate[e] = "dead") =>
          \E e \in Event : fate[e] = "dead" /\ failures[e] >= MaxAttempts

LEMMA InflightQueued ==
    ASSUME TypeOK, QueueIsExact, NEW e \in ToSet(inflight)
    PROVE  e \in Event /\ Queued(e)
<1>1. PICK i \in DOMAIN inflight : inflight[i] = e
  BY DEF ToSet
<1>2. /\ i \in DOMAIN (inflight \o pending)
      /\ (inflight \o pending)[i] = e
  BY <1>1, ConcatProperties, LenProperties DEF TypeOK
<1>3. e \in ToSet(inflight \o pending)
  BY <1>2 DEF ToSet
<1> QED
  BY <1>3 DEF QueueIsExact

\* What given up stays given up, and the event that spent the budget too.
LEMMA DeadStep ==
    ASSUME IsFiniteSet(Drain), TypeOK, QueueIsExact, BudgetInv, [Next]_vars,
           \A e \in Event : fate'[e] = "dead" => fate[e] = "dead"
    PROVE  (\E e \in Event : fate'[e] = "dead") =>
              \E e \in Event : fate'[e] = "dead" /\ failures'[e] >= MaxAttempts
<1> SUFFICES ASSUME NEW x \in Event, fate'[x] = "dead"
             PROVE  \E e \in Event : fate'[e] = "dead" /\ failures'[e] >= MaxAttempts
  OBVIOUS
<1>1. PICK e \in Event : fate[e] = "dead" /\ failures[e] >= MaxAttempts
  BY DEF BudgetInv
<1>2. failures'[e] >= failures[e] /\ failures[e] \in Nat /\ failures'[e] \in Nat
  BY UnchargedStep
<1>3. failures'[e] >= MaxAttempts
  BY <1>1, <1>2, MaxAttemptsAssumption
<1>t. fate \in [Event -> Fates]
  BY DEF TypeOK
<1>4. CASE UNCHANGED <<pending, inflight, fate>>
  BY <1>1, <1>3, <1>4
<1>5. ASSUME NEW y \in Event, AppendEvent(y) \/ RemovePendingEvent(y)
      PROVE  fate'[e] = "dead"
  <2>1. CASE AppendEvent(y)
    BY <1>1, <1>t, <2>1 DEF AppendEvent
  <2>2. CASE RemovePendingEvent(y)
    <3>1. PICK i \in DOMAIN pending : pending[i] = y
      BY <2>2 DEF RemovePendingEvent
    <3>2. Queued(y)
      <4>1. /\ Len(inflight) + i \in DOMAIN (inflight \o pending)
            /\ (inflight \o pending)[Len(inflight) + i] = y
        BY <3>1, RemoveAtConcat DEF TypeOK
      <4>2. y \in ToSet(inflight \o pending)
        BY <4>1 DEF ToSet
      <4> QED
        BY <4>2 DEF QueueIsExact
    <3> QED
      BY <1>1, <1>t, <2>2, <3>2 DEF RemovePendingEvent, Queued
  <2> QED
    BY <1>5, <2>1, <2>2
<1>6. ASSUME NEW d \in Drain, RestoreInflight(d) \/ PopNextBatch(d)
      PROVE  fate'[e] = "dead"
  BY <1>1, <1>6 DEF RestoreInflight, PopNextBatch, history
<1>7. ASSUME NEW d \in Drain,
             \/ AckBatch(d, "ack", "record")
             \/ AckBatch(d, "ackTerminated", "recordTerminated")
             \/ MarkInflightFailed(d)
      PROVE  fate'[e] = "dead"
  <2>1. \/ fate' = fate
        \/ inflight = batch[d] /\ \E f \in Fates : fate' = Settle(batch[d], f)
    BY <1>7 DEF AckBatch, MarkInflightFailed, Fates
  <2>2. e \notin ToSet(inflight)
    BY <1>1, InflightQueued DEF Queued
  <2> QED
    BY <1>1, <2>1, <2>2 DEF Settle
<1> QED
  BY QueueStep, <1>3, <1>4, <1>5, <1>6, <1>7

\* A step that charges nobody, and keeps the head of the line or starts on one
\* that was never charged.
LEMMA CountedStep ==
    ASSUME IsFiniteSet(Drain), TypeOK, BudgetInv, [Next]_vars, attempts' = attempts,
           Line' \in Seq(Event),
           Len(Line') > 0 => \/ Len(Line) > 0 /\ Line'[1] = Line[1]
                             \/ attempts[Line'[1]] = 0
    PROVE  /\ \A e \in Event : attempts'[e] < MaxAttempts
           /\ \A e \in Event : failures'[e] >= Uncharged(e)'
           /\ Len(Line') > 0 =>
                failures'[Line'[1]] >= attempts'[Line'[1]] + (Uncharged(Line[1]))'
<1>1. \A e \in Event : failures'[e] >= Uncharged(e)'
  <2> SUFFICES ASSUME NEW e \in Event PROVE failures'[e] >= Uncharged(e)'
    OBVIOUS
  <2>1. /\ Uncharged(e) \in Nat /\ Uncharged(e)' \in Nat
        /\ failures[e] \in Nat /\ failures'[e] \in Nat
        /\ failures[e] - Uncharged(e) <= failures'[e] - Uncharged(e)'
    BY UnchargedStep
  <2>2. failures[e] >= Uncharged(e)
    BY DEF BudgetInv
  <2> QED
    BY <2>1, <2>2
<1>2. ASSUME Len(Line') > 0
      PROVE  failures'[Line'[1]] >= attempts'[Line'[1]] + (Uncharged(Line[1]))'
  <2>1. PICK h : h = Line'[1]
    OBVIOUS
  <2>2. h \in Event
    BY <1>2, <2>1, ElementOfSeq, LenProperties
  <2>3. (Uncharged(Line[1]))' = Uncharged(h)'
    BY <2>1 DEF Uncharged, FailingWith
  <2>4. /\ Uncharged(h) \in Nat /\ Uncharged(h)' \in Nat
        /\ failures[h] \in Nat /\ failures'[h] \in Nat
        /\ failures[h] - Uncharged(h) <= failures'[h] - Uncharged(h)'
    BY <2>2, UnchargedStep
  <2>5. attempts[h] \in Nat
    BY <2>2 DEF TypeOK
  <2>6. failures[h] >= attempts[h] + Uncharged(h)
    <3>1. CASE Len(Line) > 0 /\ h = Line[1]
      BY <3>1 DEF BudgetInv
    <3>2. CASE attempts[h] = 0
      BY <2>2, <2>4, <3>2 DEF BudgetInv
    <3> QED
      BY <1>2, <2>1, <3>1, <3>2
  <2>7. failures'[h] >= attempts[h] + Uncharged(h)'
    BY <2>4, <2>5, <2>6
  <2> QED
    BY <2>1, <2>3, <2>7
<1> QED
  BY <1>1, <1>2 DEF BudgetInv

LEMMA BudgetStep ==
    ASSUME IsFiniteSet(Drain), Controllable = {}
    PROVE  TypeOK /\ TypeOK' /\ QueueIsExact /\ BudgetInv /\ [Next]_vars => BudgetInv'
<1> SUFFICES ASSUME TypeOK, TypeOK', QueueIsExact, BudgetInv, [Next]_vars
             PROVE  BudgetInv'
  OBVIOUS
<1> DEFINE n == Len(inflight)
<1>t. /\ attempts \in [Event -> Nat] /\ attempts' \in [Event -> Nat]
      /\ Line \in Seq(Event) /\ Line' \in Seq(Event)
      /\ Len(Line) \in Nat /\ Len(Line') \in Nat /\ n \in Nat
      /\ fate \in [Event -> Fates] /\ fate' \in [Event -> Fates]
  <2>1. Line \in Seq(Event) /\ Line' \in Seq(Event)
    BY ConcatProperties DEF TypeOK, Line
  <2> QED
    BY <2>1, LenProperties DEF TypeOK
<1>m. MaxAttempts \in Nat \ {0}
  BY MaxAttemptsAssumption
<1>x. Exact(Line, fate)
  BY ExactIsQueueIsExact DEF Line
<1>c. Charged(Line, n, attempts) /\ n \in 0..Len(Line)
  BY DEF BudgetInv, Charged
\* The parts that a step of each kind establishes.
<1>q. ASSUME Charged(Line', Len(inflight'), attempts'),
             \A e \in Event : attempts'[e] < MaxAttempts,
             \A e \in Event : fate'[e] = "unseen" => attempts'[e] = 0,
             \A e \in Event : failures'[e] >= Uncharged(e)',
             Len(Line') > 0 =>
               failures'[Line'[1]] >= attempts'[Line'[1]] + (Uncharged(Line[1]))',
             \/ \A e \in Event : fate'[e] = "dead" => fate[e] = "dead"
             \/ \E e \in Event : fate'[e] = "dead" /\ failures'[e] >= MaxAttempts
      PROVE  BudgetInv'
  BY <1>q, DeadStep DEF BudgetInv
<1>1. CASE UNCHANGED <<pending, inflight, fate>> /\ attempts' = attempts
  <2>1. Line' = Line
    BY <1>1 DEF Line
  <2> QED
    BY <1>1, <1>c, <1>t, <1>q, <2>1, CountedStep DEF BudgetInv
<1>2. ASSUME NEW e \in Event, AppendEvent(e) PROVE BudgetInv'
  <2>1. /\ Line' = Append(Line, e) /\ inflight' = inflight /\ attempts' = attempts
        /\ fate[e] = "unseen" /\ fate' = [fate EXCEPT ![e] = "queued"]
    BY <1>2, AppendLine DEF AppendEvent, records
  <2>2. attempts[e] = 0
    BY <2>1 DEF BudgetInv
  <2>3. Charged(Line', Len(inflight'), attempts')
    BY <1>c, <1>t, <2>1, <2>2, ChargedAppend
  <2>4. Len(Line') > 0 => \/ Len(Line) > 0 /\ Line'[1] = Line[1]
                          \/ attempts[Line'[1]] = 0
    BY <1>t, <2>1, <2>2, AppendProperties
  <2>5. \A x \in Event : fate'[x] = "unseen" => attempts'[x] = 0
    BY <1>t, <2>1 DEF BudgetInv
  <2>6. \A x \in Event : fate'[x] = "dead" => fate[x] = "dead"
    BY <1>t, <2>1
  <2> QED
    BY <1>q, <1>t, <2>1, <2>3, <2>4, <2>5, <2>6, CountedStep
<1>3. ASSUME NEW d \in Drain, RestoreInflight(d) PROVE BudgetInv'
  <2>1. /\ Line' = Line /\ Len(inflight') = 0 /\ attempts' = attempts
        /\ fate' = fate
    BY <1>3, RestoreLine, EmptySeq DEF RestoreInflight, records, history
  <2>2. Charged(Line, 0, attempts)
    BY <1>c DEF Charged
  <2> QED
    BY <1>q, <1>t, <2>1, <2>2, CountedStep DEF BudgetInv
<1>4. ASSUME NEW d \in Drain, PopNextBatch(d) PROVE BudgetInv'
  <2>1. /\ Line' = Line /\ Line = pending /\ n = 0 /\ attempts' = attempts
        /\ fate' = fate
    BY <1>4, PopLine, EmptySeq DEF PopNextBatch, records, history
  <2>2. PICK k \in 1..Len(Line) :
           IsNextBatch(Line, k) /\ inflight' = SubSeq(Line, 1, k)
    BY <1>4, <2>1 DEF PopNextBatch
  <2>3. Len(inflight') = k
    <3>1. 1 \in Int /\ k \in Int /\ \A i \in 1..k : Line[i] \in Event
      BY <1>t, ElementOfSeq
    <3>2. Len(SubSeq(Line, 1, k)) = IF 1 <= k THEN k - 1 + 1 ELSE 0
      BY <3>1, SubSeqProperties
    <3> QED
      BY <2>2, <3>2
  <2>4. Charged(Line, k, attempts)
    BY <1>c, <1>t, <2>1, <2>2, ChargedPop
  <2> QED
    BY <1>q, <1>t, <2>1, <2>3, <2>4, CountedStep DEF BudgetInv
\* The batch leaves the head of the line.
<1>s. ASSUME n > 0, inflight' = <<>>, pending' = pending, attempts' = attempts
      PROVE  /\ Charged(Line', Len(inflight'), attempts')
             /\ Len(Line') > 0 => attempts[Line'[1]] = 0
  <2>1. Line' = SubSeq(Line, n + 1, Len(Line)) /\ Len(inflight') = 0
    BY <1>s, SettleLine, EmptySeq
  <2>2. n \in 1..Len(Line)
    BY <1>s, <1>t, <1>c
  <2>3. Len(Line') = Len(Line) - n
    BY <1>t, <2>1, <2>2, RestOf
  <2>4. /\ Charged(SubSeq(Line, n + 1, Len(Line)), 0, attempts)
        /\ \A i \in 1..Len(Line) - n :
              attempts[SubSeq(Line, n + 1, Len(Line))[i]] = 0
    BY <1>c, <1>t, <2>2, ChargedSettle
  <2>5. Charged(Line', Len(inflight'), attempts')
    BY <1>s, <2>1, <2>4
  <2>6. ASSUME Len(Line') > 0 PROVE attempts[Line'[1]] = 0
    <3>1. 1 \in 1..Len(Line) - n
      BY <1>t, <2>3, <2>6
    <3> QED
      BY <2>1, <2>4, <3>1
  <2> QED
    BY <2>5, <2>6
<1>5. ASSUME NEW d \in Drain,
             \/ AckBatch(d, "ack", "record")
             \/ AckBatch(d, "ackTerminated", "recordTerminated")
      PROVE  BudgetInv'
  <2>1. attempts' = attempts /\ pending' = pending
    BY <1>5 DEF AckBatch, records
  <2>2. CASE n = 0 \/ inflight # batch[d]
    <3>1. inflight' = inflight /\ fate' = fate
      <4>1. CASE inflight # batch[d]
        BY <1>5, <4>1 DEF AckBatch
      <4>2. CASE inflight = batch[d] /\ n = 0
        <5>1. inflight = <<>>
          BY <4>2, EmptySeq DEF TypeOK
        <5>2. fate' = [e \in Event |-> fate[e]] /\ inflight' = <<>>
          BY <1>5, <4>2, <5>1, EmptySeq DEF AckBatch, Settle, ToSet
        <5> QED
          BY <1>t, <5>1, <5>2
      <4> QED
        BY <2>2, <4>1, <4>2
    <3> QED
      BY <1>1, <2>1, <3>1
  <2>3. CASE n > 0 /\ inflight = batch[d]
    <3>1. inflight' = <<>> /\ fate' = Settle(batch[d], "acked")
      BY <1>5, <2>3 DEF AckBatch
    <3>2. \A e \in Event : fate'[e] = "dead" => fate[e] = "dead"
      BY <3>1 DEF Settle
    <3>3. \A e \in Event : fate'[e] = "unseen" => attempts'[e] = 0
      BY <2>1, <3>1 DEF Settle, BudgetInv
    <3> QED
      BY <1>q, <1>s, <1>t, <2>1, <2>3, <3>1, <3>2, <3>3, CountedStep
  <2> QED
    BY <1>t, <2>2, <2>3
<1>6. ASSUME NEW d \in Drain, MarkInflightFailed(d) PROVE BudgetInv'
  <2>p. pending' = pending
    BY <1>6 DEF MarkInflightFailed
  <2>1. CASE inflight # batch[d]
    BY <1>1, <1>6, <2>1 DEF MarkInflightFailed
  <2>2. CASE inflight = batch[d]
    <3>1. PICK charged \in {attempts[e] + 1 : e \in ToSet(batch[d])} :
             /\ \A e \in ToSet(batch[d]) : attempts[e] < charged
             /\ \/ /\ HasBudget(charged)
                   /\ attempts' = [e \in Event |->
                         IF e \in ToSet(batch[d]) THEN charged ELSE attempts[e]]
                   /\ UNCHANGED <<inflight, fate>>
                \/ /\ ~HasBudget(charged)
                   /\ inflight' = <<>> /\ fate' = Settle(batch[d], "dead")
                   /\ UNCHANGED attempts
      BY <1>6, <2>2 DEF MarkInflightFailed
    <3>2. /\ \A e \in Event :
                e \in ToSet(batch[d]) <=> \E i \in 1..n : Line[i] = e
          /\ ToSet(batch[d]) \subseteq Event
      <4>1. /\ DOMAIN inflight = 1..n
            /\ \A i \in 1..n : Line[i] = inflight[i] /\ inflight[i] \in Event
        BY LineType, LenProperties, ElementOfSeq DEF TypeOK
      <4> QED
        BY <2>2, <4>1 DEF ToSet
    <3>3. n \in 1..Len(Line)
      <4>1. PICK e \in ToSet(batch[d]) : charged = attempts[e] + 1
        BY <3>1
      <4>2. PICK i \in 1..n : Line[i] = e
        BY <3>2, <4>1
      <4> QED
        BY <1>t, <1>c, <4>2
    <3>4. PICK h \in Event : h = Line[1] /\ h \in ToSet(batch[d])
      <4>1. Line[1] \in Event /\ 1 \in 1..n
        BY <1>t, <3>3, ElementOfSeq
      <4> QED
        BY <3>2, <4>1
    <3>5. charged = attempts[h] + 1 /\ charged \in Nat \ {0}
      <4>1. PICK e \in ToSet(batch[d]) : charged = attempts[e] + 1
        BY <3>1
      <4>2. PICK i \in 1..n : Line[i] = e
        BY <3>2, <4>1
      <4>3. attempts[e] <= attempts[h]
        <5>1. i \in 1..Len(Line)
          BY <1>t, <3>3, <4>2
        <5>2. attempts[Line[i]] <= attempts[Line[1]]
          BY <1>c, <5>1 DEF Charged
        <5> QED
          BY <3>4, <4>2, <5>2
      <4>4. attempts[h] < charged
        BY <3>1, <3>4
      <4>5. attempts[e] \in Nat /\ attempts[h] \in Nat
        BY <1>t, <3>2, <4>1
      <4> QED
        BY <4>1, <4>3, <4>4, <4>5
    <3>6. /\ failures[h] >= attempts[h] + Uncharged(h)
          /\ Uncharged(h) \in Nat /\ Uncharged(h)' \in Nat
          /\ failures[h] \in Nat /\ failures'[h] \in Nat /\ attempts[h] \in Nat
          /\ failures[h] - Uncharged(h) < failures'[h] - Uncharged(h)'
      <4>1. failures[h] >= attempts[h] + Uncharged(h)
        BY <1>t, <3>3, <3>4 DEF BudgetInv
      <4> QED
        BY <1>t, <1>6, <3>4, <4>1, UnchargedStep
    <3>7. failures'[h] >= charged + Uncharged(h)' /\ failures'[h] >= charged
      BY <3>5, <3>6
    <3>8. \A e \in Event : failures'[e] >= Uncharged(e)'
      <4> SUFFICES ASSUME NEW e \in Event PROVE failures'[e] >= Uncharged(e)'
        OBVIOUS
      <4>1. /\ Uncharged(e) \in Nat /\ Uncharged(e)' \in Nat
            /\ failures[e] \in Nat /\ failures'[e] \in Nat
            /\ failures[e] - Uncharged(e) <= failures'[e] - Uncharged(e)'
        BY UnchargedStep
      <4>2. failures[e] >= Uncharged(e)
        BY DEF BudgetInv
      <4> QED
        BY <4>1, <4>2
    <3>9. CASE /\ HasBudget(charged)
               /\ attempts' = [e \in Event |->
                     IF e \in ToSet(batch[d]) THEN charged ELSE attempts[e]]
               /\ UNCHANGED <<inflight, fate>>
      <4>1. Line' = Line
        BY <2>p, <3>9 DEF Line
      <4>2. \A e \in Event : attempts'[e] = IF \E i \in 1..n : Line[i] = e
                                            THEN charged ELSE attempts[e]
        BY <3>2, <3>9
      <4>3. Charged(Line', Len(inflight'), attempts')
        <5>1. Charged(Line, n, attempts')
          <6>1. PICK b \in [Event -> Nat] : b = attempts'
            BY <1>t
          <6>2. \A i \in 1..n : b[Line[i]] = charged
            BY <1>t, <3>3, <4>2, <6>1, ElementOfSeq
          <6>a. n \in Nat /\ Len(Line) \in Nat /\ n <= Len(Line)
            BY <1>t, <3>3
          <6>3. ASSUME NEW i \in n + 1..Len(Line) PROVE b[Line[i]] = attempts[Line[i]]
            <7>1. i \in 1..Len(Line) /\ Line[i] \in Event
              BY <1>t, <3>3, ElementOfSeq
            <7>2. ASSUME NEW j \in 1..n PROVE Line[j] # Line[i]
              <8> HIDE DEF n
              <8>1. j \in 1..Len(Line) /\ j # i
                BY <6>a
              <8> QED
                BY <1>x, <7>1, <8>1 DEF Exact
            <7> QED
              BY <4>2, <6>1, <7>1, <7>2
          <6> HIDE DEF n
          <6>4. Charged(Line, n, b)
            BY <1>c, <1>t, <3>3, <3>5, <6>2, <6>3, ChargedFail
          <6> QED
            BY <6>1, <6>4
        <5> QED
          BY <3>9, <4>1, <5>1
      <4>4. \A e \in Event : attempts'[e] < MaxAttempts
        BY <3>9 DEF HasBudget, BudgetInv
      <4>5. \A e \in Event : fate'[e] = "unseen" => attempts'[e] = 0
        <5> SUFFICES ASSUME NEW e \in Event, fate[e] = "unseen"
                     PROVE  attempts'[e] = 0
          BY <3>9
        <5>1. e \notin ToSet(batch[d])
          BY <2>2, InflightQueued DEF Queued
        <5> QED
          BY <3>9, <5>1 DEF BudgetInv
      <4>6. failures'[Line'[1]] >= attempts'[Line'[1]] + (Uncharged(Line[1]))'
        <5>1. (Uncharged(Line[1]))' = Uncharged(h)' /\ attempts'[Line'[1]] = charged
          BY <3>4, <3>9, <4>1 DEF Uncharged, FailingWith
        <5> QED
          BY <3>4, <3>7, <4>1, <5>1
      <4>7. \A e \in Event : fate'[e] = "dead" => fate[e] = "dead"
        BY <3>9
      <4> QED
        BY <1>q, <3>8, <4>3, <4>4, <4>5, <4>6, <4>7
    <3>10. CASE /\ ~HasBudget(charged)
                /\ inflight' = <<>> /\ fate' = Settle(batch[d], "dead")
                /\ UNCHANGED attempts
      <4>1. fate'[h] = "dead"
        BY <3>4, <3>10 DEF Settle
      <4>2. failures'[h] >= MaxAttempts
        BY <1>m, <3>5, <3>6, <3>7, <3>10 DEF HasBudget
      <4>3. \A e \in Event : fate'[e] = "unseen" => attempts'[e] = 0
        BY <3>10 DEF Settle, BudgetInv
      <4>4. n > 0
        BY <1>t, <3>3
      <4>5. attempts' = attempts /\ inflight' = <<>>
        BY <3>10
      <4> QED
        BY <1>q, <1>s, <1>t, <2>p, <4>1, <4>2, <4>3, <4>4, <4>5, CountedStep
    <3> QED
      BY <3>1, <3>9, <3>10
  <2> QED
    BY <2>1, <2>2
<1>7. \A e \in Event : ~RemovePendingEvent(e)
  BY DEF RemovePendingEvent
<1> QED
  BY QueueStep, CountsStep, <1>1, <1>2, <1>3, <1>4, <1>5, <1>6, <1>7

\* While no admin cancels an event of the actor, a batch is given up only after
\* its first event failed the full budget of handler runs, whatever crashes,
\* restores and stalled drains fall between them, and nothing waits with its
\* budget spent.
THEOREM BudgetIsKept ==
    ASSUME IsFiniteSet(Drain), Controllable = {}
    PROVE  Spec => []RetryBudget
<1>1. Init => BudgetInv
  <2> SUFFICES ASSUME Init PROVE BudgetInv
    OBVIOUS
  <2>1. Line = <<>> /\ Len(Line) = 0 /\ Len(inflight) = 0
    BY EmptySeq, ConcatEmptySeq DEF Init, Line
  <2>2. Charged(Line, Len(inflight), attempts)
    BY <2>1 DEF Charged
  <2>3. \A e \in Event : Uncharged(e) = 0
    <3> SUFFICES ASSUME NEW e \in Event PROVE Cardinality(FailingWith(e)) = 0
      BY DEF Uncharged
    <3>1. FailingWith(e) = {}
      BY DEF Init, FailingWith
    <3> QED
      BY <3>1, FS_EmptySet
  <2> QED
    BY <2>1, <2>2, <2>3, MaxAttemptsAssumption DEF Init, BudgetInv
<1>2. BudgetInv => RetryBudget
  BY DEF BudgetInv, RetryBudget
<1>3. TypeOK /\ TypeOK' /\ QueueIsExact /\ BudgetInv /\ [Next]_vars => BudgetInv'
  BY BudgetStep
<1> QED
  BY <1>1, <1>2, <1>3, Typing, Exactness, PTL DEF Spec

=============================================================================
