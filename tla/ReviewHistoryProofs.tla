------------------------ MODULE ReviewHistoryProofs ------------------------
(***************************************************************************)
(* For any number of pushes, mentions, changes of state and faults: the      *)
(* markers a review starts from can be trusted, and once all is quiet the    *)
(* commits of an open merge request have been reviewed, with the exceptions  *)
(* that ReviewedUnlessMasked names.                                         *)
(***************************************************************************)
EXTENDS ReviewHistory, SequenceTheorems, TLAPS

\* What a handler knows of the head at each phase: the checkout is not behind the
\* event, the context is the event's head, and the review's base is honest.
HandlerInv ==
    /\ phase = "checkout" => Handled.head <= head
    /\ phase = "context" => Handled.head <= checkout
    /\ phase \in {"work", "publish"} /\ Handled.type = "auto_review" =>
          /\ context <= checkout
          /\ 1..base \subseteq reviewed \cup masked
    /\ phase = "publish" => Handled.type = "auto_review"

Inv == TypeOK /\ HandlerInv /\ MarkersAreHonest

-----------------------------------------------------------------------------

\* The last element of a sequence that has one.
LEMMA LastInSeq ==
  ASSUME NEW S, NEW s \in Seq(S), s # <<>>
  PROVE  Last(s) = s[Len(s)] /\ Last(s) \in S
  BY DEF Last

\* A webhook asks for nothing but well-typed events.
LEMMA RequestsTyped ==
  ASSUME NEW w \in Webhooks, NEW r \in Requests(w)
  PROVE  r.event \in Events
  <1>1. \A t \in {"auto_review", "mention", "sandbox_cleanup"} : Event(t, w) \in Events
    BY DEF Webhooks, Events, Event
  <1>2. CASE w.action \in {"close", "merge"}
    BY <1>1, <1>2 DEF Requests
  <1>3. CASE w.action \in {"open", "reopen"}
    BY <1>1, <1>3 DEF Requests
  <1>4. CASE w.action = "update"
    BY <1>1, <1>4 DEF Requests
  <1>5. CASE w.action = "note"
    BY <1>1, <1>5 DEF Requests
  <1> QED
    BY <1>2, <1>3, <1>4, <1>5 DEF Webhooks, Actions

\* The merge request has just been opened.
LEMMA Initially == Init => Inv
  <1> SUFFICES ASSUME Init PROVE Inv
    OBVIOUS
  <1>1. head \in Heads /\ checkout \in Heads /\ context \in Heads
    BY BoundsAssumption DEF Init, Heads
  <1>2. [action |-> "open", head |-> 1, draft |-> draft, pushed |-> FALSE,
         ready |-> FALSE, note |-> NoNote] \in Webhooks
    BY <1>1 DEF Init, Webhooks, Actions
  <1>3. transit \in Seq(Webhooks)
    BY <1>2 DEF Init
  <1>4. TypeOK
    <2>1. marks \in Seq(Marks) /\ queue \in Seq(Events) /\ batch \in Seq(Events)
      BY DEF Init
    <2>2. draft \in BOOLEAN /\ sandbox \in BOOLEAN
      BY DEF Init
    <2>3. written \subseteq Note /\ receipts \subseteq Heads
          /\ reviewed \subseteq Heads /\ masked \subseteq Heads
      BY DEF Init
    <2> QED
      BY <1>1, <1>3, <2>1, <2>2, <2>3 DEF Init, TypeOK
  <1> QED
    BY <1>4 DEF Init, Inv, HandlerInv, MarkersAreHonest

\* What people do reaches the handler only through the head, which grows.
LEMMA PeopleStep ==
  ASSUME Inv, People
  PROVE  Inv'
  <1> USE DEF Inv
  <1>1. /\ head' \in Heads /\ head <= head'
        /\ UNCHANGED <<marks, store, worker, history>>
        /\ draft' \in BOOLEAN /\ state' \in {"opened", "closed", "merged"}
        /\ written' \subseteq Note
        /\ toggles' \in Nat /\ UNCHANGED <<faults, overtakes>>
    <2>1. CASE Push
      BY <2>1, BoundsAssumption DEF Push, TypeOK, Heads, bounds
    <2>2. CASE ToggleDraft
      BY <2>2 DEF ToggleDraft, TypeOK, Heads
    <2>3. CASE \E a \in Actions : ChangeState(a)
      BY <2>3 DEF ChangeState, TypeOK, Heads
    <2>4. CASE \E n \in Note : Mention(n)
      BY <2>4 DEF Mention, TypeOK, Heads, bounds
    <2> QED
      BY <2>1, <2>2, <2>3, <2>4 DEF People
  <1>2. transit' \in Seq(Webhooks)
    <2>1. \A a \in Actions :
             /\ Webhook(a) \in Webhooks
             /\ [Webhook(a) EXCEPT !.pushed = TRUE] \in Webhooks
             /\ [Webhook(a) EXCEPT !.ready = draft] \in Webhooks
             /\ \A n \in Note : [Webhook(a) EXCEPT !.note = n] \in Webhooks
      BY <1>1 DEF Webhook, Webhooks, TypeOK
    <2>2. CASE Push
      BY <2>1, <2>2 DEF Push, TypeOK, Actions
    <2>3. CASE ToggleDraft
      BY <2>1, <2>3 DEF ToggleDraft, TypeOK, Actions
    <2>4. CASE \E a \in Actions : ChangeState(a)
      BY <2>1, <2>4 DEF ChangeState, TypeOK, Actions
    <2>5. CASE \E n \in Note : Mention(n)
      BY <2>1, <2>5 DEF Mention, TypeOK, Actions
    <2> QED
      BY <2>2, <2>3, <2>4, <2>5 DEF People
  <1>3. TypeOK'
    BY <1>1, <1>2 DEF TypeOK, store, worker, view, history
  <1>4. HandlerInv'
    <2>1. Handled' = Handled /\ (phase # "idle" => batch # <<>>)
      BY <1>1 DEF Handled, worker, TypeOK
    <2>2. phase = "checkout" => Handled.head \in Heads
      <3> SUFFICES ASSUME phase = "checkout" PROVE Handled.head \in Heads
        OBVIOUS
      <3>1. Handled \in Events
        BY <2>1, LastInSeq DEF TypeOK, Handled
      <3> QED
        BY <3>1 DEF Events
    <2> QED
      BY <1>1, <2>1, <2>2 DEF HandlerInv, worker, view, history, TypeOK, Heads
  <1>5. MarkersAreHonest'
    BY <1>1 DEF MarkersAreHonest, history
  <1> QED
    BY <1>3, <1>4, <1>5

\* A webhook, in whatever order it arrives, only touches the queue.
LEMMA DeliverStep ==
  ASSUME Inv, NEW i \in 1..Len(transit), Deliver(i)
  PROVE  Inv'
  <1> USE DEF Inv
  <1>1. transit' \in Seq(Webhooks) /\ transit[i] \in Webhooks
    <2>1. transit \in Seq(Webhooks) /\ transit' = RemoveAt(transit, i)
      BY DEF Deliver, TypeOK
    <2>2. /\ SubSeq(transit, 1, i - 1) \in Seq(Webhooks)
          /\ SubSeq(transit, i + 1, Len(transit)) \in Seq(Webhooks)
      BY <2>1
    <2> QED
      BY <2>1, <2>2 DEF RemoveAt
  <1>2. queue' \in Seq(Events)
    <2>1. CASE UNCHANGED queue
      BY <2>1 DEF TypeOK
    <2>2. CASE \E r \in Requests(transit[i]) : queue' = Append(queue, r.event)
      <3> PICK r \in Requests(transit[i]) : queue' = Append(queue, r.event)
        BY <2>2
      <3>1. r.event \in Events
        BY <1>1, RequestsTyped
      <3> QED
        BY <3>1 DEF TypeOK
    <2> QED
      BY <2>1, <2>2 DEF Deliver
  <1>3. TypeOK'
    BY <1>1, <1>2 DEF Deliver, TypeOK, worker, view, history, bounds
  <1>4. HandlerInv' /\ MarkersAreHonest'
    BY DEF Deliver, HandlerInv, MarkersAreHonest, Handled, worker, view, history
  <1> QED
    BY <1>3, <1>4

\* Where the handler's event comes from and where it goes.
LEMMA QueueStep ==
  ASSUME Inv, Pop \/ Ack \/ Fault
  PROVE  Inv'
  <1> USE DEF Inv
  <1>1. CASE Pop
    <2> PICK n \in 1..Len(queue) :
           batch' = SubSeq(queue, 1, n) /\ queue' = SubSeq(queue, n + 1, Len(queue))
      BY <1>1 DEF Pop
    <2>1. batch' \in Seq(Events) /\ queue' \in Seq(Events) /\ batch' # <<>>
      <3>1. queue \in Seq(Events)
        BY DEF TypeOK
      <3>2. /\ 1 \in Int /\ n \in Int /\ n + 1 \in Int /\ Len(queue) \in Int
            /\ \A i \in 1..n : queue[i] \in Events
            /\ \A i \in (n + 1)..Len(queue) : queue[i] \in Events
        BY <3>1
      <3>3. batch' \in Seq(Events) /\ Len(batch') = n
        BY <3>2, SubSeqProperties
      <3>4. queue' \in Seq(Events)
        BY <3>2, SubSeqProperties
      <3> QED
        BY <3>3, <3>4
    <2> QED
      BY <1>1, <2>1 DEF Pop, TypeOK, HandlerInv, MarkersAreHonest, gitlab, view,
                        history, bounds
  <1>2. CASE Ack
    BY <1>2 DEF Ack, TypeOK, HandlerInv, MarkersAreHonest, gitlab, store, view,
                history, bounds
  <1>3. CASE Fault
    BY <1>3 DEF Fault, TypeOK, HandlerInv, MarkersAreHonest, gitlab, view, history
  <1> QED
    BY <1>1, <1>2, <1>3

\* The steps that only look at the merge request.
LEMMA LookStep ==
  ASSUME Inv,
         \/ CleanUp \/ Preflight \/ Checkout \/ BuildReviewContext \/ CheckHead
         \/ BuildMentionContext
  PROVE  Inv'
  <1> USE DEF Inv
  <1>1. TypeOK'
    <2>1. CASE CleanUp
      BY <2>1 DEF CleanUp, TypeOK, gitlab, store, view, history, bounds
    <2>2. CASE Preflight
      BY <2>2 DEF Preflight, TypeOK, gitlab, store, view, history, bounds
    <2>3. CASE Checkout
      BY <2>3 DEF Checkout, TypeOK, gitlab, store, history, bounds
    <2>4. CASE BuildReviewContext
      <3>1. LastMarked \in Nat
        <4>1. CASE marks = <<>>
          BY <4>1 DEF LastMarked
        <4>2. CASE marks # <<>>
          <5>1. Last(marks) \in Marks
            BY <4>2, LastInSeq DEF TypeOK
          <5> QED
            BY <4>2, <5>1 DEF LastMarked, Marks, Heads
        <4> QED
          BY <4>1, <4>2
      <3> QED
        BY <2>4, <3>1 DEF BuildReviewContext, TypeOK, gitlab, store, history, bounds
    <2>5. CASE CheckHead
      BY <2>5 DEF CheckHead, TypeOK, gitlab, store, view, history, bounds
    <2>6. CASE BuildMentionContext
      BY <2>6 DEF BuildMentionContext, TypeOK, gitlab, store, history, bounds
    <2> QED
      BY <2>1, <2>2, <2>3, <2>4, <2>5, <2>6
  <1>2. MarkersAreHonest'
    BY DEF MarkersAreHonest, CleanUp, Preflight, Checkout, BuildReviewContext,
           CheckHead, BuildMentionContext, gitlab, history
  <1>3. Handled' = Handled
    BY DEF Handled, CleanUp, Preflight, Checkout, BuildReviewContext, CheckHead,
           BuildMentionContext
  <1>4. HandlerInv'
    <2>1. CASE CleanUp
      BY <1>3, <2>1 DEF CleanUp, HandlerInv
    <2>2. CASE Preflight
      BY <1>3, <2>2 DEF Preflight, HandlerInv, TypeOK, Heads, gitlab
    <2>3. CASE Checkout
      BY <1>3, <2>3 DEF Checkout, HandlerInv
    <2>4. CASE BuildReviewContext
      <3>1. 1..base' \subseteq reviewed' \cup masked'
        BY <2>4, LastInSeq
           DEF BuildReviewContext, LastMarked, MarkersAreHonest, TypeOK, history
      <3> QED
        BY <1>3, <2>4, <3>1 DEF BuildReviewContext, HandlerInv, TypeOK, Heads
    <2>5. CASE CheckHead
      BY <1>3, <2>5 DEF CheckHead, HandlerInv, view, history
    <2>6. CASE BuildMentionContext
      BY <1>3, <2>6 DEF BuildMentionContext, HandlerInv
    <2> QED
      BY <2>1, <2>2, <2>3, <2>4, <2>5, <2>6
  <1> QED
    BY <1>1, <1>2, <1>4

\* The mention agent's own push moves the head on, as any other push does.
LEMMA PushFixStep ==
  ASSUME Inv, PushFix
  PROVE  Inv'
  <1> USE DEF Inv
  <1>1. head' \in Heads
    BY BoundsAssumption DEF PushFix, TypeOK, Heads
  <1>2. transit' \in Seq(Webhooks)
    <2>1. [Webhook("update") EXCEPT !.pushed = TRUE] \in Webhooks
      BY <1>1 DEF PushFix, TypeOK, Webhook, Webhooks, Actions
    <2> QED
      BY <2>1 DEF PushFix, TypeOK
  <1>3. TypeOK'
    BY <1>1, <1>2 DEF PushFix, TypeOK, store, view, history, bounds
  <1>4. HandlerInv' /\ MarkersAreHonest'
    BY DEF PushFix, HandlerInv, MarkersAreHonest, history
  <1> QED
    BY <1>3, <1>4

\* A reply marks the head of its context, and what it hides is masked.
LEMMA ReplyStep ==
  ASSUME Inv, Reply
  PROVE  Inv'
  <1> USE DEF Inv
  <1> DEFINE note == [kind |-> "reply", head |-> context, note |-> Handled.note]
  <1>1. note \in Marks
    <2>1. Handled \in Events
      BY LastInSeq DEF Reply, Handled, TypeOK
    <2> QED
      BY <2>1 DEF Events, Marks, TypeOK
  <1>2. marks' = Append(marks, note) /\ marks' \in Seq(Marks)
    BY <1>1 DEF Reply, TypeOK
  <1>3. masked' \subseteq Heads /\ 1..context \subseteq reviewed \cup masked'
    BY BoundsAssumption DEF Reply, TypeOK, Heads
  <1>4. TypeOK'
    BY <1>2, <1>3 DEF Reply, TypeOK, store, view, bounds
  <1>5. HandlerInv'
    BY DEF Reply, HandlerInv
  <1>6. MarkersAreHonest'
    <2> SUFFICES ASSUME NEW i \in 1..Len(marks')
                 PROVE  1..marks'[i].head \subseteq reviewed \cup masked'
      BY DEF MarkersAreHonest, Reply
    <2>1. CASE i \in 1..Len(marks)
      <3>1. marks'[i] = marks[i]
        BY <1>1, <1>2, <2>1 DEF TypeOK
      <3>2. masked \subseteq masked'
        BY DEF Reply
      <3> QED
        BY <2>1, <3>1, <3>2 DEF MarkersAreHonest
    <2>2. CASE i = Len(marks) + 1
      BY <1>2, <1>3, <2>2 DEF TypeOK
    <2> QED
      BY <1>1, <1>2, <2>1, <2>2 DEF TypeOK
  <1> QED
    BY <1>4, <1>5, <1>6

\* The summary is one of the old notes in place, or one more.
LEMMA UpsertedHeads ==
  ASSUME TypeOK, NEW h \in Heads
  PROVE  /\ Upserted(h) \in Seq(Marks)
         /\ \A i \in 1..Len(Upserted(h)) :
              \/ Upserted(h)[i].head = h
              \/ i \in 1..Len(marks) /\ Upserted(h)[i] = marks[i]
  <1> DEFINE note == [kind |-> "summary", head |-> h, note |-> NoNote]
             old  == {i \in 1..Len(marks) : marks[i].kind = "summary"}
  <1>1. note \in Marks /\ marks \in Seq(Marks)
    BY DEF Marks, TypeOK
  <1>2. CASE old = {}
    <2>1. Upserted(h) = Append(marks, note)
      BY <1>2 DEF Upserted
    <2> QED
      BY <1>1, <2>1
  <1>3. CASE old # {}
    <2> DEFINE f == [i \in 1..Len(marks) |-> IF i \in old THEN note ELSE marks[i]]
    <2>1. Upserted(h) = f
      BY <1>3 DEF Upserted
    <2>2. Len(marks) \in Nat /\ \A i \in 1..Len(marks) : marks[i] \in Marks
      BY <1>1
    <2>3. f \in [1..Len(marks) -> Marks]
      BY <1>1, <2>2
    <2>4. f \in Seq(Marks) /\ Len(f) = Len(marks)
      BY <2>2, <2>3, SeqDef, LenProperties
    <2> HIDE DEF note
    <2>5. \A i \in 1..Len(marks) : f[i] = note \/ f[i] = marks[i]
      OBVIOUS
    <2> QED
      BY <2>1, <2>4, <2>5 DEF note
  <1> QED
    BY <1>2, <1>3

\* A review reaches from its honest base over everything up to its context.
LEMMA PublishStep ==
  ASSUME Inv, PublishReview
  PROVE  Inv'
  <1> USE DEF Inv
  <1>1. context \in Heads /\ checkout \in Heads /\ base \in Nat /\ context <= checkout
    BY DEF PublishReview, HandlerInv, TypeOK
  <1>2. reviewed \subseteq reviewed' /\ reviewed' \subseteq Heads
    BY <1>1, BoundsAssumption DEF PublishReview, TypeOK, Heads
  <1>3. 1..context \subseteq reviewed' \cup masked'
    <2>1. 1..base \subseteq reviewed \cup masked
      BY DEF PublishReview, HandlerInv
    <2>2. masked' = masked /\ reviewed' = reviewed \cup (base + 1)..checkout
      BY DEF PublishReview
    <2> SUFFICES ASSUME NEW c \in 1..context PROVE c \in reviewed' \cup masked'
      OBVIOUS
    <2>3. c \in Nat /\ 1 <= c /\ c <= checkout
      BY <1>1 DEF Heads
    <2>4. CASE c <= base
      BY <1>1, <2>1, <2>2, <2>3, <2>4
    <2>5. CASE base < c
      BY <1>1, <2>2, <2>3, <2>5 DEF Heads
    <2> QED
      BY <1>1, <2>3, <2>4, <2>5
  <1>4. /\ marks' \in Seq(Marks)
        /\ \A i \in 1..Len(marks') :
             \/ marks'[i].head = context
             \/ i \in 1..Len(marks) /\ marks'[i] = marks[i]
    <2>1. CASE marks' = marks
      BY <2>1 DEF TypeOK
    <2>2. CASE marks' = Upserted(context)
      BY <1>1, <2>2, UpsertedHeads
    <2> QED
      BY <2>1, <2>2 DEF PublishReview
  <1>5. TypeOK'
    BY <1>1, <1>2, <1>4 DEF PublishReview, TypeOK, view, bounds
  <1>6. HandlerInv'
    BY DEF PublishReview, HandlerInv
  <1>7. MarkersAreHonest'
    BY <1>2, <1>3, <1>4 DEF MarkersAreHonest, PublishReview
  <1> QED
    BY <1>5, <1>6, <1>7

-----------------------------------------------------------------------------

LEMMA InvStep == Inv /\ [Next]_vars => Inv'
  <1> SUFFICES ASSUME Inv, [Next]_vars PROVE Inv'
    OBVIOUS
  <1>1. CASE UNCHANGED vars
    BY <1>1 DEF vars, gitlab, store, view, worker, history, bounds, Inv, TypeOK,
                HandlerInv, MarkersAreHonest, Handled
  <1>2. CASE Next
    BY <1>2, PeopleStep, DeliverStep, QueueStep, LookStep, PushFixStep, ReplyStep,
       PublishStep
       DEF Next, Handler
  <1> QED
    BY <1>1, <1>2

\* Up to every marked head each commit was reviewed, or was on a head whose
\* mention was answered first: a review may start from the last marker without
\* looking at how it came there (auto_review/orchestrator.py:699-703).
THEOREM Honest == Spec => []MarkersAreHonest
  <1>1. Inv => MarkersAreHonest
    BY DEF Inv
  <1> QED
    BY Initially, InvStep, <1>1, PTL DEF Spec

-----------------------------------------------------------------------------
(* Every head is reviewed in the end, but for what is masked *)

ReviewKinds == {"open", "reopen", "update", "draft-ready"}

IsReview(e) == e.type = "auto_review"

\* A webhook that asks for a review of its head.
Wants(w) == \E r \in Requests(w) : IsReview(r.event)

\* The events of the actor, in order: what is being handled and what waits.
Line == batch \o queue

Covered(h) == 1..h \subseteq reviewed \cup masked

Underway == phase \notin {"idle", "done"} /\ IsReview(Handled) /\ Handled.head = head

\* The head is reviewed, or is about to be.
Answering ==
    \/ Covered(head)
    \/ \E i \in 1..Len(queue) : IsReview(queue[i]) /\ queue[i].head = head
    \/ Underway

Asked == \E i \in 1..Len(transit) : Wants(transit[i]) /\ transit[i].head = head

\* Nothing is about a head that is not there yet, and webhooks are sent in order.
NotAhead ==
    /\ \A i \in 1..Len(transit) : transit[i].head <= head
    /\ \A i, j \in 1..Len(transit) : i <= j => transit[i].head <= transit[j].head
    /\ \A k \in ReviewKinds, h \in Heads : <<k, h>> \in seen => h <= head
    /\ \A i \in 1..Len(Line) : Line[i].head <= head

\* Reviews are queued in the order of their heads, and none on its way is older.
InOrder ==
    /\ \A i, j \in 1..Len(Line) :
          i <= j /\ IsReview(Line[i]) /\ IsReview(Line[j]) => Line[i].head <= Line[j].head
    /\ \A i \in 1..Len(Line), j \in 1..Len(transit) :
          IsReview(Line[i]) /\ Wants(transit[j]) => Line[i].head <= transit[j].head

\* A batch with a review is handled as a review, of the head of its event.
BatchInv ==
    /\ phase = "idle" => batch = <<>>
    /\ \A i \in 1..Len(batch) : IsReview(batch[i]) => IsReview(Handled)
    /\ phase \in {"work", "publish"} /\ IsReview(Handled) => context = Handled.head

\* The head of a merge request that is no draft was asked for; whatever was asked
\* for once, and is dropped as seen from then on, is being answered.
PromiseInv ==
    ~disordered =>
      /\ InOrder
      /\ ~draft => Asked \/ Answering
      /\ \A k \in ReviewKinds : <<k, head>> \in seen => Answering

WatchInv == NotAhead /\ BatchInv /\ PromiseInv

\* The one event a webhook asks for is about its head, and its id tells reviews of
\* a head from everything else.
LEMMA RequestOf ==
  ASSUME NEW w \in Webhooks, NEW r \in Requests(w)
  PROVE  /\ r.event.head = w.head
         /\ Requests(w) = {r}
         /\ IsReview(r.event) => \E k \in ReviewKinds : r.id = <<k, w.head>>
         /\ \A k \in ReviewKinds, h \in Heads :
               r.id = <<k, h>> => IsReview(r.event) /\ h = w.head
  <1> USE DEF IsReview, ReviewKinds, Event
  <1>1. CASE w.action \in {"close", "merge"}
    BY <1>1 DEF Requests
  <1>2. CASE w.action \in {"open", "reopen"}
    BY <1>2 DEF Requests
  <1>3. CASE w.action = "update"
    BY <1>3 DEF Requests
  <1>4. CASE w.action = "note"
    BY <1>4 DEF Requests
  <1> QED
    BY <1>1, <1>2, <1>3, <1>4 DEF Webhooks, Actions

LEMMA LineType ==
  TypeOK => /\ Line \in Seq(Events) /\ Len(Line) = Len(batch) + Len(queue)
            /\ Len(batch) \in Nat /\ Len(queue) \in Nat
            /\ \A i \in 1..Len(batch) : i \in 1..Len(Line) /\ Line[i] = batch[i]
            /\ \A i \in 1..Len(queue) :
                  Len(batch) + i \in 1..Len(Line) /\ Line[Len(batch) + i] = queue[i]
            /\ \A i \in 1..Len(Line) : Line[i].head \in Heads
  <1> SUFFICES ASSUME TypeOK
               PROVE  /\ Line \in Seq(Events) /\ Len(Line) = Len(batch) + Len(queue)
                      /\ Len(batch) \in Nat /\ Len(queue) \in Nat
                      /\ \A i \in 1..Len(batch) : i \in 1..Len(Line) /\ Line[i] = batch[i]
                      /\ \A i \in 1..Len(queue) :
                            Len(batch) + i \in 1..Len(Line) /\ Line[Len(batch) + i] = queue[i]
                      /\ \A i \in 1..Len(Line) : Line[i].head \in Heads
    OBVIOUS
  <1>1. batch \in Seq(Events) /\ queue \in Seq(Events)
    BY DEF TypeOK
  <1>2. Line \in Seq(Events)
    BY <1>1 DEF Line
  <1>3. \A i \in 1..Len(Line) : Line[i].head \in Heads
    <2>1. \A i \in 1..Len(Line) : Line[i] \in Events
      BY <1>2
    <2> QED
      BY <2>1 DEF Events
  <1> QED
    BY <1>1, <1>2, <1>3 DEF Line

\* A step of the handler that leaves the queues alone.
LEMMA HandlingStep ==
  ASSUME TypeOK, WatchInv,
         UNCHANGED <<head, draft, transit, seen, queue, batch, disordered>>,
         reviewed \cup masked \subseteq reviewed' \cup masked',
         phase' # "idle", Underway => Underway' \/ (Covered(head))',
         phase' \in {"work", "publish"} /\ IsReview(Handled) => context' = Handled.head
  PROVE  WatchInv'
  <1>1. Line' = Line /\ Handled' = Handled /\ Asked' = Asked
    BY DEF Line, Handled, Asked
  <1>2. (Covered(head))' <=> 1..head \subseteq reviewed' \cup masked'
    BY DEF Covered
  <1>3. Answering => Answering'
    BY <1>1, <1>2 DEF Answering, Covered
  <1>4. NotAhead' /\ InOrder' = InOrder
    BY <1>1 DEF NotAhead, InOrder, WatchInv
  <1>5. BatchInv'
    BY <1>1 DEF BatchInv, WatchInv
  <1> QED
    BY <1>1, <1>3, <1>4, <1>5 DEF WatchInv, PromiseInv

\* The handler, from its first look at the merge request to its last.
LEMMA WatchedLook ==
  ASSUME Inv, WatchInv,
         \/ CleanUp \/ Preflight \/ Checkout \/ BuildReviewContext \/ CheckHead
         \/ BuildMentionContext \/ PublishReview \/ Reply
  PROVE  WatchInv'
  <1> USE DEF Inv, IsReview, gitlab, store, view, history
  <1>1. Handled' = Handled
    BY DEF Handled, CleanUp, Preflight, Checkout, BuildReviewContext, CheckHead,
           BuildMentionContext, PublishReview, Reply
  <1>2. Handled.head \in Heads
    <2>1. Handled \in Events
      BY LastInSeq DEF TypeOK, Handled, CleanUp, Preflight, Checkout, BuildReviewContext,
         CheckHead, BuildMentionContext, PublishReview, Reply
    <2> QED
      BY <2>1 DEF Events
  <1>3. CASE CleanUp
    BY <1>1, <1>3, HandlingStep DEF CleanUp, Underway
  <1>4. CASE Preflight
    BY <1>1, <1>4, HandlingStep DEF Preflight, Underway
  <1>5. CASE Checkout
    BY <1>1, <1>5, HandlingStep DEF Checkout, Underway
  <1>6. CASE BuildReviewContext
    <2>1. ASSUME Underway, ~Underway' PROVE (Covered(head))'
      <3>1. head \in Nat /\ checkout \in Nat /\ head <= checkout
        BY <1>6, <2>1 DEF Underway, BuildReviewContext, HandlerInv, TypeOK, Heads
      <3>2. LastMarked = checkout
        BY <1>1, <1>6, <2>1 DEF Underway, BuildReviewContext
      <3>3. 1..LastMarked \subseteq reviewed \cup masked
        BY LastInSeq DEF LastMarked, MarkersAreHonest, TypeOK
      <3> QED
        BY <1>6, <3>1, <3>2, <3>3 DEF BuildReviewContext, Covered
    <2> QED
      BY <1>1, <1>6, <2>1, HandlingStep DEF BuildReviewContext
  <1>7. CASE CheckHead
    BY <1>1, <1>7, HandlingStep DEF CheckHead, Underway, WatchInv, BatchInv
  <1>8. CASE BuildMentionContext
    BY <1>1, <1>8, HandlingStep DEF BuildMentionContext, Underway
  <1>9. CASE PublishReview
    <2>1. /\ reviewed' = reviewed \cup (base + 1)..checkout /\ masked' = masked
          /\ phase = "publish" /\ phase' = "done"
      BY <1>9 DEF PublishReview
    <2>2. ASSUME Underway PROVE (Covered(head))'
      <3>1. /\ head = context /\ context <= checkout /\ base \in Nat
            /\ head \in Nat /\ checkout \in Nat
            /\ 1..base \subseteq reviewed \cup masked
        BY <2>1, <2>2 DEF Underway, WatchInv, BatchInv, HandlerInv, TypeOK, Heads
      <3>2. \A c \in 1..head : c <= base \/ c \in (base + 1)..checkout
        BY <3>1
      <3>3. 1..head \subseteq reviewed' \cup masked'
        BY <2>1, <3>1, <3>2
      <3> QED
        BY <1>9, <3>3 DEF Covered, PublishReview
    <2> QED
      BY <1>1, <1>9, <2>1, <2>2, HandlingStep DEF PublishReview
  <1>10. CASE Reply
    BY <1>1, <1>10, HandlingStep DEF Reply, Underway
  <1> QED
    BY <1>3, <1>4, <1>5, <1>6, <1>7, <1>8, <1>9, <1>10

LEMMA FirstOf ==
  ASSUME NEW S, NEW s \in Seq(S), NEW n \in 1..Len(s)
  PROVE  /\ Len(SubSeq(s, 1, n)) = n /\ SubSeq(s, 1, n) # <<>>
         /\ \A i \in 1..n : SubSeq(s, 1, n)[i] = s[i]
         /\ Len(SubSeq(s, n + 1, Len(s))) = Len(s) - n
         /\ \A i \in 1..(Len(s) - n) : SubSeq(s, n + 1, Len(s))[i] = s[n + i]
  <1>1. Len(s) \in Nat /\ n \in Nat /\ n <= Len(s) /\ 1 <= n
    OBVIOUS
  <1>2. /\ \A i \in 1..n : s[i] \in S
        /\ \A i \in (n + 1)..Len(s) : s[i] \in S
    BY <1>1
  <1>3. Len(SubSeq(s, 1, n)) = n /\ \A i \in 1..n : SubSeq(s, 1, n)[i] = s[i]
    BY <1>1, <1>2, SubSeqProperties
  <1>4. /\ Len(SubSeq(s, n + 1, Len(s))) = Len(s) - n
        /\ \A i \in 1..(Len(s) - n) : SubSeq(s, n + 1, Len(s))[i] = s[n + i]
    BY <1>1, <1>2, SubSeqProperties
  <1> QED
    BY <1>1, <1>3, <1>4

\* Taking a batch, giving it back and acking it keep the order of the events.
LEMMA WatchedQueue ==
  ASSUME Inv, Inv', WatchInv, Pop \/ Ack \/ Fault
  PROVE  WatchInv'
  <1> USE DEF Inv
  <1>u. UNCHANGED <<gitlab, seen, history>>
    BY DEF Pop, Ack, Fault, store
  <1>l. /\ \A i \in 1..Len(batch) : i \in 1..Len(Line) /\ Line[i] = batch[i]
        /\ \A i \in 1..Len(queue) :
              Len(batch) + i \in 1..Len(Line) /\ Line[Len(batch) + i] = queue[i]
        /\ Len(batch) \in Nat /\ Len(queue) \in Nat
        /\ batch \in Seq(Events) /\ queue \in Seq(Events)
        /\ Len(Line) = Len(batch) + Len(queue)
        /\ \A i \in 1..Len(Line) : Line[i].head \in Heads
    BY LineType DEF TypeOK
  <1>1. PICK m \in {0, Len(batch)} :
           Len(Line') \in Nat /\ \A i \in 1..Len(Line') :
              i + m \in 1..Len(Line) /\ Line'[i] = Line[i + m]
    <2>1. CASE Pop
      <3>1. PICK n \in 1..Len(queue) :
               /\ batch' = SubSeq(queue, 1, n)
               /\ queue' = SubSeq(queue, n + 1, Len(queue))
        BY <2>1 DEF Pop
      <3>2. batch = <<>>
        BY <2>1 DEF Pop, WatchInv, BatchInv
      <3>3. Line = queue
        BY <1>l, <3>2 DEF Line
      <3>4. batch' \o queue' = queue
        BY <1>l, <3>1
      <3>5. Line' = Line
        BY <3>3, <3>4 DEF Line
      <3> QED
        BY <1>l, <3>5
    <2>2. CASE Ack
      <3>1. Line' = queue
        BY <1>l, <2>2 DEF Ack, Line, store
      <3> QED
        BY <1>l, <3>1
    <2>3. CASE Fault
      <3>1. Line' = Line
        BY <1>l, <2>3 DEF Fault, Line
      <3> QED
        BY <1>l, <3>1
    <2> QED
      BY <2>1, <2>2, <2>3
  <1>2. NotAhead'
    BY <1>u, <1>1 DEF NotAhead, WatchInv, gitlab
  <1>3. InOrder => InOrder'
    <2> SUFFICES ASSUME InOrder PROVE InOrder'
      OBVIOUS
    <2>1. transit' = transit
      BY <1>u DEF gitlab
    <2>2. ASSUME NEW i \in 1..Len(Line'), NEW j \in 1..Len(Line'), i <= j,
                 IsReview(Line'[i]), IsReview(Line'[j])
          PROVE  Line'[i].head <= Line'[j].head
      <3>1. /\ i + m \in 1..Len(Line) /\ Line'[i] = Line[i + m]
            /\ j + m \in 1..Len(Line) /\ Line'[j] = Line[j + m]
        BY <1>1
      <3>2. i + m <= j + m
        BY <1>l, <1>1, <2>2
      <3> QED
        BY <2>2, <3>1, <3>2 DEF InOrder
    <2>3. ASSUME NEW i \in 1..Len(Line'), NEW j \in 1..Len(transit),
                 IsReview(Line'[i]), Wants(transit[j])
          PROVE  Line'[i].head <= transit[j].head
      BY <1>1, <2>3 DEF InOrder
    <2> QED
      BY <2>1, <2>2, <2>3 DEF InOrder
  <1>4. BatchInv'
    <2>1. CASE Pop
      <3>1. PICK n \in 1..Len(queue) :
               IsNextBatch(n) /\ batch' = SubSeq(queue, 1, n)
        BY <2>1 DEF Pop
      <3>2. /\ Len(batch') = n /\ \A i \in 1..n : batch'[i] = queue[i]
            /\ batch' # <<>>
        BY <1>l, <3>1, FirstOf
      <3>3. Handled' = queue[n]
        BY <3>2 DEF Handled, Last
      <3>4. \A i \in 1..n : IsReview(queue[i]) => IsReview(queue[n])
        BY <1>l, <3>1 DEF IsNextBatch, IsReview
      <3> QED
        BY <2>1, <3>2, <3>3, <3>4 DEF BatchInv, Pop
    <2>2. CASE Ack \/ Fault
      <3>1. batch' = <<>> /\ phase' = "idle"
        BY <2>2 DEF Ack, Fault
      <3> QED
        BY <3>1 DEF BatchInv
    <2> QED
      BY <2>1, <2>2
  <1>5. ASSUME ~disordered, InOrder, Answering PROVE Answering'
    <2>1. CASE Covered(head)
      BY <1>u, <2>1 DEF Answering, Covered, gitlab, history
    <2>2. CASE Pop /\ \E i \in 1..Len(queue) : IsReview(queue[i]) /\ queue[i].head = head
      <3>1. PICK i \in 1..Len(queue) : IsReview(queue[i]) /\ queue[i].head = head
        BY <2>2
      <3>2. PICK n \in 1..Len(queue) :
               /\ IsNextBatch(n) /\ batch' = SubSeq(queue, 1, n)
               /\ queue' = SubSeq(queue, n + 1, Len(queue))
        BY <2>2 DEF Pop
      <3>3. /\ Len(batch') = n /\ batch' # <<>>
            /\ \A j \in 1..n : batch'[j] = queue[j]
            /\ \A j \in 1..(Len(queue) - n) : queue'[j] = queue[n + j]
            /\ Len(queue') = Len(queue) - n
        BY <1>l, <3>2, FirstOf
      <3>4. Handled' = queue[n]
        BY <3>3 DEF Handled, Last
      <3>5. batch = <<>> /\ phase' = "preflight" /\ head' = head
        BY <2>2 DEF Pop, WatchInv, BatchInv, gitlab
      <3>6. CASE i <= n
        <4>1. IsReview(queue[n])
          <5>1. Head(queue).type = "auto_review"
            BY <1>l, <3>1, <3>2, <3>6 DEF IsNextBatch, IsReview
          <5> QED
            BY <3>2, <5>1 DEF IsNextBatch, IsReview
        <4>2. Line = queue
          BY <1>l, <3>5 DEF Line
        <4>3. queue[i].head <= queue[n].head /\ queue[n].head <= head
          BY <1>5, <3>1, <3>2, <3>6, <4>1, <4>2 DEF InOrder, WatchInv, NotAhead
        <4>4. queue[n].head \in Nat /\ head \in Nat
          <5>1. queue[n].head \in Heads /\ head \in Heads
            BY <1>l, <3>2, <4>2 DEF TypeOK
          <5> QED
            BY <5>1 DEF Heads
        <4>5. queue[n].head = head
          BY <3>1, <4>3, <4>4
        <4> QED
          BY <3>4, <3>5, <4>1, <4>5 DEF Answering, Underway
      <3>7. CASE n < i
        <4>1. i - n \in 1..Len(queue') /\ queue'[i - n] = queue[i]
          <5>1. i - n \in 1..(Len(queue) - n) /\ n + (i - n) = i
            BY <1>l, <3>1, <3>2, <3>7
          <5> QED
            BY <3>3, <5>1
        <4> QED
          BY <3>1, <3>5, <4>1 DEF Answering
      <3> QED
        BY <1>l, <3>1, <3>2, <3>6, <3>7
    <2>3. CASE Ack /\ \E i \in 1..Len(queue) : IsReview(queue[i]) /\ queue[i].head = head
      BY <2>3 DEF Ack, Answering, gitlab, store
    <2>4. CASE Fault /\ \E i \in 1..Len(queue) : IsReview(queue[i]) /\ queue[i].head = head
      <3>1. PICK i \in 1..Len(queue) : IsReview(queue[i]) /\ queue[i].head = head
        BY <2>4
      <3>2. queue' = Line /\ head' = head
        BY <2>4 DEF Fault, Line, gitlab
      <3> QED
        BY <1>l, <3>1, <3>2 DEF Answering
    <2>5. CASE Underway
      <3>1. Fault
        BY <2>5 DEF Underway, Pop, Ack
      <3>2. queue' = Line /\ head' = head
        BY <3>1 DEF Fault, Line, gitlab
      <3>3. batch # <<>>
        BY <2>5 DEF Underway, TypeOK
      <3>4. Handled = batch[Len(batch)] /\ Len(batch) \in 1..Len(batch)
        BY <1>l, <3>3, LastInSeq DEF Handled
      <3> QED
        BY <1>l, <2>5, <3>2, <3>4 DEF Answering, Underway
    <2> QED
      BY <1>5, <2>1, <2>2, <2>3, <2>4, <2>5 DEF Answering, Underway
  <1>6. PromiseInv'
    <2>1. Asked => Asked'
      BY <1>u DEF Asked, gitlab
    <2> QED
      BY <1>u, <1>3, <1>5, <2>1 DEF PromiseInv, WatchInv, gitlab, history
  <1> QED
    BY <1>2, <1>4, <1>6 DEF WatchInv

\* A webhook w goes out, for a head that is not older; a new head has been asked
\* for by nothing before, and w asks for it unless the merge request is a draft.
LEMMA SentStep ==
  ASSUME Inv, Inv', WatchInv, NEW w \in Webhooks, transit' = Append(transit, w),
         w.head = head', head <= head', UNCHANGED <<seen, queue, batch, history>>,
         head' = head => phase' = phase, BatchInv',
         ~draft' => Wants(w) \/ (head' = head /\ ~draft)
  PROVE  WatchInv'
  <1> USE DEF Inv
  <1>1. /\ transit \in Seq(Webhooks) /\ Len(transit) \in Nat
        /\ Len(transit') = Len(transit) + 1 /\ transit'[Len(transit) + 1] = w
        /\ \A i \in 1..Len(transit) : transit'[i] = transit[i]
    BY DEF TypeOK
  <1>2. \A i \in 1..Len(transit') : i \in 1..Len(transit) \/ transit'[i] = w
    BY <1>1
  <1>3. Line' = Line /\ Handled' = Handled /\ Line \in Seq(Events)
    BY LineType DEF Line, Handled
  <1>4. head \in Nat /\ head' \in Nat /\ Len(Line) \in Nat
    <2>1. head \in Heads /\ head' \in Heads
      BY DEF TypeOK
    <2>2. Len(Line) \in Nat
      BY <1>3
    <2> QED
      BY <2>1, <2>2 DEF Heads
  <1>5. /\ \A i \in 1..Len(Line) : Line[i].head \in Nat /\ Line[i].head <= head
        /\ \A i \in 1..Len(transit) : transit[i].head \in Nat /\ transit[i].head <= head
    <2>1. \A i \in 1..Len(transit) : transit[i] \in Webhooks
      BY <1>1
    <2>2. \A i \in 1..Len(transit) : transit[i].head \in Heads
      BY <2>1 DEF Webhooks
    <2>3. \A i \in 1..Len(Line) : Line[i].head \in Heads
      BY LineType
    <2> QED
      BY <2>2, <2>3 DEF WatchInv, NotAhead, Heads
  <1>6. NotAhead'
    <2>1. \A i \in 1..Len(transit') : transit'[i].head <= head'
      BY <1>1, <1>2, <1>4, <1>5
    <2>2. ASSUME NEW i \in 1..Len(transit'), NEW j \in 1..Len(transit'), i <= j
          PROVE  transit'[i].head <= transit'[j].head
      <3>1. CASE j \in 1..Len(transit)
        <4>1. i \in 1..Len(transit)
          BY <1>1, <2>2, <3>1
        <4> QED
          BY <1>1, <2>2, <3>1, <4>1 DEF WatchInv, NotAhead
      <3>2. CASE transit'[j] = w
        BY <2>1, <3>2
      <3> QED
        BY <1>2, <3>1, <3>2
    <2>3. \A k \in ReviewKinds, h \in Heads : <<k, h>> \in seen' => h <= head'
      BY <1>4 DEF WatchInv, NotAhead, Heads
    <2>4. \A i \in 1..Len(Line') : Line'[i].head <= head'
      BY <1>3, <1>4, <1>5
    <2> QED
      BY <2>1, <2>2, <2>3, <2>4 DEF NotAhead
  <1>7. ASSUME InOrder PROVE InOrder'
    <2>1. ASSUME NEW i \in 1..Len(Line), NEW j \in 1..Len(transit'),
                 IsReview(Line[i]), Wants(transit'[j])
          PROVE  Line[i].head <= transit'[j].head
      <3>1. CASE j \in 1..Len(transit)
        BY <1>1, <1>7, <2>1, <3>1 DEF InOrder
      <3>2. CASE transit'[j] = w
        BY <1>4, <1>5, <3>2
      <3> QED
        BY <1>2, <3>1, <3>2
    <2> QED
      BY <1>3, <1>7, <2>1 DEF InOrder
  <1>8. CASE head' = head
    <2>1. Answering' = Answering
      BY <1>3, <1>8 DEF Answering, Underway, Covered, history
    <2>2. Asked => Asked'
      BY <1>1, <1>8 DEF Asked
    <2>3. Wants(w) => Asked'
      BY <1>1 DEF Asked
    <2>4. PromiseInv'
      BY <1>7, <1>8, <2>1, <2>2, <2>3 DEF PromiseInv, WatchInv, history
    <2> QED
      BY <1>6, <2>4 DEF WatchInv
  <1>9. CASE head' # head
    <2>1. Wants(w) => Asked'
      BY <1>1 DEF Asked
    <2>2. \A k \in ReviewKinds : <<k, head'>> \notin seen'
      <3>1. \A k \in ReviewKinds, h \in Heads : <<k, h>> \in seen => h <= head
        BY DEF WatchInv, NotAhead
      <3>2. head' \in Heads /\ ~(head' <= head)
        <4>1. head' \in Heads
          BY DEF TypeOK
        <4> QED
          BY <1>4, <1>9, <4>1
      <3>3. seen' = seen
        OBVIOUS
      <3> QED
        BY <3>1, <3>2, <3>3
    <2>3. PromiseInv'
      BY <1>7, <1>9, <2>1, <2>2 DEF PromiseInv, WatchInv, history
    <2> QED
      BY <1>6, <2>3 DEF WatchInv
  <1> QED
    BY <1>8, <1>9

\* A push to a merge request that is no draft and the end of a draft ask for a
\* review of the head.
LEMMA WatchedSend ==
  ASSUME Inv, Inv', WatchInv, People \/ PushFix
  PROVE  WatchInv'
  <1> USE DEF Inv, gitlab, store, view, worker, history, bounds
  <1>h. head \in Nat
    BY DEF TypeOK, Heads
  <1>1. CASE Push \/ PushFix
    <2>1. PICK w : w = [Webhook("update") EXCEPT !.pushed = TRUE]
      OBVIOUS
    <2>2. /\ transit' = Append(transit, w) /\ head' = head + 1 /\ draft' = draft
          /\ UNCHANGED <<seen, queue, batch, history>>
          /\ phase' \in {phase, "reply"}
      BY <1>1, <2>1 DEF Push, PushFix
    <2>3. /\ w.action = "update" /\ w.head = head' /\ w.pushed /\ w.draft = draft'
          /\ w \in Webhooks
      BY <2>1 DEF Webhook, Webhooks, TypeOK, Actions
    <2>4. ~draft' => Wants(w)
      BY <2>3 DEF Wants, Requests, IsReview, Event
    <2>5. BatchInv'
      BY <1>1 DEF Push, PushFix, BatchInv, WatchInv, Handled
    <2> QED
      BY <1>h, <2>2, <2>3, <2>4, <2>5, SentStep
  <1>2. CASE ToggleDraft
    <2>1. PICK w : w = [Webhook("update") EXCEPT !.ready = draft]
      OBVIOUS
    <2>2. /\ transit' = Append(transit, w) /\ head' = head /\ draft' = ~draft
          /\ UNCHANGED <<seen, queue, batch, history, phase>>
      BY <1>2, <2>1 DEF ToggleDraft
    <2>3. /\ w.action = "update" /\ w.head = head' /\ w.ready = draft /\ ~w.pushed
          /\ w \in Webhooks
      BY <2>1 DEF Webhook, Webhooks, TypeOK, Actions
    <2>4. draft => Wants(w)
      BY <2>3 DEF Wants, Requests, IsReview, Event
    <2>5. BatchInv'
      BY <1>2 DEF ToggleDraft, BatchInv, WatchInv, Handled
    <2> QED
      BY <1>h, <2>2, <2>3, <2>4, <2>5, SentStep
  <1>3. ASSUME NEW a \in Actions, ChangeState(a) PROVE WatchInv'
    <2>1. PICK w : w = Webhook(a)
      OBVIOUS
    <2>2. /\ transit' = Append(transit, w) /\ head' = head /\ draft' = draft
          /\ UNCHANGED <<seen, queue, batch, history, phase>>
      BY <1>3, <2>1 DEF ChangeState
    <2>3. w.head = head' /\ w \in Webhooks
      BY <2>1 DEF Webhook, Webhooks, TypeOK
    <2>4. BatchInv'
      BY <1>3 DEF ChangeState, BatchInv, WatchInv, Handled
    <2> QED
      BY <1>h, <2>2, <2>3, <2>4, SentStep
  <1>4. ASSUME NEW n \in Note, Mention(n) PROVE WatchInv'
    <2>1. PICK w : w = [Webhook("note") EXCEPT !.note = n]
      OBVIOUS
    <2>2. /\ transit' = Append(transit, w) /\ head' = head /\ draft' = draft
          /\ UNCHANGED <<seen, queue, batch, history, phase>>
      BY <1>4, <2>1 DEF Mention
    <2>3. w.head = head' /\ w \in Webhooks
      BY <2>1 DEF Webhook, Webhooks, TypeOK, Actions
    <2>4. BatchInv'
      BY <1>4 DEF Mention, BatchInv, WatchInv, Handled
    <2> QED
      BY <1>h, <2>2, <2>3, <2>4, SentStep
  <1> QED
    BY <1>1, <1>2, <1>3, <1>4 DEF People

LEMMA RemovedAt ==
  ASSUME NEW S, NEW s \in Seq(S), NEW i \in 1..Len(s)
  PROVE  /\ Len(RemoveAt(s, i)) = Len(s) - 1
         /\ \A j \in 1..(Len(s) - 1) :
               RemoveAt(s, i)[j] = IF j < i THEN s[j] ELSE s[j + 1]
  <1> DEFINE f == SubSeq(s, 1, i - 1)
             t == SubSeq(s, i + 1, Len(s))
  <1>1. Len(s) \in Nat /\ i \in Nat /\ 1 <= i /\ i <= Len(s)
    OBVIOUS
  <1>2. /\ \A j \in 1..(i - 1) : s[j] \in S
        /\ \A j \in (i + 1)..Len(s) : s[j] \in S
    BY <1>1
  <1>3. f \in Seq(S) /\ Len(f) = i - 1 /\ \A j \in 1..(i - 1) : f[j] = s[j]
    BY <1>1, <1>2, SubSeqProperties
  <1>4. /\ t \in Seq(S) /\ Len(t) = Len(s) - i
        /\ \A j \in 1..(Len(s) - i) : t[j] = s[i + j]
    BY <1>1, <1>2, SubSeqProperties
  <1>5. RemoveAt(s, i) = f \o t
    BY DEF RemoveAt
  <1> HIDE DEF f, t
  <1>6. /\ Len(f \o t) = Len(s) - 1
        /\ \A j \in 1..(Len(s) - 1) :
              (f \o t)[j] = IF j < i THEN f[j] ELSE t[j - (i - 1)]
    <2>1. Len(f \o t) = Len(s) - 1
      <3>1. Len(f \o t) = Len(f) + Len(t)
        BY <1>3, <1>4, ConcatProperties
      <3> QED
        BY <1>1, <1>3, <1>4, <3>1
    <2>2. \A j \in 1..(Len(s) - 1) : j \in 1..(Len(f) + Len(t))
      BY <1>1, <1>3, <1>4
    <2>3. \A j \in 1..(Len(f) + Len(t)) :
             (f \o t)[j] = IF j <= Len(f) THEN f[j] ELSE t[j - Len(f)]
      BY <1>3, <1>4, ConcatProperties
    <2>4. \A j \in 1..(Len(s) - 1) : j < i <=> j <= Len(f)
      BY <1>1, <1>3
    <2> QED
      BY <1>3, <2>1, <2>2, <2>3, <2>4
  <1>7. ASSUME NEW j \in 1..(Len(s) - 1)
        PROVE  (f \o t)[j] = IF j < i THEN s[j] ELSE s[j + 1]
    <2>1. CASE j < i
      BY <1>1, <1>3, <1>6, <2>1
    <2>2. CASE ~(j < i)
      <3>1. j - (i - 1) \in 1..(Len(s) - i) /\ i + (j - (i - 1)) = j + 1
        BY <1>1, <2>2
      <3> QED
        BY <1>4, <1>6, <2>2, <3>1
    <2> QED
      BY <2>1, <2>2
  <1> QED
    BY <1>5, <1>6, <1>7

\* A webhook arrives.  What it asks for is queued, or was asked for before.
LEMMA WatchedDelivery ==
  ASSUME Inv, Inv', WatchInv, NEW i \in 1..Len(transit), Deliver(i)
  PROVE  WatchInv'
  <1> USE DEF Inv
  <1> DEFINE w == transit[i]
             Was(j) == IF j < i THEN j ELSE j + 1
  <1>u. /\ UNCHANGED <<head, draft, batch, phase, context, reviewed, masked>>
        /\ transit' = RemoveAt(transit, i)
    BY DEF Deliver, worker, view
  <1>t. /\ transit \in Seq(Webhooks) /\ Len(transit) \in Nat
        /\ \A j \in 1..Len(transit) : transit[j] \in Webhooks /\ transit[j].head \in Nat
        /\ w \in Webhooks /\ w.head \in Heads /\ head \in Nat
    <2>1. \A j \in 1..Len(transit) : transit[j] \in Webhooks
      BY DEF TypeOK
    <2>2. \A j \in 1..Len(transit) : transit[j].head \in Heads
      BY <2>1 DEF Webhooks
    <2>3. \A j \in 1..Len(transit) : transit[j].head \in Nat
      BY <2>2 DEF Heads
    <2>4. w \in Webhooks /\ w.head \in Heads
      BY <2>1, <2>2
    <2>5. transit \in Seq(Webhooks) /\ Len(transit) \in Nat
      BY DEF TypeOK
    <2>6. head \in Nat
      BY DEF TypeOK, Heads
    <2> QED
      BY <2>1, <2>3, <2>4, <2>5, <2>6
  <1>l. /\ Line \in Seq(Events) /\ Len(Line) \in Nat
        /\ Len(queue) \in Nat /\ queue \in Seq(Events)
        /\ \A j \in 1..Len(Line) : Line[j].head \in Nat
    <2>1. \A j \in 1..Len(Line) : Line[j].head \in Heads
      BY LineType
    <2>2. \A j \in 1..Len(Line) : Line[j].head \in Nat
      BY <2>1 DEF Heads
    <2>3. Line \in Seq(Events) /\ Len(Line) \in Nat
      BY LineType
    <2>4. queue \in Seq(Events) /\ Len(queue) \in Nat
      BY DEF TypeOK
    <2> QED
      BY <2>2, <2>3, <2>4
  <1>1. /\ Len(transit') = Len(transit) - 1
        /\ \A j \in 1..Len(transit') :
              /\ transit'[j] = transit[Was(j)]
              /\ Was(j) \in 1..Len(transit) /\ Was(j) # i
    <2>1. /\ Len(transit') = Len(transit) - 1
          /\ \A j \in 1..(Len(transit) - 1) :
                transit'[j] = IF j < i THEN transit[j] ELSE transit[j + 1]
      BY <1>u, <1>t, RemovedAt
    <2>2. \A j \in 1..(Len(transit) - 1) : Was(j) \in 1..Len(transit) /\ Was(j) # i
      BY <1>t
    <2> QED
      BY <2>1, <2>2
  <1>2. \A j, k \in 1..Len(transit') : j <= k => Was(j) <= Was(k)
    BY <1>t, <1>1
  <1>3. \A j \in 1..Len(transit) : j # i => \E k \in 1..Len(transit') : Was(k) = j
    <2> SUFFICES ASSUME NEW j \in 1..Len(transit), j # i
                 PROVE  \E k \in 1..Len(transit') : Was(k) = j
      OBVIOUS
    <2>1. CASE j < i
      <3>1. j \in 1..Len(transit') /\ Was(j) = j
        BY <1>t, <1>1, <2>1
      <3> QED
        BY <3>1
    <2>2. CASE j > i
      <3>1. j - 1 \in 1..Len(transit') /\ Was(j - 1) = j
        BY <1>t, <1>1, <2>2
      <3> QED
        BY <3>1
    <2> QED
      BY <2>1, <2>2
  <1> HIDE DEF Was
  <1>4. /\ \A j \in 1..Len(transit') : transit'[j].head <= head
        /\ \A j, k \in 1..Len(transit') : j <= k => transit'[j].head <= transit'[k].head
    BY <1>1, <1>2 DEF WatchInv, NotAhead
  <1>5. BatchInv'
    BY <1>u DEF BatchInv, WatchInv, Handled
  <1>6. Handled' = Handled
    BY <1>u DEF Handled
  <1>7. CASE /\ \A r \in Requests(w) : r.id \in seen
             /\ queue' = queue /\ seen' = seen
    <2>1. Line' = Line /\ Answering' = Answering
      BY <1>u, <1>6, <1>7 DEF Line, Answering, Underway, Covered
    <2>2. NotAhead'
      BY <1>u, <1>4, <1>7, <2>1 DEF NotAhead, WatchInv
    <2>3. InOrder => InOrder'
      BY <1>1, <2>1 DEF InOrder
    <2>4. ASSUME ~disordered, ~draft PROVE Asked' \/ Answering
      <3>1. CASE Answering
        BY <3>1
      <3>2. CASE Asked
        <4>1. PICK j \in 1..Len(transit) : Wants(transit[j]) /\ transit[j].head = head
          BY <3>2 DEF Asked
        <4>2. CASE j = i
          <5>1. PICK r \in Requests(w) : IsReview(r.event)
            BY <4>1, <4>2 DEF Wants
          <5>2. PICK k \in ReviewKinds : r.id = <<k, head>>
            BY <1>t, <4>1, <4>2, <5>1, RequestOf
          <5> QED
            BY <1>7, <2>4, <5>1, <5>2 DEF WatchInv, PromiseInv
        <4>3. CASE j # i
          BY <1>u, <1>1, <1>3, <4>1, <4>3 DEF Asked
        <4> QED
          BY <4>2, <4>3
      <3> QED
        BY <2>4, <3>1, <3>2 DEF WatchInv, PromiseInv
    <2>5. disordered => disordered'
      BY DEF Deliver
    <2>6. PromiseInv'
      BY <1>u, <1>7, <2>1, <2>3, <2>4, <2>5 DEF PromiseInv, WatchInv
    <2> QED
      BY <1>5, <2>2, <2>6 DEF WatchInv
  <1>8. ASSUME NEW r \in Requests(w), seen' = seen \cup {r.id},
               queue' = Append(queue, r.event)
        PROVE  WatchInv'
    <2> DEFINE e == r.event
    <2>1. /\ e.head = w.head /\ e \in Events /\ w.head \in Nat
          /\ \A q \in Requests(w) : q = r
          /\ \A k \in ReviewKinds, h \in Heads : r.id = <<k, h>> => IsReview(e) /\ h = w.head
      BY <1>t, RequestOf, RequestsTyped DEF Heads
    <2> HIDE DEF e
    <2>2. Line' = Append(Line, e)
      <3>1. batch \in Seq(Events) /\ queue' = Append(queue, e)
        <4>1. batch \in Seq(Events)
          BY DEF TypeOK
        <4> QED
          BY <1>8, <4>1 DEF e
      <3>2. queue \in Seq(Events) /\ <<e>> \in Seq(Events) /\ Line \in Seq(Events)
        BY <1>l, <2>1
      <3>3. Append(queue, e) = queue \o <<e>> /\ Append(Line, e) = Line \o <<e>>
        <4>1. \A x \in Seq(Events) : Append(x, e) = x \o <<e>>
          BY <2>1, AppendIsConcat
        <4> QED
          BY <3>2, <4>1
      <3>4. (batch \o queue) \o <<e>> = batch \o (queue \o <<e>>)
        <4>1. \A x, y, z \in Seq(Events) : (x \o y) \o z = x \o (y \o z)
          BY ConcatAssociative
        <4> QED
          BY <3>1, <3>2, <4>1
      <3> QED
        BY <1>u, <3>1, <3>3, <3>4 DEF Line
    <2>3. /\ Len(Line') = Len(Line) + 1 /\ Line'[Len(Line) + 1] = e
          /\ \A j \in 1..Len(Line) : Line'[j] = Line[j]
          /\ \A j \in 1..Len(Line') : j \in 1..Len(Line) \/ (j = Len(Line) + 1 /\ Line'[j] = e)
      BY <1>l, <2>1, <2>2
    <2>4. w.head <= head
      BY DEF WatchInv, NotAhead
    <2>5. NotAhead'
      <3>1. \A j \in 1..Len(Line') : Line'[j].head <= head
        BY <2>1, <2>3, <2>4 DEF WatchInv, NotAhead
      <3>2. \A k \in ReviewKinds, h \in Heads : <<k, h>> \in seen' => h <= head
        BY <1>8, <2>1, <2>4 DEF WatchInv, NotAhead
      <3> QED
        BY <1>u, <1>4, <3>1, <3>2 DEF NotAhead
    <2>6. ASSUME ~disordered', InOrder PROVE InOrder'
      <3>1. ASSUME NEW j \in 1..Len(Line'), NEW k \in 1..Len(Line'), j <= k,
                   IsReview(Line'[j]), IsReview(Line'[k])
            PROVE  Line'[j].head <= Line'[k].head
        <4>1. CASE k \in 1..Len(Line)
          <5>1. j \in 1..Len(Line)
            BY <1>l, <3>1, <4>1
          <5> QED
            BY <2>3, <2>6, <3>1, <4>1, <5>1 DEF InOrder
        <4>2. CASE Line'[k] = e
          <5>1. Wants(w)
            BY <3>1, <4>2 DEF Wants, e
          <5> QED
            BY <2>1, <2>3, <2>6, <3>1, <4>2, <5>1 DEF InOrder
        <4> QED
          BY <2>3, <4>1, <4>2
      <3>2. ASSUME NEW j \in 1..Len(Line'), NEW k \in 1..Len(transit'),
                   IsReview(Line'[j]), Wants(transit'[k])
            PROVE  Line'[j].head <= transit'[k].head
        <4>1. CASE j \in 1..Len(Line)
          BY <1>1, <2>3, <2>6, <3>2, <4>1 DEF InOrder
        <4>2. CASE Line'[j] = e
          <5>1. r \in ReviewsAsked(i) /\ r.event.head = w.head
            BY <2>1, <3>2, <4>2 DEF ReviewsAsked, e, IsReview
          <5>2. PICK q \in Requests(transit[Was(k)]) : IsReview(q.event)
            BY <1>1, <3>2 DEF Wants
          <5>3. q \in ReviewsAsked(Was(k)) /\ q.event.head = transit[Was(k)].head
            BY <1>t, <1>1, <5>2, RequestOf DEF ReviewsAsked, IsReview
          <5>4. CASE Was(k) < i
            <6>1. Was(k) \in 1..(i - 1)
              BY <1>t, <1>1, <5>4
            <6>2. ~(q.event.head < r.event.head)
              BY <2>6, <5>1, <5>3, <6>1 DEF Deliver
            <6> QED
              BY <1>t, <1>1, <2>1, <4>2, <5>1, <5>3, <6>2
          <5>5. CASE i <= Was(k)
            BY <1>t, <1>1, <2>1, <4>2, <5>5 DEF WatchInv, NotAhead
          <5> QED
            BY <1>t, <1>1, <5>4, <5>5
        <4> QED
          BY <2>3, <4>1, <4>2
      <3> QED
        BY <3>1, <3>2 DEF InOrder
    <2>7. /\ Len(queue') = Len(queue) + 1 /\ queue'[Len(queue) + 1] = e
          /\ \A j \in 1..Len(queue) : queue'[j] = queue[j]
      BY <1>8, <1>l, <2>1 DEF e
    <2>8. Answering => Answering'
      BY <1>u, <1>l, <1>6, <2>7 DEF Answering, Underway, Covered
    <2>9. IsReview(e) /\ e.head = head => Answering'
      BY <1>u, <1>l, <2>7 DEF Answering
    <2>10. Asked => Asked' \/ Answering'
      <3> SUFFICES ASSUME Asked PROVE Asked' \/ Answering'
        OBVIOUS
      <3>1. PICK j \in 1..Len(transit) : Wants(transit[j]) /\ transit[j].head = head
        BY DEF Asked
      <3>2. CASE j = i
        <4>1. IsReview(e) /\ e.head = head
          BY <2>1, <3>1, <3>2 DEF Wants, e
        <4> QED
          BY <2>9, <4>1
      <3>3. CASE j # i
        BY <1>u, <1>1, <1>3, <3>1, <3>3 DEF Asked
      <3> QED
        BY <3>2, <3>3
    <2>11. PromiseInv'
      <3>1. \A k \in ReviewKinds : <<k, head>> \in seen' =>
               <<k, head>> \in seen \/ (IsReview(e) /\ e.head = head)
        BY <1>8, <2>1 DEF TypeOK
      <3>2. disordered => disordered'
        BY DEF Deliver
      <3> QED
        BY <1>u, <2>6, <2>8, <2>9, <2>10, <3>1, <3>2 DEF PromiseInv, WatchInv
    <2> QED
      BY <1>5, <2>5, <2>11 DEF WatchInv
  <1> QED
    BY <1>7, <1>8 DEF Deliver

\* Any number of pushes, drafts, faults and late webhooks: once all is quiet, the
\* commits of an open merge request that is no draft have been reviewed, but for
\* those a mention's reply hides, and unless reviews were asked for out of order
\* (webapp.py:375-430, worker.py:623, 1303, auto_review/orchestrator.py:773-779).
THEOREM ReviewedOrMasked == Spec => []ReviewedUnlessMasked
  <1>1. Init => WatchInv
    <2> SUFFICES ASSUME Init PROVE WatchInv
      OBVIOUS
    <2>1. TypeOK
      BY Initially DEF Inv
    <2>2. PICK w : /\ transit = <<w>>
                   /\ w.action = "open" /\ w.head = 1 /\ w.draft = draft
      BY DEF Init
    <2>3. Line = <<>>
      BY DEF Init, Line
    <2>4. NotAhead /\ InOrder
      BY <2>2, <2>3 DEF Init, NotAhead, InOrder
    <2>5. ~draft => Wants(w)
      BY <2>2 DEF Wants, Requests, IsReview, Event
    <2>6. ~draft => Asked
      <3>1. 1 \in 1..Len(transit) /\ transit[1] = w
        BY <2>2
      <3> QED
        BY <2>2, <2>5, <3>1 DEF Asked, Init
    <2>7. BatchInv
      BY DEF Init, BatchInv
    <2> QED
      BY <2>4, <2>6, <2>7 DEF WatchInv, PromiseInv, Init
  <1>2. Inv /\ Inv' /\ WatchInv /\ [Next]_vars => WatchInv'
    <2> SUFFICES ASSUME Inv, Inv', WatchInv, [Next]_vars PROVE WatchInv'
      OBVIOUS
    <2>1. CASE UNCHANGED vars
      BY <2>1 DEF vars, gitlab, store, view, worker, history, bounds, WatchInv, NotAhead,
                  BatchInv, PromiseInv, InOrder, Asked, Answering, Underway, Covered,
                  Line, Handled
    <2>2. CASE Next
      BY <2>2, WatchedSend, WatchedDelivery, WatchedQueue, WatchedLook DEF Next, Handler
    <2> QED
      BY <2>1, <2>2
  <1>3. WatchInv => ReviewedUnlessMasked
    BY DEF WatchInv, PromiseInv, ReviewedUnlessMasked, AtRest, Asked, Answering, Underway,
           Covered
  <1>4. Spec => []Inv
    BY Initially, InvStep, PTL DEF Spec
  <1> QED
    BY <1>1, <1>2, <1>3, <1>4, PTL DEF Spec

=============================================================================
