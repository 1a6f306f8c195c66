-------------------------- MODULE PublishingProofs --------------------------
(***************************************************************************)
(* What the publish receipts guarantee for any number of attempts, inline    *)
(* comments and troubles: one note per operation and slip, receipts that are *)
(* final once completed, and one summary.                                   *)
(***************************************************************************)
EXTENDS Publishing, FiniteSetTheorems, TLAPS

Holding == {"post", "complete", "fail"}

\* A claim whose time to live has not passed under its publisher belongs to one
\* attempt; an operation has as many notes as slips, and one more only when it
\* has, or is about to get, its completed receipt.
ReceiptInv ==
    /\ \A o \in Op \ stolen : \A a \in Attempt : Holds(a, o) =>
          /\ receipt[o] = "claimed" /\ ~aged[o]
          /\ \A b \in Attempt : Holds(b, o) => b = a
    /\ scene = "review" => notes["final"] <= 1
    /\ \A o \in Op \ stolen : (scene = "review" => o # "final") =>
          /\ notes[o] <= slips[o] + 1
          /\ \/ notes[o] <= slips[o]
             \/ receipt[o] = "completed"
             \/ \E a \in Attempt : Holds(a, o) /\ run[a].phase = "complete"

Inv == TypeOK /\ ReceiptInv

-----------------------------------------------------------------------------

\* An attempt that ends is a run that holds nothing.
LEMMA EndedType ==
  ASSUME NEW p \in {"new"} \cup LivePhases \cup EndPhases
  PROVE  Ended(p) \in Run /\ Ended(p).phase = p
  BY DEF Ended, Run, Op

\* What a run does after an operation, and after an exception, starts with a
\* claim or is an end: it holds nothing.
LEMMA RunAfter ==
  ASSUME NEW r \in Run, NEW o \in Op
  PROVE  /\ Proceeded(r, o) \in Run /\ Proceeded(r, o).phase \notin Holding
         /\ Raised(r, o) \in Run /\ Raised(r, o).phase \notin Holding
  <1>1. Notifying \in Run /\ Notifying.phase = "claim"
    BY DEF Notifying, Ended, Run, Op, LivePhases
  <1>2. \A p \in EndPhases : Ended(p) \in Run /\ Ended(p).phase \notin Holding
    BY EndedType DEF EndPhases, Holding
  <1>3. Proceeded(r, o) \in Run /\ Proceeded(r, o).phase \notin Holding
    <2>1. [r EXCEPT !.todo = @ \ {o}, !.phase = "claim", !.op = "final"] \in Run
      BY DEF Run, Op, LivePhases
    <2>2. [Ended("published") EXCEPT !.promised = r.promised] \in Run
      BY <1>2 DEF Run, EndPhases
    <2> QED
      BY <1>2, <2>1, <2>2 DEF Proceeded, Run, Holding, EndPhases, Ended
  <1>4. Raised(r, o) \in Run /\ Raised(r, o).phase \notin Holding
    <2>1. [r EXCEPT !.todo = {"fallback"}, !.phase = "claim"] \in Run
      BY DEF Run, Op, LivePhases
    <2> QED
      BY <1>1, <1>2, <2>1 DEF Raised, Run, Holding, EndPhases
  <1> QED
    BY <1>3, <1>4

\* The runs change at one attempt only.
Moves(a, r) == run' = [run EXCEPT ![a] = r]

\* A step of one attempt that holds nothing afterwards, which leaves the receipts
\* and notes alone, keeps the invariant, if a complete post counts as a slip.
LEMMA LetGo ==
  ASSUME Inv, NEW a \in Attempt, NEW r \in Run, r.phase \notin Holding, Moves(a, r),
         UNCHANGED <<scene, store, notes, stolen>>,
         slips' \in [Op -> Nat],
         \A o \in Op : slips[o] <= slips'[o],
         run[a].phase = "complete" => slips'[run[a].op] = slips[run[a].op] + 1
  PROVE  ReceiptInv'
  <1> USE DEF Inv
  <1>1. \A b \in Attempt : run'[b] = IF b = a THEN r ELSE run[b]
    BY DEF Moves, TypeOK
  <1>2. \A b \in Attempt, o \in Op : Holds(b, o)' <=> (b # a /\ Holds(b, o))
    BY <1>1 DEF Holds, Holding
  <1>3. notes' = notes /\ receipt' = receipt /\ aged' = aged /\ stolen' = stolen
        /\ scene' = scene /\ notes \in [Op -> Nat] /\ slips \in [Op -> Nat]
    BY DEF store, TypeOK
  <1>4. ASSUME NEW o \in Op \ stolen, scene = "review" => o # "final"
        PROVE  /\ notes[o] <= slips'[o] + 1
               /\ \/ notes[o] <= slips'[o]
                  \/ receipt[o] = "completed"
                  \/ \E b \in Attempt : Holds(b, o)' /\ run'[b].phase = "complete"
    <2>1. /\ notes[o] <= slips[o] + 1
          /\ \/ notes[o] <= slips[o]
             \/ receipt[o] = "completed"
             \/ \E b \in Attempt : Holds(b, o) /\ run[b].phase = "complete"
      BY <1>4 DEF ReceiptInv
    <2>2. notes[o] \in Nat /\ slips[o] \in Nat /\ slips'[o] \in Nat /\ slips[o] <= slips'[o]
      BY <1>3
    <2>3. CASE notes[o] <= slips[o] \/ receipt[o] = "completed"
      BY <2>1, <2>2, <2>3
    <2>4. ASSUME NEW b \in Attempt, Holds(b, o), run[b].phase = "complete"
          PROVE  \/ notes[o] <= slips'[o]
                 \/ Holds(b, o)' /\ run'[b].phase = "complete"
      <3>1. CASE b = a
        BY <2>1, <2>2, <2>4, <3>1 DEF Holds
      <3>2. CASE b # a
        BY <1>1, <1>2, <2>4, <3>2
      <3> QED
        BY <3>1, <3>2
    <2> QED
      BY <2>1, <2>2, <2>3, <2>4
  <1> QED
    BY <1>2, <1>3, <1>4 DEF ReceiptInv

-----------------------------------------------------------------------------
(* Types *)

\* What a call to GitLab may come to.
LEMMA CallTypes ==
  ASSUME NEW o \in Op, NEW call \in Calls(o)
  PROVE  /\ call.made \in Nat /\ call.lost \in Nat
         /\ call.returns = "raise" => call.made <= call.lost
         /\ call.made <= call.lost + 1
  BY DEF Calls, WithFallback, WithoutFallback, Creating, Updating, Result

LEMMA TypeInit == Init => TypeOK
  <1> SUFFICES ASSUME Init PROVE TypeOK
    OBVIOUS
  <1>1. notes \in [Op -> Nat]
    BY DEF Init
  <1>2. Ended("new") \in Run
    BY EndedType
  <1> QED
    BY <1>1, <1>2 DEF Init, TypeOK

\* The types hold in every reachable state of every instance.
LEMMA TypeStep == TypeOK /\ [Next]_vars => TypeOK'
  <1> SUFFICES ASSUME TypeOK, [Next]_vars PROVE TypeOK'
    OBVIOUS
  <1> USE DEF store, history, Trouble
  <1>n. trouble \in Nat /\ trouble + 0 \in Nat /\ trouble + 1 \in Nat
    BY DEF TypeOK
  <1>1. ASSUME NEW a \in Attempt, Start(a) \/ Found(a) \/ WorkRaises(a)
        PROVE  TypeOK'
    <2>1. CASE Start(a)
      <3>1. trouble' \in Nat
        BY <1>n, <2>1 DEF Start
      <3>2. \E p \in {"skipped", "working"} : run' = [run EXCEPT ![a].phase = p]
        BY <2>1 DEF Start
      <3>3. run' \in [Attempt -> Run]
        BY <3>2 DEF TypeOK, Run, LivePhases, EndPhases
      <3> QED
        BY <2>1, <3>1, <3>3 DEF Start, TypeOK
    <2>2. CASE Found(a)
      <3>1. PICK found \in SUBSET Inline :
               run' = [run EXCEPT ![a].phase = "claim",
                                  ![a].todo = found \cup {"final"},
                                  ![a].promised = found \cup {"final"}]
        BY <2>2 DEF Found
      <3>2. found \cup {"final"} \in SUBSET Op
        BY DEF Op
      <3> DEFINE r == [run[a] EXCEPT !.phase = "claim", !.todo = found \cup {"final"},
                                     !.promised = found \cup {"final"}]
      <3>3. r \in Run
        BY <3>2 DEF TypeOK, Run, LivePhases
      <3>4. run' = [run EXCEPT ![a] = r]
        BY <3>1 DEF TypeOK
      <3> QED
        BY <2>2, <3>3, <3>4 DEF Found, TypeOK
    <2>3. CASE WorkRaises(a)
      <3>1. Ended("raised") \in Run /\ Notifying \in Run
        BY EndedType DEF Notifying, Ended, Run, Op, LivePhases, EndPhases
      <3> QED
        BY <2>3, <3>1 DEF WorkRaises, TypeOK
    <2> QED
      BY <1>1, <2>1, <2>2, <2>3
  <1>2. ASSUME NEW a \in Attempt, Claim(a)
        PROVE  TypeOK'
    <2>1. PICK o \in NextOps(run[a]) :
             /\ receipt' = [receipt EXCEPT ![o] = "claimed"]
             /\ hasId' = [hasId EXCEPT ![o] = FALSE]
             /\ aged' = [aged EXCEPT ![o] = FALSE]
             /\ run' = [run EXCEPT ![a].phase = "post", ![a].op = o]
      BY <1>2 DEF Claim
    <2>2. o \in Op
      BY <2>1 DEF NextOps, TypeOK, Run
    <2> DEFINE r == [run[a] EXCEPT !.phase = "post", !.op = o]
    <2>3. r \in Run
      BY <2>2 DEF TypeOK, Run, LivePhases
    <2>4. run' = [run EXCEPT ![a] = r]
      BY <2>1 DEF TypeOK
    <2>5. run' \in [Attempt -> Run]
      BY <2>3, <2>4 DEF TypeOK
    <2> HIDE DEF r
    <2>6. receipt' \in [Op -> {"none", "claimed", "completed", "failed"}]
      BY <2>1 DEF TypeOK
    <2>7. hasId' \in [Op -> BOOLEAN] /\ aged' \in [Op -> BOOLEAN]
      BY <2>1 DEF TypeOK
    <2> QED
      BY <1>2, <2>5, <2>6, <2>7 DEF Claim, TypeOK
  <1>3. ASSUME NEW a \in Attempt, PassOver(a)
        PROVE  TypeOK'
    <2>1. PICK o \in NextOps(run[a]) :
             run' = [run EXCEPT ![a] = Proceeded(Refused(run[a], o), o)]
      BY <1>3 DEF PassOver
    <2>2. o \in Op /\ run[a] \in Run
      BY <2>1 DEF NextOps, TypeOK, Run
    <2>3. Refused(run[a], o) \in Run
      BY <2>2 DEF Refused, Run
    <2>4. Proceeded(Refused(run[a], o), o) \in Run
      BY <2>2, <2>3, RunAfter
    <2> QED
      BY <1>3, <2>1, <2>4 DEF PassOver, TypeOK
  <1>4. ASSUME NEW a \in Attempt, Post(a)
        PROVE  TypeOK'
    <2> DEFINE o == run[a].op
    <2>1. o \in Op
      BY DEF TypeOK, Run
    <2>2. PICK call \in Calls(o) :
             /\ trouble' = trouble + call.lost
             /\ notes' = [notes EXCEPT ![o] = @ + call.made]
             /\ slips' = [slips EXCEPT ![o] = @ + call.lost]
             /\ shown' = IF call.seen THEN shown \cup Shows(run[a]) ELSE shown
             /\ run' = [run EXCEPT
                   ![a].phase = IF call.returns = "raise" THEN "fail" ELSE "complete",
                   ![a].inReply = IF call.returns = "none" THEN @ \cup {o} ELSE @]
      BY <1>4 DEF Post
    <2>3. call.made \in Nat /\ call.lost \in Nat
      BY <2>1, CallTypes
    <2>4. Shows(run[a]) \subseteq Op
      BY <2>1 DEF Shows, TypeOK, Run, Op
    <2> DEFINE r == [run[a] EXCEPT
                   !.phase = IF call.returns = "raise" THEN "fail" ELSE "complete",
                   !.inReply = IF call.returns = "none" THEN @ \cup {o} ELSE @]
    <2>5. run' = [run EXCEPT ![a] = r] /\ r \in Run
      <3>1. r \in Run
        <4> DEFINE p == IF call.returns = "raise" THEN "fail" ELSE "complete"
                   i == IF call.returns = "none" THEN run[a].inReply \cup {o} ELSE run[a].inReply
        <4>1. run[a] \in Run
          BY DEF TypeOK
        <4>2. p \in LivePhases /\ i \in SUBSET Op
          BY <2>1, <4>1 DEF LivePhases, Run
        <4>3. r = [run[a] EXCEPT !.phase = p, !.inReply = i]
          OBVIOUS
        <4> HIDE DEF p, i, r
        <4> QED
          BY <4>1, <4>2, <4>3 DEF Run
      <3>2. run' = [run EXCEPT ![a] = r]
        BY <2>2 DEF TypeOK
      <3> QED
        BY <3>1, <3>2
    <2>6. notes' \in [Op -> Nat] /\ slips' \in [Op -> Nat] /\ trouble' \in Nat
      BY <2>1, <2>2, <2>3 DEF TypeOK
    <2>7. shown' \subseteq Op
      BY <2>2, <2>4 DEF TypeOK
    <2> QED
      BY <1>4, <2>5, <2>6, <2>7 DEF Post, TypeOK
  <1>5. ASSUME NEW a \in Attempt, Complete(a) \/ Track(a) \/ Fail(a)
        PROVE  TypeOK'
    <2>1. run[a] \in Run /\ run[a].op \in Op
      BY DEF TypeOK, Run
    <2>2. Proceeded(run[a], run[a].op) \in Run /\ Raised(run[a], run[a].op) \in Run
      BY <2>1, RunAfter
    <2>3. CASE Complete(a)
      <3>1. [run[a] EXCEPT !.phase = "track"] \in Run
        BY <2>1 DEF Run, LivePhases
      <3>2. run' = [run EXCEPT ![a] = [run[a] EXCEPT !.phase = "track"]]
        BY <2>3 DEF Complete, TypeOK
      <3> QED
        BY <2>1, <2>3, <3>1, <3>2 DEF Complete, TypeOK
    <2>4. CASE Track(a)
      BY <2>2, <2>4 DEF Track, TypeOK
    <2>5. CASE Fail(a)
      BY <2>2, <2>5 DEF Fail, TypeOK
    <2> QED
      BY <1>5, <2>3, <2>4, <2>5
  <1>6. ASSUME NEW a \in Attempt, StoreRaises(a)
        PROVE  TypeOK'
    <2>1. PICK o \in Op : run' = [run EXCEPT ![a] = Raised(@, o)]
      <3>1. run[a].op \in Op /\ NextOps(run[a]) \subseteq Op
        BY DEF NextOps, TypeOK, Run
      <3> QED
        BY <1>6, <3>1 DEF StoreRaises
    <2>2. Raised(run[a], o) \in Run
      BY RunAfter DEF TypeOK
    <2>3. slips' \in [Op -> Nat]
      BY <1>6 DEF StoreRaises, TypeOK
    <2> QED
      BY <1>6, <1>n, <2>1, <2>2, <2>3 DEF StoreRaises, TypeOK
  <1>7. CASE Crash
    <2>1. \A o \in Op : Cardinality({a \in Attempt : run[a].phase = "complete"
                                                     /\ run[a].op = o}) \in Nat
      BY AttemptAssumption, FS_Subset, FS_CardinalityType
    <2>2. slips' \in [Op -> Nat]
      BY <1>7, <2>1 DEF Crash, TypeOK
    <2>3. run' \in [Attempt -> Run]
      BY <1>7, EndedType DEF Crash, TypeOK, EndPhases
    <2> QED
      BY <1>7, <1>n, <2>2, <2>3 DEF Crash, TypeOK
  <1>8. ASSUME NEW o \in Op, ClaimAges(o)
        PROVE  TypeOK'
    BY <1>8 DEF ClaimAges, TypeOK
  <1>9. CASE UNCHANGED vars
    BY <1>9 DEF vars, TypeOK
  <1> QED
    BY <1>1, <1>2, <1>3, <1>4, <1>5, <1>6, <1>7, <1>8, <1>9 DEF Next

-----------------------------------------------------------------------------
(* Receipts *)

LEMMA ReceiptInit == Init => ReceiptInv
  <1> SUFFICES ASSUME Init PROVE ReceiptInv
    OBVIOUS
  <1>1. PICK earlier \in IF scene = "review" THEN {0, 1} ELSE {0} :
           notes = [o \in Op |-> IF o = "final" THEN earlier ELSE 0]
    BY DEF Init
  <1>2. \A a \in Attempt, o \in Op : ~Holds(a, o)
    BY DEF Init, Holds, Ended
  <1>3. "final" \in Op /\ stolen = {} /\ \A o \in Op : slips[o] = 0
    BY DEF Init, Op
  <1> QED
    BY <1>1, <1>2, <1>3 DEF ReceiptInv

\* The steps of an attempt that make no call and write no receipt.
LEMMA QuietStep ==
  ASSUME Inv, NEW a \in Attempt,
         Start(a) \/ Found(a) \/ WorkRaises(a) \/ PassOver(a) \/ Track(a) \/ StoreRaises(a)
  PROVE  ReceiptInv'
  <1> USE DEF Inv
  <1>0. run \in [Attempt -> Run] /\ run[a] \in Run /\ run[a].op \in Op
        /\ slips \in [Op -> Nat] /\ NextOps(run[a]) \subseteq Op
    BY DEF TypeOK, Run, NextOps
  <1>1. ASSUME NEW r, r.phase \notin Holding, Moves(a, r),
               run[a].phase # "complete",
               UNCHANGED <<scene, store, notes, stolen, slips>>
        PROVE  ReceiptInv'
    <2>1. r \in Run
      <3>1. TypeOK'
        <4>1. Next
          BY DEF Next
        <4> QED
          BY <4>1, TypeStep
      <3>2. run'[a] = r
        BY <1>0, <1>1 DEF Moves
      <3> QED
        BY <3>1, <3>2 DEF TypeOK
    <2> QED
      BY <1>0, <1>1, <2>1, LetGo
  <1>2. CASE Start(a)
    <2>1. PICK p \in {"skipped", "working"} : run' = [run EXCEPT ![a].phase = p]
      BY <1>2 DEF Start
    <2>2. Moves(a, [run[a] EXCEPT !.phase = p])
      BY <1>0, <2>1 DEF Moves
    <2>3. [run[a] EXCEPT !.phase = p].phase \notin Holding
      BY <1>0 DEF Run, Holding
    <2> QED
      BY <1>1, <1>2, <2>2, <2>3 DEF Start, history
  <1>3. CASE Found(a)
    <2>1. PICK found \in SUBSET Inline :
             run' = [run EXCEPT ![a].phase = "claim",
                                ![a].todo = found \cup {"final"},
                                ![a].promised = found \cup {"final"}]
      BY <1>3 DEF Found
    <2> DEFINE r == [run[a] EXCEPT !.phase = "claim", !.todo = found \cup {"final"},
                                   !.promised = found \cup {"final"}]
    <2>2. Moves(a, r)
      BY <1>0, <2>1 DEF Moves
    <2>3. r.phase \notin Holding
      BY <1>0 DEF Run, Holding
    <2> HIDE DEF r
    <2> QED
      BY <1>1, <1>3, <2>2, <2>3 DEF Found, history
  <1>4. CASE WorkRaises(a)
    <2>1. Ended("raised").phase \notin Holding /\ Notifying.phase \notin Holding
      BY DEF Ended, Notifying, Holding
    <2>2. \E r \in {Ended("raised"), Notifying} : Moves(a, r)
      BY <1>4 DEF WorkRaises, Moves
    <2> QED
      BY <1>1, <1>4, <2>1, <2>2 DEF WorkRaises, history
  <1>5. CASE PassOver(a)
    <2>1. PICK o \in NextOps(run[a]) : Moves(a, Proceeded(Refused(run[a], o), o))
      BY <1>5 DEF PassOver, Moves
    <2>2. Refused(run[a], o) \in Run
      BY <1>0, <2>1 DEF Refused, Run
    <2>3. Proceeded(Refused(run[a], o), o).phase \notin Holding
      BY <1>0, <2>1, <2>2, RunAfter
    <2> QED
      BY <1>1, <1>5, <2>1, <2>3 DEF PassOver, history
  <1>6. CASE Track(a)
    <2>1. Moves(a, Proceeded(run[a], run[a].op))
      BY <1>6 DEF Track, Moves
    <2>2. Proceeded(run[a], run[a].op).phase \notin Holding
      BY <1>0, RunAfter
    <2> QED
      BY <1>1, <1>6, <2>1, <2>2 DEF Track, history
  <1>7. CASE StoreRaises(a)
    <2>1. PICK o \in Op : Moves(a, Raised(run[a], o))
      BY <1>0, <1>7 DEF StoreRaises, Moves
    <2>2. Raised(run[a], o) \in Run /\ Raised(run[a], o).phase \notin Holding
      BY <1>0, RunAfter
    <2>3. /\ slips' = IF run[a].phase = "complete"
                      THEN [slips EXCEPT ![run[a].op] = @ + 1] ELSE slips
          /\ UNCHANGED <<scene, store, notes, stolen>>
      BY <1>7 DEF StoreRaises
    <2>4. /\ slips' \in [Op -> Nat]
          /\ \A q \in Op : slips[q] <= slips'[q]
          /\ run[a].phase = "complete" => slips'[run[a].op] = slips[run[a].op] + 1
      BY <1>0, <2>3
    <2> QED
      BY <2>1, <2>2, <2>3, <2>4, LetGo
  <1> QED
    BY <1>2, <1>3, <1>4, <1>5, <1>6, <1>7

\* A claim is granted only when nobody holds the operation, but for a publisher
\* that let its own claim grow stale.
LEMMA ClaimStep ==
  ASSUME Inv, NEW a \in Attempt, Claim(a)
  PROVE  ReceiptInv'
  <1> USE DEF Inv
  <1>1. PICK o \in NextOps(run[a]) :
           /\ CanClaim(o)
           /\ receipt' = [receipt EXCEPT ![o] = "claimed"]
           /\ aged' = [aged EXCEPT ![o] = FALSE]
           /\ run' = [run EXCEPT ![a].phase = "post", ![a].op = o]
    BY DEF Claim
  <1>2. o \in Op
    BY <1>1 DEF NextOps, TypeOK, Run
  <1>3. /\ run'[a].phase = "post" /\ run'[a].op = o
        /\ \A b \in Attempt \ {a} : run'[b] = run[b]
    BY <1>1 DEF TypeOK, Run
  <1>4. /\ receipt'[o] = "claimed" /\ ~aged'[o]
        /\ \A q \in Op \ {o} : receipt'[q] = receipt[q] /\ aged'[q] = aged[q]
    BY <1>1, <1>2 DEF TypeOK
  <1>5. UNCHANGED <<scene, notes, slips, stolen>>
    BY DEF Claim, history
  <1>6. \A b \in Attempt, q \in Op :
           Holds(b, q)' <=> (IF b = a THEN q = o ELSE Holds(b, q))
    BY <1>3 DEF Holds
  <1>7. ~(run[a].phase \in Holding)
    BY DEF Claim, Holding
  <1>8. o \notin stolen => \A b \in Attempt : ~Holds(b, o)
    BY <1>1, <1>2 DEF CanClaim, ReceiptInv
  <1>9. o \notin stolen /\ (scene = "review" => o # "final") => notes[o] <= slips[o]
    BY <1>1, <1>2, <1>8 DEF CanClaim, ReceiptInv
  <1>10. ASSUME NEW q \in Op \ stolen', NEW b \in Attempt, Holds(b, q)'
         PROVE  /\ receipt'[q] = "claimed" /\ ~aged'[q]
                /\ \A c \in Attempt : Holds(c, q)' => c = b
    BY <1>4, <1>5, <1>6, <1>8, <1>10 DEF ReceiptInv
  <1>11. ASSUME NEW q \in Op \ stolen', scene' = "review" => q # "final"
         PROVE  /\ notes'[q] <= slips'[q] + 1
                /\ \/ notes'[q] <= slips'[q]
                   \/ receipt'[q] = "completed"
                   \/ \E b \in Attempt : Holds(b, q)' /\ run'[b].phase = "complete"
    <2>1. CASE q = o
      BY <1>5, <1>9, <1>11, <2>1 DEF ReceiptInv
    <2>2. CASE q # o
      <3>1. \A b \in Attempt : Holds(b, q) => b # a /\ Holds(b, q)' /\ run'[b] = run[b]
        BY <1>3, <1>6, <1>7, <2>2 DEF Holds, Holding
      <3> QED
        BY <1>4, <1>5, <1>11, <2>2, <3>1 DEF ReceiptInv
    <2> QED
      BY <2>1, <2>2
  <1>12. scene' = "review" => notes'["final"] <= 1
    BY <1>5 DEF ReceiptInv
  <1> QED
    BY <1>10, <1>11, <1>12 DEF ReceiptInv

\* A call makes one note more than it loses answers, if it does not raise.
LEMMA PostStep ==
  ASSUME Inv, NEW a \in Attempt, Post(a)
  PROVE  ReceiptInv'
  <1> USE DEF Inv
  <1> DEFINE o == run[a].op
  <1>1. PICK call \in Calls(o) :
           /\ notes' = [notes EXCEPT ![o] = @ + call.made]
           /\ slips' = [slips EXCEPT ![o] = @ + call.lost]
           /\ run' = [run EXCEPT
                 ![a].phase = IF call.returns = "raise" THEN "fail" ELSE "complete",
                 ![a].inReply = IF call.returns = "none" THEN @ \cup {o} ELSE @]
    BY DEF Post
  <1>2. o \in Op /\ run[a].phase = "post" /\ Holds(a, o)
    BY DEF Post, TypeOK, Run, Holds
  <1>3. /\ run'[a].phase = IF call.returns = "raise" THEN "fail" ELSE "complete"
        /\ run'[a].op = o
        /\ \A b \in Attempt \ {a} : run'[b] = run[b]
    BY <1>1 DEF TypeOK, Run
  <1>4. \A b \in Attempt, q \in Op : Holds(b, q)' <=> Holds(b, q)
    BY <1>2, <1>3 DEF Holds
  <1>5. UNCHANGED <<scene, receipt, aged, stolen>>
    BY DEF Post, store
  <1>6. /\ call.made \in Nat /\ call.lost \in Nat
        /\ call.returns = "raise" => call.made <= call.lost
        /\ call.made <= call.lost + 1
    BY <1>2, CallTypes
  <1>7. notes[o] \in Nat /\ slips[o] \in Nat
        /\ notes'[o] = notes[o] + call.made /\ slips'[o] = slips[o] + call.lost
        /\ \A q \in Op \ {o} : notes'[q] = notes[q] /\ slips'[q] = slips[q]
    BY <1>1, <1>2 DEF TypeOK
  <1>8. ASSUME NEW q \in Op \ stolen', scene' = "review" => q # "final"
        PROVE  /\ notes'[q] <= slips'[q] + 1
               /\ \/ notes'[q] <= slips'[q]
                  \/ receipt'[q] = "completed"
                  \/ \E b \in Attempt : Holds(b, q)' /\ run'[b].phase = "complete"
    <2>1. CASE q = o
      <3>1. notes[o] <= slips[o]
        BY <1>2, <1>5, <1>8, <2>1 DEF ReceiptInv
      <3>2. notes'[o] <= slips'[o] + 1
            /\ (call.returns = "raise" => notes'[o] <= slips'[o])
        BY <1>6, <1>7, <3>1
      <3> QED
        BY <1>2, <1>3, <1>4, <2>1, <3>2
    <2>2. CASE q # o
      <3>1. \A b \in Attempt : Holds(b, q) => Holds(b, q)' /\ run'[b] = run[b]
        BY <1>3, <1>4, <2>2 DEF Holds
      <3> QED
        BY <1>5, <1>7, <1>8, <2>2, <3>1 DEF ReceiptInv
    <2> QED
      BY <2>1, <2>2
  <1>9. ASSUME scene = "review" PROVE notes'["final"] <= 1
    <2>1. CASE o = "final"
      <3>1. o \notin Inline
        BY <2>1, InlineAssumption
      <3>2. IF notes[o] > 0 THEN call.made = 0 ELSE call.made <= 1
        BY <1>9, <3>1 DEF Calls, Updating, Creating, Result
      <3> QED
        BY <1>6, <1>7, <1>9, <2>1, <3>2 DEF ReceiptInv
    <2>2. CASE o # "final"
      BY <1>7, <1>9, <2>2 DEF ReceiptInv, Op
    <2> QED
      BY <2>1, <2>2
  <1> QED
    BY <1>4, <1>5, <1>8, <1>9 DEF ReceiptInv

\* A receipt is written by the one that holds the claim, and ends the hold.
LEMMA WriteStep ==
  ASSUME Inv, NEW a \in Attempt, Complete(a) \/ Fail(a)
  PROVE  ReceiptInv'
  <1> USE DEF Inv
  <1> DEFINE o == run[a].op
  <1>1. run[a] \in Run /\ o \in Op /\ Holds(a, o)
    BY DEF Complete, Fail, TypeOK, Run, Holds
  <1>2. run'[a].phase \notin Holding /\ \A b \in Attempt \ {a} : run'[b] = run[b]
    <2>1. CASE Complete(a)
      BY <1>1, <2>1 DEF Complete, TypeOK, Run, Holding
    <2>2. CASE Fail(a)
      <3>1. Raised(run[a], o).phase \notin Holding
        BY <1>1, RunAfter
      <3> QED
        BY <2>2, <3>1 DEF Fail, TypeOK
    <2> QED
      BY <2>1, <2>2
  <1>3. \A b \in Attempt, q \in Op : Holds(b, q)' <=> (b # a /\ Holds(b, q))
    BY <1>2 DEF Holds, Holding
  <1>4. /\ UNCHANGED <<scene, notes, slips, stolen>>
        /\ \A q \in Op \ {o} : receipt'[q] = receipt[q] /\ aged'[q] = aged[q]
    BY <1>1 DEF Complete, Fail, history, TypeOK
  <1>5. Complete(a) => receipt'[o] = "completed"
    BY <1>1 DEF Complete, TypeOK
  <1>6. Fail(a) => run[a].phase = "fail"
    BY DEF Fail
  <1>7. o \notin stolen => \A b \in Attempt : Holds(b, o) => b = a
    BY <1>1 DEF ReceiptInv
  <1>8. ASSUME NEW q \in Op \ stolen', NEW b \in Attempt, Holds(b, q)'
        PROVE  /\ receipt'[q] = "claimed" /\ ~aged'[q]
               /\ \A c \in Attempt : Holds(c, q)' => c = b
    <2>1. q # o
      BY <1>3, <1>4, <1>7, <1>8
    <2> QED
      BY <1>3, <1>4, <1>8, <2>1 DEF ReceiptInv
  <1>9. ASSUME NEW q \in Op \ stolen', scene' = "review" => q # "final"
        PROVE  /\ notes'[q] <= slips'[q] + 1
               /\ \/ notes'[q] <= slips'[q]
                  \/ receipt'[q] = "completed"
                  \/ \E b \in Attempt : Holds(b, q)' /\ run'[b].phase = "complete"
    <2>1. CASE q = o
      <3>1. notes[o] <= slips[o] + 1
        BY <1>1, <1>4, <1>9, <2>1 DEF ReceiptInv
      <3>2. Fail(a) => notes[o] <= slips[o]
        <4>1. receipt[o] = "claimed"
          BY <1>1, <1>4, <1>9, <2>1 DEF ReceiptInv
        <4> QED
          BY <1>1, <1>4, <1>6, <1>7, <1>9, <2>1, <4>1 DEF ReceiptInv
      <3> QED
        BY <1>4, <1>5, <2>1, <3>1, <3>2
    <2>2. CASE q # o
      <3>1. \A b \in Attempt : Holds(b, q) => Holds(b, q)' /\ run'[b] = run[b]
        BY <1>2, <1>3, <2>2 DEF Holds
      <3> QED
        BY <1>4, <1>9, <2>2, <3>1 DEF ReceiptInv
    <2> QED
      BY <2>1, <2>2
  <1>10. scene' = "review" => notes'["final"] <= 1
    BY <1>4 DEF ReceiptInv
  <1> QED
    BY <1>8, <1>9, <1>10 DEF ReceiptInv

\* A crash ends every hold, and each post whose receipt was not saved is a slip.
LEMMA CrashStep ==
  ASSUME Inv, Crash
  PROVE  ReceiptInv'
  <1> USE DEF Inv
  <1> DEFINE posted(o) == {a \in Attempt : run[a].phase = "complete" /\ run[a].op = o}
  <1>1. \A a \in Attempt, o \in Op : ~Holds(a, o)'
    <2>1. \A a \in Attempt : run'[a].phase \notin Holding
      BY DEF Crash, TypeOK, Live, LivePhases, Holding, Ended
    <2> QED
      BY <2>1 DEF Holds, Holding
  <1>2. UNCHANGED <<scene, receipt, aged, notes, stolen>>
    BY DEF Crash, store
  <1>3. \A o \in Op : /\ Cardinality(posted(o)) \in Nat
                      /\ slips'[o] = slips[o] + Cardinality(posted(o))
                      /\ slips[o] \in Nat /\ notes[o] \in Nat
    BY AttemptAssumption, FS_Subset, FS_CardinalityType DEF Crash, TypeOK
  <1>4. ASSUME NEW o \in Op \ stolen, scene = "review" => o # "final"
        PROVE  /\ notes[o] <= slips'[o] + 1
               /\ notes[o] <= slips'[o] \/ receipt[o] = "completed"
    <2>1. /\ notes[o] <= slips[o] + 1
          /\ \/ notes[o] <= slips[o]
             \/ receipt[o] = "completed"
             \/ \E a \in Attempt : Holds(a, o) /\ run[a].phase = "complete"
      BY <1>4 DEF ReceiptInv
    <2>2. ASSUME NEW a \in Attempt, Holds(a, o), run[a].phase = "complete"
          PROVE  1 <= Cardinality(posted(o))
      <3>1. IsFiniteSet(posted(o)) /\ posted(o) # {}
        BY <2>2, AttemptAssumption, FS_Subset DEF Holds
      <3> QED
        BY <1>3, <3>1, FS_EmptySet
    <2> HIDE DEF posted
    <2>3. CASE \E a \in Attempt : Holds(a, o) /\ run[a].phase = "complete"
      <3>1. 1 <= Cardinality(posted(o))
        BY <2>2, <2>3
      <3> QED
        BY <1>3, <2>1, <3>1
    <2>4. CASE notes[o] <= slips[o] \/ receipt[o] = "completed"
      BY <1>3, <2>1, <2>4
    <2> QED
      BY <2>1, <2>3, <2>4
  <1> QED
    BY <1>1, <1>2, <1>4 DEF ReceiptInv

\* A claim that grows stale under its publisher is one the invariant lets go.
LEMMA AgeStep ==
  ASSUME Inv, NEW o \in Op, ClaimAges(o)
  PROVE  ReceiptInv'
  <1> USE DEF Inv
  <1>1. /\ UNCHANGED <<scene, receipt, notes, run, slips>>
        /\ stolen \subseteq stolen'
        /\ \A q \in Op \ {o} : aged'[q] = aged[q]
        /\ o \notin stolen' => \A a \in Attempt : ~Holds(a, o)
    BY DEF ClaimAges, TypeOK
  <1>2. \A a \in Attempt, q \in Op : Holds(a, q)' <=> Holds(a, q)
    BY <1>1 DEF Holds
  <1> QED
    BY <1>1, <1>2 DEF ReceiptInv

LEMMA ReceiptStep == Inv /\ [Next]_vars => ReceiptInv'
  <1> SUFFICES ASSUME Inv, [Next]_vars PROVE ReceiptInv'
    OBVIOUS
  <1>1. CASE UNCHANGED vars
    BY <1>1 DEF vars, store, history, Inv, ReceiptInv, Holds
  <1>2. CASE Next
    BY <1>2, QuietStep, ClaimStep, PostStep, WriteStep, CrashStep, AgeStep DEF Next
  <1> QED
    BY <1>1, <1>2

-----------------------------------------------------------------------------

LEMMA Invariance == Spec => []Inv
  <1>1. Init => Inv
    BY TypeInit, ReceiptInit DEF Inv
  <1>2. Inv /\ [Next]_vars => Inv'
    BY TypeStep, ReceiptStep DEF Inv
  <1> QED
    BY <1>1, <1>2, PTL DEF Spec

\* For any number of attempts, crashes and lost answers an operation makes one
\* note, and one more for each fault that the code cannot see through, unless a
\* publisher outlives its claim (publish.py:90-117, store.py:837-900).
THEOREM PublishedOnce == Spec => []OncePerSlip
  <1>1. Inv => OncePerSlip
    <2> SUFFICES ASSUME Inv, NEW o \in Op \ stolen
                 PROVE  notes[o] <= 1 + slips[o]
      BY DEF OncePerSlip
    <2>1. notes[o] \in Nat /\ slips[o] \in Nat
      BY DEF Inv, TypeOK
    <2>2. CASE scene = "review" /\ o = "final"
      BY <2>1, <2>2 DEF Inv, ReceiptInv
    <2>3. CASE scene = "review" => o # "final"
      BY <2>1, <2>3 DEF Inv, ReceiptInv
    <2> QED
      BY <2>2, <2>3
  <1> QED
    BY <1>1, Invariance, PTL

\* The summary of a merge request stays one note, whatever is lost or repeated:
\* also when several attempts publish it and when claims grow stale
\* (comments.py:49-86).
THEOREM SummaryIsOne == Spec => []OneSummary
  <1>1. Inv => OneSummary
    BY DEF Inv, ReceiptInv, OneSummary
  <1> QED
    BY <1>1, Invariance, PTL

\* Only the holder of a claim writes its receipt, and a completed operation has
\* no holder: nothing reopens it (publish.py:98-117, store.py:817-900).
THEOREM ReceiptIsFinal == Spec => CompletedIsFinal
  <1> DEFINE A == \A o \in Op : receipt[o] = "completed" /\ o \notin stolen
                                   => receipt'[o] = "completed"
  <1>1. Inv /\ [Next]_vars => [A]_vars
    <2> SUFFICES ASSUME Inv, Next, NEW o \in Op \ stolen, receipt[o] = "completed"
                 PROVE  receipt'[o] = "completed"
      OBVIOUS
    <2>1. \A a \in Attempt : ~Holds(a, o)
      BY DEF Inv, ReceiptInv
    <2>2. receipt \in [Op -> {"none", "claimed", "completed", "failed"}]
      BY DEF Inv, TypeOK
    <2>3. ASSUME NEW a \in Attempt, Claim(a)
          PROVE  receipt'[o] = "completed"
      BY <2>2, <2>3 DEF Claim, CanClaim
    <2>4. ASSUME NEW a \in Attempt, Complete(a) \/ Fail(a)
          PROVE  receipt'[o] = "completed"
      BY <2>1, <2>2, <2>4 DEF Complete, Fail, Holds
    <2>5. CASE UNCHANGED receipt
      BY <2>5
    <2> QED
      BY <2>3, <2>4, <2>5
         DEF Next, store, Start, Found, WorkRaises, PassOver, Post, Track, StoreRaises,
             Crash, ClaimAges
  <1> QED
    BY <1>1, Invariance, PTL DEF Spec, CompletedIsFinal

-----------------------------------------------------------------------------
(* What is recorded as published is shown *)

Publish == {"claim", "post", "complete", "track", "fail"}

\* What run r has yet to come to: inline comments, and one note at the end.
Ahead(r) ==
    /\ r.todo = {"fallback"} \/ r.todo \ Inline = {"final"}
    /\ r.stage = "notice" => r.todo \cap Inline = {}

\* While it publishes its result, what run r promised is on GitLab (in s), in the
\* reply it will post, or ahead of it.
Owed(r, s) ==
    r.stage = "result" =>
       /\ r.promised \subseteq Inline \cup {"final"}
       /\ r.promised \subseteq s \cup r.todo \cup r.inReply \cup {"final"}

Kept(r, s) ==
    /\ r.phase \in {"new", "working"} => r.stage = "result"
    /\ r.phase = "published" => r.promised \subseteq s
    /\ r.phase \in Publish =>
          /\ Ahead(r) /\ Owed(r, s)
          /\ r.phase # "claim" => r.op \in NextOps(r)
          /\ r.stage = "result" /\ r.phase \in {"complete", "track"} =>
                IF r.op \in Inline THEN r.op \in s \cup r.inReply
                ELSE {"final"} \cup r.inReply \subseteq s

\* Every run keeps its promise, and a receipt that lets others pass over an
\* inline comment stands for one that is on GitLab.
ShownInv ==
    /\ \A o \in Inline : hasId[o] => o \in shown
    /\ scene = "review" =>
          /\ \A o \in Inline : receipt[o] = "completed" => o \in shown
          /\ \A a \in Attempt : run[a].inReply = {}
    /\ \A a \in Attempt : Kept(run[a], shown)

LEMMA KeptMore ==
  ASSUME NEW r, NEW s, NEW t, Kept(r, s), s \subseteq t
  PROVE  Kept(r, t)
  BY DEF Kept, Owed

\* Going on after o, with o shown, put into the reply or not promised.
LEMMA KeptProceeded ==
  ASSUME NEW r \in Run, NEW s, NEW o \in NextOps(r), Ahead(r), Owed(r, s),
         r.stage = "result" /\ o \in Inline /\ o \in r.promised => o \in s \cup r.inReply,
         r.stage = "result" /\ o \notin Inline =>
            r.promised \cap ({"final"} \cup r.inReply) \subseteq s
  PROVE  Kept(Proceeded(r, o), s)
  <1> DEFINE q == [r EXCEPT !.todo = @ \ {o}, !.phase = "claim", !.op = "final"]
  <1>i. "final" \notin Inline /\ "fallback" \notin Inline
    BY InlineAssumption
  <1>o. o \in r.todo /\ (o \in Inline \/ r.todo \cap Inline = {})
    BY DEF NextOps
  <1>1. CASE r.todo # {o}
    <2>1. Proceeded(r, o) = q
      BY <1>1 DEF Proceeded
    <2>2. /\ q.phase = "claim" /\ q.todo = r.todo \ {o} /\ q.stage = r.stage
          /\ q.promised = r.promised /\ q.inReply = r.inReply
      BY DEF Run
    <2> HIDE DEF q
    <2>3. o \in Inline
      BY <1>1, <1>o DEF Ahead
    <2>4. Ahead(q)
      BY <1>i, <1>o, <2>2, <2>3 DEF Ahead
    <2>5. Owed(q, s)
      BY <2>2, <2>3 DEF Owed
    <2> QED
      BY <2>1, <2>2, <2>4, <2>5 DEF Kept, Publish
  <1>2. CASE r.todo = {o} /\ r.stage = "notice"
    BY <1>2 DEF Proceeded, Ended, Kept, Publish
  <1>3. CASE r.todo = {o} /\ r.stage = "result"
    <2>1. o \notin Inline
      BY <1>3, <1>i DEF Ahead
    <2>2. r.promised \subseteq s
      BY <1>3, <1>i, <2>1 DEF Owed, Ahead
    <2>3. Proceeded(r, o) = [Ended("published") EXCEPT !.promised = r.promised]
      BY <1>3 DEF Proceeded
    <2>4. /\ Proceeded(r, o).phase = "published"
          /\ Proceeded(r, o).promised = r.promised
      BY <2>3 DEF Ended
    <2> QED
      BY <2>2, <2>4 DEF Kept, Publish
  <1> QED
    BY <1>1, <1>2, <1>3 DEF Run

\* An exception at o drops the promises or leaves them to the fallback.
LEMMA KeptRaised ==
  ASSUME NEW r \in Run, NEW s, NEW o \in NextOps(r), Ahead(r), Owed(r, s)
  PROVE  Kept(Raised(r, o), s)
  <1> DEFINE q == [r EXCEPT !.todo = {"fallback"}, !.phase = "claim"]
  <1>i. "final" \notin Inline /\ "fallback" \notin Inline
    BY InlineAssumption
  <1>1. CASE scene = "thread" /\ o = "final"
    <2>1. Raised(r, o) = q
      BY <1>1 DEF Raised
    <2>2. /\ q.phase = "claim" /\ q.todo = {"fallback"} /\ q.stage = r.stage
          /\ q.promised = r.promised /\ q.inReply = r.inReply
      BY DEF Run
    <2> HIDE DEF q
    <2>3. r.todo = {"final"}
      BY <1>1, <1>i DEF NextOps, Ahead
    <2>4. Ahead(q) /\ Owed(q, s)
      BY <1>i, <2>2, <2>3 DEF Ahead, Owed
    <2> QED
      BY <2>1, <2>2, <2>4 DEF Kept, Publish
  <1>2. Kept(Notifying, s)
    BY <1>i DEF Notifying, Ended, Kept, Ahead, Owed, Publish
  <1>3. Kept(Ended("raised"), s)
    BY DEF Ended, Kept, Publish
  <1> QED
    BY <1>1, <1>2, <1>3 DEF Raised

\* A step that moves one run, and may put more on GitLab, keeps the promises, if
\* it keeps those of the run.
LEMMA OneRun ==
  ASSUME TypeOK, ShownInv, NEW a \in Attempt, NEW r, Moves(a, r),
         shown \subseteq shown', Kept(r, shown')
  PROVE  \A b \in Attempt : Kept(run'[b], shown')
  <1> SUFFICES ASSUME NEW b \in Attempt PROVE Kept(run'[b], shown')
    OBVIOUS
  <1>1. run'[b] = IF b = a THEN r ELSE run[b]
    BY DEF Moves, TypeOK
  <1> QED
    BY <1>1, KeptMore DEF ShownInv

\* A step that writes no receipt and shows nothing.
LEMMA SilentStep ==
  ASSUME TypeOK, ShownInv, NEW a \in Attempt, NEW r, Moves(a, r), Kept(r, shown),
         UNCHANGED <<scene, store, shown>>, scene = "review" => r.inReply = {}
  PROVE  ShownInv'
  <1>1. \A b \in Attempt : Kept(run'[b], shown')
    BY OneRun
  <1>2. \A b \in Attempt : run'[b] = IF b = a THEN r ELSE run[b]
    BY DEF Moves, TypeOK
  <1> QED
    BY <1>1, <1>2 DEF ShownInv, store

LEMMA InReplyAfter ==
  ASSUME NEW r \in Run, NEW o
  PROVE  /\ r.inReply = {} => Proceeded(r, o).inReply = {}
         /\ r.inReply = {} => Raised(r, o).inReply = {}
  BY DEF Proceeded, Raised, Notifying, Ended, Run

LEMMA ShownStep == TypeOK /\ ShownInv /\ [Next]_vars => ShownInv'
  <1> SUFFICES ASSUME TypeOK, ShownInv, [Next]_vars PROVE ShownInv'
    OBVIOUS
  <1> USE DEF history
  <1>i. "final" \notin Inline /\ "fallback" \notin Inline
    BY InlineAssumption
  <1>t. ASSUME NEW a \in Attempt
        PROVE  /\ run[a] \in Run /\ run[a].op \in Op /\ NextOps(run[a]) \subseteq Op
               /\ Kept(run[a], shown)
               /\ scene = "review" => run[a].inReply = {}
    BY <1>t DEF TypeOK, Run, NextOps, ShownInv
  <1>1. ASSUME NEW a \in Attempt, Start(a) PROVE ShownInv'
    <2>1. PICK p \in {"skipped", "working"} : run' = [run EXCEPT ![a].phase = p]
      BY <1>1 DEF Start
    <2> DEFINE r == [run[a] EXCEPT !.phase = p]
    <2>2. Moves(a, r)
      BY <2>1 DEF Moves, TypeOK
    <2>3. r.phase = p /\ r.inReply = run[a].inReply /\ r.stage = run[a].stage
      BY <1>t DEF Run
    <2> HIDE DEF r
    <2>4. Kept(r, shown)
      BY <1>1, <1>t, <2>3 DEF Start, Kept, Publish
    <2> QED
      BY <1>1, <1>t, <2>2, <2>3, <2>4, SilentStep DEF Start
  <1>2. ASSUME NEW a \in Attempt, Found(a) PROVE ShownInv'
    <2>1. PICK found \in SUBSET Inline :
             run' = [run EXCEPT ![a].phase = "claim",
                                ![a].todo = found \cup {"final"},
                                ![a].promised = found \cup {"final"}]
      BY <1>2 DEF Found
    <2> DEFINE r == [run[a] EXCEPT !.phase = "claim", !.todo = found \cup {"final"},
                                   !.promised = found \cup {"final"}]
    <2>2. Moves(a, r)
      BY <2>1 DEF Moves, TypeOK
    <2>3. /\ r.phase = "claim" /\ r.todo = found \cup {"final"}
          /\ r.promised = found \cup {"final"} /\ r.inReply = run[a].inReply
          /\ r.stage = run[a].stage
      BY <1>t DEF Run
    <2> HIDE DEF r
    <2>4. r.stage = "result"
      BY <1>2, <1>t, <2>3 DEF Found, Kept
    <2>5. Kept(r, shown)
      BY <1>i, <2>3, <2>4 DEF Kept, Ahead, Owed, Publish
    <2> QED
      BY <1>2, <1>t, <2>2, <2>3, <2>5, SilentStep DEF Found
  <1>3. ASSUME NEW a \in Attempt, WorkRaises(a) PROVE ShownInv'
    <2>1. \E r \in {Ended("raised"), Notifying} : Moves(a, r)
      BY <1>3 DEF WorkRaises, Moves
    <2>2. /\ Kept(Ended("raised"), shown) /\ Kept(Notifying, shown)
          /\ Ended("raised").inReply = {} /\ Notifying.inReply = {}
      BY <1>i DEF Notifying, Ended, Kept, Ahead, Owed, Publish
    <2> QED
      BY <1>3, <2>1, <2>2, SilentStep DEF WorkRaises
  <1>4. ASSUME NEW a \in Attempt, Claim(a) PROVE ShownInv'
    <2>1. PICK o \in NextOps(run[a]) :
             /\ receipt' = [receipt EXCEPT ![o] = "claimed"]
             /\ hasId' = [hasId EXCEPT ![o] = FALSE]
             /\ run' = [run EXCEPT ![a].phase = "post", ![a].op = o]
      BY <1>4 DEF Claim
    <2> DEFINE r == [run[a] EXCEPT !.phase = "post", !.op = o]
    <2>2. Moves(a, r)
      BY <2>1 DEF Moves, TypeOK
    <2>3. /\ r.phase = "post" /\ r.op = o /\ r.todo = run[a].todo
          /\ r.stage = run[a].stage
          /\ r.promised = run[a].promised /\ r.inReply = run[a].inReply
      BY <1>t DEF Run
    <2> HIDE DEF r
    <2>4. run[a].phase = "claim" /\ UNCHANGED <<scene, shown>>
      BY <1>4 DEF Claim
    <2>5. NextOps(r) = NextOps(run[a])
      BY <2>3 DEF NextOps
    <2>6. Kept(r, shown)
      BY <1>t, <2>1, <2>3, <2>4, <2>5 DEF Kept, Ahead, Owed, Publish
    <2>7. \A b \in Attempt : Kept(run'[b], shown')
      BY <2>2, <2>4, <2>6, OneRun
    <2>8. \A b \in Attempt : run'[b].inReply = run[b].inReply
      BY <2>1 DEF TypeOK, Run
    <2>9. \A x \in Op : /\ hasId'[x] => hasId[x]
                        /\ receipt'[x] = "completed" => receipt[x] = "completed"
      BY <2>1 DEF TypeOK
    <2> QED
      BY <2>4, <2>7, <2>8, <2>9 DEF ShownInv, Op
  <1>5. ASSUME NEW a \in Attempt, PassOver(a) PROVE ShownInv'
    <2>1. PICK o \in NextOps(run[a]) :
             ~CanClaim(o) /\ Moves(a, Proceeded(Refused(run[a], o), o))
      BY <1>5 DEF PassOver, Moves
    <2> DEFINE r == Refused(run[a], o)
    <2>2. /\ r.todo = run[a].todo /\ r.stage = run[a].stage
          /\ r.promised = run[a].promised \ LeftToOthers(run[a], o)
          /\ r.inReply = IF scene # "review" /\ o \in Inline /\ ~hasId[o]
                         THEN run[a].inReply \cup {o} ELSE run[a].inReply
      BY <1>t DEF Refused, Run
    <2>3. r \in Run /\ o \in Op
      BY <1>t, <2>1 DEF Refused, Run
    <2> HIDE DEF r
    <2>4. Ahead(run[a]) /\ Owed(run[a], shown)
      BY <1>5, <1>t DEF PassOver, Kept, Publish
    <2>5. Ahead(r) /\ Owed(r, shown) /\ o \in NextOps(r)
      BY <2>1, <2>2, <2>4 DEF Ahead, Owed, NextOps
    <2>6. o \in Inline /\ o \in r.promised => o \in shown \cup r.inReply
      BY <2>2 DEF LeftToOthers, ShownInv
    <2>7. o \notin Inline => r.promised \cap ({"final"} \cup r.inReply) = {}
      BY <2>2 DEF LeftToOthers
    <2>8. Kept(Proceeded(r, o), shown)
      BY <2>3, <2>5, <2>6, <2>7, KeptProceeded
    <2>9. scene = "review" => Proceeded(r, o).inReply = {}
      BY <1>t, <2>2, <2>3, InReplyAfter
    <2>10. Moves(a, Proceeded(r, o))
      BY <2>1 DEF r
    <2> QED
      BY <1>5, <2>8, <2>9, <2>10, SilentStep DEF PassOver
  <1>6. ASSUME NEW a \in Attempt, Post(a) PROVE ShownInv'
    <2> DEFINE o == run[a].op
    <2>1. PICK call \in Calls(o) :
             /\ shown' = IF call.seen THEN shown \cup Shows(run[a]) ELSE shown
             /\ run' = [run EXCEPT
                   ![a].phase = IF call.returns = "raise" THEN "fail" ELSE "complete",
                   ![a].inReply = IF call.returns = "none" THEN @ \cup {o} ELSE @]
      BY <1>6 DEF Post
    <2> DEFINE r == [run[a] EXCEPT
                   !.phase = IF call.returns = "raise" THEN "fail" ELSE "complete",
                   !.inReply = IF call.returns = "none" THEN @ \cup {o} ELSE @]
    <2>2. Moves(a, r)
      BY <2>1 DEF Moves, TypeOK
    <2>3. /\ r.phase = IF call.returns = "raise" THEN "fail" ELSE "complete"
          /\ r.inReply = IF call.returns = "none" THEN run[a].inReply \cup {o}
                         ELSE run[a].inReply
          /\ r.op = o /\ r.todo = run[a].todo /\ r.stage = run[a].stage
          /\ r.promised = run[a].promised
      BY <1>t DEF Run
    <2>c. /\ call.returns = "none" => scene # "review" /\ o \in Inline
          /\ call.returns = "id" => call.seen
          /\ call.returns \in {"id", "none", "raise"}
      BY DEF Calls, WithFallback, WithoutFallback, Creating, Updating, Result
    <2> HIDE DEF r
    <2>4. /\ run[a].phase = "post" /\ UNCHANGED <<scene, store>>
          /\ shown \subseteq shown'
      BY <1>6, <2>1 DEF Post
    <2>5. Ahead(r) /\ Owed(r, shown') /\ r.op \in NextOps(r)
      <3>1. Ahead(run[a]) /\ Owed(run[a], shown) /\ o \in NextOps(run[a])
        BY <1>t, <2>4 DEF Kept, Publish
      <3>2. run[a].inReply \subseteq r.inReply
        BY <2>3
      <3>3. Ahead(r)
        BY <2>3, <3>1 DEF Ahead
      <3>4. Owed(r, shown')
        BY <2>3, <2>4, <3>1, <3>2 DEF Owed
      <3>5. r.op \in NextOps(r)
        BY <2>3, <3>1 DEF NextOps
      <3> QED
        BY <3>3, <3>4, <3>5
    <2>6. ASSUME r.stage = "result", r.phase = "complete"
          PROVE  IF o \in Inline THEN o \in shown' \cup r.inReply
                 ELSE {"final"} \cup r.inReply \subseteq shown'
      <3>1. CASE call.returns = "none"
        BY <2>3, <2>c, <3>1
      <3>2. CASE call.returns = "id"
        BY <2>1, <2>3, <2>6, <2>c, <3>2 DEF Shows
      <3> QED
        BY <2>3, <2>6, <2>c, <3>1, <3>2
    <2>7. Kept(r, shown')
      BY <2>3, <2>5, <2>6 DEF Kept, Publish
    <2>8. \A b \in Attempt : Kept(run'[b], shown')
      BY <2>2, <2>4, <2>7, OneRun
    <2>9. \A b \in Attempt : run'[b] = IF b = a THEN r ELSE run[b]
      BY <2>2 DEF Moves, TypeOK
    <2>10. scene = "review" => \A b \in Attempt : run'[b].inReply = {}
      BY <1>t, <2>3, <2>9, <2>c
    <2> QED
      BY <2>4, <2>8, <2>10 DEF ShownInv, store
  <1>7. ASSUME NEW a \in Attempt, Complete(a) PROVE ShownInv'
    <2> DEFINE o == run[a].op
               r == [run[a] EXCEPT !.phase = "track"]
    <2>1. /\ run[a].phase = "complete" /\ UNCHANGED <<scene, shown>>
          /\ receipt' = [receipt EXCEPT ![o] = "completed"]
          /\ hasId' = [hasId EXCEPT ![o] = o \notin run[a].inReply]
          /\ run' = [run EXCEPT ![a].phase = "track"]
      BY <1>7 DEF Complete
    <2>2. Moves(a, r)
      BY <2>1 DEF Moves, TypeOK
    <2>3. /\ r.phase = "track" /\ r.op = o /\ r.todo = run[a].todo
          /\ r.stage = run[a].stage
          /\ r.promised = run[a].promised /\ r.inReply = run[a].inReply
      BY <1>t DEF Run
    <2> HIDE DEF r
    <2>4. Kept(r, shown)
      BY <1>t, <2>1, <2>3 DEF Kept, Ahead, Owed, NextOps, Publish
    <2>5. \A b \in Attempt : Kept(run'[b], shown')
      BY <2>1, <2>2, <2>4, OneRun
    <2>6. o \in Inline => o \in shown \cup run[a].inReply
      <3>1. /\ Ahead(run[a]) /\ o \in NextOps(run[a])
            /\ run[a].stage = "result" =>
                  (o \in Inline => o \in shown \cup run[a].inReply)
        BY <1>t, <2>1 DEF Kept, Publish
      <3>2. run[a].stage = "notice" => o \notin Inline
        BY <3>1 DEF Ahead, NextOps
      <3> QED
        BY <1>t, <3>1, <3>2 DEF Run
    <2>7. \A b \in Attempt : run'[b].inReply = run[b].inReply
      BY <2>1 DEF TypeOK, Run
    <2>8. \A x \in Inline : hasId'[x] => x \in shown
      BY <2>1, <2>6 DEF ShownInv, TypeOK, Op
    <2>9. scene = "review" => \A x \in Inline : receipt'[x] = "completed" => x \in shown
      BY <1>t, <2>1, <2>6 DEF ShownInv, TypeOK, Op
    <2> QED
      BY <2>1, <2>5, <2>7, <2>8, <2>9 DEF ShownInv
  <1>8. ASSUME NEW a \in Attempt, Track(a) PROVE ShownInv'
    <2> DEFINE o == run[a].op
    <2>1. Moves(a, Proceeded(run[a], o)) /\ run[a].phase = "track"
      BY <1>8 DEF Track, Moves
    <2>2. /\ Ahead(run[a]) /\ Owed(run[a], shown) /\ o \in NextOps(run[a])
          /\ run[a].stage = "result" =>
                IF o \in Inline THEN o \in shown \cup run[a].inReply
                ELSE {"final"} \cup run[a].inReply \subseteq shown
      BY <1>t, <2>1 DEF Kept, Publish
    <2>3. Kept(Proceeded(run[a], o), shown)
      BY <1>t, <2>2, KeptProceeded
    <2>4. scene = "review" => Proceeded(run[a], o).inReply = {}
      BY <1>t, InReplyAfter
    <2> QED
      BY <1>8, <2>1, <2>3, <2>4, SilentStep DEF Track
  <1>9. ASSUME NEW a \in Attempt, Fail(a) PROVE ShownInv'
    <2> DEFINE o == run[a].op
    <2>1. /\ Moves(a, Raised(run[a], o)) /\ run[a].phase = "fail"
          /\ UNCHANGED <<scene, shown>>
          /\ receipt' = [receipt EXCEPT ![o] = "failed"]
          /\ hasId' = [hasId EXCEPT ![o] = FALSE]
      BY <1>9 DEF Fail, Moves
    <2>2. Ahead(run[a]) /\ Owed(run[a], shown) /\ o \in NextOps(run[a])
      BY <1>t, <2>1 DEF Kept, Publish
    <2>3. Kept(Raised(run[a], o), shown)
      BY <1>t, <2>2, KeptRaised
    <2>4. \A b \in Attempt : Kept(run'[b], shown')
      BY <2>1, <2>3, OneRun
    <2>5. scene = "review" => Raised(run[a], o).inReply = {}
      BY <1>t, InReplyAfter
    <2>6. \A b \in Attempt : run'[b] = IF b = a THEN Raised(run[a], o) ELSE run[b]
      BY <2>1 DEF Moves, TypeOK
    <2>7. \A x \in Op : /\ hasId'[x] => hasId[x]
                        /\ receipt'[x] = "completed" => receipt[x] = "completed"
      BY <2>1 DEF TypeOK
    <2> QED
      BY <2>1, <2>4, <2>5, <2>6, <2>7 DEF ShownInv, Op
  <1>10. ASSUME NEW a \in Attempt, StoreRaises(a) PROVE ShownInv'
    <2>1. PICK o \in NextOps(run[a]) : Moves(a, Raised(run[a], o))
      BY <1>10, <1>t DEF StoreRaises, Moves, Kept, Publish
    <2>2. Ahead(run[a]) /\ Owed(run[a], shown)
      BY <1>10, <1>t DEF StoreRaises, Kept, Publish
    <2>3. Kept(Raised(run[a], o), shown)
      BY <1>t, <2>1, <2>2, KeptRaised
    <2>4. scene = "review" => Raised(run[a], o).inReply = {}
      BY <1>t, InReplyAfter
    <2> QED
      BY <1>10, <2>1, <2>3, <2>4, SilentStep DEF StoreRaises
  <1>11. CASE Crash
    <2>1. /\ UNCHANGED <<scene, store, shown>>
          /\ \A b \in Attempt : run'[b] = run[b] \/ run'[b] = Ended("dead")
      BY <1>11 DEF Crash
    <2>2. Kept(Ended("dead"), shown) /\ Ended("dead").inReply = {}
      BY DEF Ended, Kept, Publish
    <2>3. \A b \in Attempt : Kept(run'[b], shown')
      BY <1>t, <2>1, <2>2
    <2> QED
      BY <2>1, <2>2, <2>3 DEF ShownInv, store
  <1>12. ASSUME NEW o \in Op, ClaimAges(o) PROVE ShownInv'
    BY <1>12 DEF ClaimAges, ShownInv
  <1>13. CASE UNCHANGED vars
    BY <1>13 DEF vars, store, ShownInv
  <1> QED
    BY <1>1, <1>2, <1>3, <1>4, <1>5, <1>6, <1>7, <1>8, <1>9, <1>10, <1>11, <1>12,
       <1>13 DEF Next

\* For any number of attempts, claims and faults: a run that ends as published has
\* on GitLab all it set out to publish, but for what it knowingly left to another
\* attempt's claim or reply (publish.py:90-117, mention/orchestrator.py:562-600).
THEOREM PublishedMeansShown == Spec => []PublishedIsShown
  <1>1. Init => ShownInv
    <2> SUFFICES ASSUME Init PROVE ShownInv
      OBVIOUS
    <2>1. Kept(Ended("new"), {}) /\ Ended("new").inReply = {}
      BY DEF Ended, Kept, Publish
    <2> QED
      BY <2>1 DEF Init, ShownInv, Op
  <1>2. ShownInv => PublishedIsShown
    BY DEF ShownInv, Kept, PublishedIsShown
  <1> QED
    BY <1>1, <1>2, ShownStep, Invariance, PTL DEF Spec, Inv

=============================================================================
