------------------------ MODULE LiveExecutionProofs ------------------------
(***************************************************************************)
(* Theorems about LiveExecution, for any orders and order size.  The types *)
(* and the position hold for any number of processes; that an order is     *)
(* posted once, that its row follows the exchange and that the row only    *)
(* advances is proved while one process at a time has read an order and    *)
(* not yet stored it (or not yet posted it, where that suffices), because  *)
(* two of them break it: both may find no result and post, and the older   *)
(* of two answers may be stored last.                                      *)
(***************************************************************************)
EXTENDS LiveExecution, SumLemmas

USE LiveAssumption DEF database, vars, Continue, Goto, Accept, SetOrder

-----------------------------------------------------------------------------
(* Intervals of executions. *)

LEMMA PartOfInterval ==
  ASSUME NEW n \in Nat, NEW S \in SUBSET (1 .. n)
  PROVE  IsFiniteSet(S) /\ Cardinality(S) \in 0 .. n
<1>1. IsFiniteSet(1 .. n) /\ Cardinality(1 .. n) = n
  BY FS_Interval
<1>2. IsFiniteSet(S) /\ Cardinality(S) =< n
  BY <1>1, FS_Subset
<1> QED BY <1>2, FS_CardinalityType

LEMMA IntervalInside ==
  ASSUME NEW n \in Nat, NEW m \in Nat, NEW S \in SUBSET (1 .. n), 1 .. m \subseteq S
  PROVE  m =< Cardinality(S)
<1>1. IsFiniteSet(S)
  BY PartOfInterval
<1>2. Cardinality(1 .. m) = m
  BY FS_Interval
<1> QED BY <1>1, <1>2, FS_Subset

-----------------------------------------------------------------------------
(* Types. *)

LEMMA IdleRunTyped == IdleRun \in Run /\ IdleRun.pc = "idle" /\ IdleRun.order \in Orders
BY DEF IdleRun, Run, Steps, NoAnswer, Answer, Statuses

LEMMA ContinueTyped ==
  ASSUME TypeOK, NEW w \in Workers, NEW r \in Run, Continue(w, r)
  PROVE  run' \in [Workers -> Run]
BY DEF TypeOK

LEMMA GotoTyped ==
  ASSUME TypeOK, NEW w \in Workers, NEW pc \in Steps, Goto(w, pc)
  PROVE  run' \in [Workers -> Run]
<1>1. [run[w] EXCEPT !.pc = pc] \in Run
  BY DEF TypeOK, Run
<1> QED BY <1>1, ContinueTyped

LEMMA RunFields ==
  ASSUME TypeOK, NEW w \in Workers
  PROVE  /\ run[w] \in Run /\ run[w].order \in Orders /\ run[w].answer \in Answer
         /\ run[w].todo \subseteq Orders /\ run[w].fills \subseteq 1 .. Size
BY DEF TypeOK, Run

LEMMA OrderFields ==
  ASSUME TypeOK, NEW o \in Orders
  PROVE  /\ exchange[o].posts \in 0 .. MaxPosts
         /\ exchange[o].order \in Answer
         /\ exchange[o].order.filled \in 0 .. Size
         /\ exchange[o].order.status \in Statuses
         /\ row[o].status \in Statuses \cup {"NONE", "CREATED"}
         /\ row[o].filled \in 0 .. Size
         /\ trades[o] \subseteq 1 .. Size
BY DEF TypeOK, Exchange, Answer, Row

LEMMA SetOrderTyped ==
  ASSUME TypeOK, NEW o \in Orders, NEW a \in Answer, SetOrder(o, a)
  PROVE  exchange' \in [Orders -> Exchange]
BY OrderFields DEF TypeOK, Exchange

LEMMA AcceptTyped ==
  ASSUME TypeOK, NEW o \in Orders, MayPost(o), NEW a \in Accepted, Accept(o, a)
  PROVE  exchange' \in [Orders -> Exchange] /\ a \in Answer
<1>1. a \in Answer
  BY DEF Accepted, Answer, Statuses, Open, Terminal
<1>2. exchange[o].posts + 1 \in 0 .. MaxPosts
  BY OrderFields DEF MayPost
<1> QED BY <1>1, <1>2 DEF TypeOK, Exchange

LEMMA CanceledTyped ==
  ASSUME TypeOK, NEW o \in Orders
  PROVE  Canceled(o) \in Answer
BY OrderFields DEF Canceled, Answer, Statuses, Terminal

LEMMA TypeInit == Init => TypeOK
<1> SUFFICES ASSUME Init PROVE TypeOK
    OBVIOUS
<1>1. exchange \in [Orders -> Exchange]
  BY DEF Init, Exchange, Answer, NoAnswer, Statuses
<1>2. row \in [Orders -> Row]
  BY DEF Init, Row
<1>3. run \in [Workers -> Run]
  BY IdleRunTyped DEF Init
<1> QED BY <1>1, <1>2, <1>3 DEF Init, TypeOK

LEMMA StepTyped ==
  ASSUME TypeOK, NEW w \in Workers, Step(w)
  PROVE  TypeOK'
<1> DEFINE o == run[w].order
<1>0. /\ o \in Orders /\ run[w] \in Run /\ run[w].answer \in Answer
      /\ run[w].fills \subseteq 1 .. Size /\ run[w].todo \subseteq Orders
  BY RunFields
<1>1. CASE Admit(w)
  BY <1>1, GotoTyped DEF Admit, TypeOK, Steps
<1>2. CASE Find(w)
  BY <1>2, GotoTyped DEF Find, FindRow, TypeOK, Steps
<1>3. CASE Create(w)
  <2>1. row' \in [Orders -> Row]
    BY <1>3, <1>0 DEF Create, TypeOK, Row
  <2> QED BY <1>3, <2>1, GotoTyped DEF Create, TypeOK, Steps
<1>4. CASE Check(w)
  <2>1. \E pc \in Steps : Goto(w, pc)
    BY <1>4 DEF Check, Steps
  <2> QED BY <1>4, <2>1, GotoTyped DEF Check, TypeOK
<1>5. CASE Post(w)
  <2>1. PICK a \in Accepted :
          Accept(o, a) /\ Continue(w, [run[w] EXCEPT !.pc = "resolving", !.answer = a])
    BY <1>5 DEF Post
  <2>2. exchange' \in [Orders -> Exchange] /\ a \in Answer
    BY <1>5, <1>0, <2>1, AcceptTyped DEF Post
  <2>3. [run[w] EXCEPT !.pc = "resolving", !.answer = a] \in Run
    BY <1>0, <2>2 DEF Run, Steps
  <2>4. run' \in [Workers -> Run]
    BY <2>1, <2>3, ContinueTyped
  <2> QED BY <1>5, <2>2, <2>4 DEF Post, TypeOK
<1>6. CASE LoseAnswer(w)
  <2>1. PICK a \in Accepted : Accept(o, a)
    BY <1>6 DEF LoseAnswer
  <2>2. exchange' \in [Orders -> Exchange]
    BY <1>6, <1>0, <2>1, AcceptTyped DEF LoseAnswer
  <2> QED BY <1>6, <2>2, GotoTyped DEF LoseAnswer, TypeOK, Steps
<1>7. CASE Refuse(w)
  BY <1>7, GotoTyped DEF Refuse, TypeOK, Steps
<1>8. CASE Query(w)
  <2>1. [run[w] EXCEPT !.pc = "resolving", !.answer = exchange[o].order] \in Run
    BY <1>0, OrderFields DEF Run, Steps
  <2> QED BY <1>8, <2>1, ContinueTyped DEF Query, TypeOK
<1>9. CASE Resolve(w)
  <2>1. [status |-> run[w].answer.status, resolved |-> TRUE,
         filled |-> run[w].answer.filled] \in Row
    BY <1>0 DEF Row, Answer
  <2>2. row' \in [Orders -> Row]
    BY <1>9, <1>0, <2>1 DEF Resolve, TypeOK
  <2>3. Following(w) \in Steps
    BY DEF Following, Steps
  <2> QED BY <1>9, <2>2, <2>3, GotoTyped DEF Resolve, TypeOK
<1>10. CASE Cancel(w)
  <2>1. Canceled(o) \in Answer
    BY <1>0, CanceledTyped
  <2>2. [run[w] EXCEPT !.pc = "resolving", !.answer = Canceled(o), !.goal = "submit"] \in Run
    BY <1>0, <2>1 DEF Run, Steps
  <2>3. run' \in [Workers -> Run]
    BY <1>10, <2>2, ContinueTyped DEF Cancel
  <2>4. exchange' \in [Orders -> Exchange]
    BY <1>10, <1>0, <2>1, SetOrderTyped DEF Cancel
  <2> QED BY <1>10, <2>3, <2>4 DEF Cancel, TypeOK
<1>11. CASE Pick(w)
  <2>1. CASE Continue(w, IdleRun)
    BY <1>11, <2>1, IdleRunTyped, ContinueTyped DEF Pick, TypeOK
  <2>2. ASSUME NEW p \in run[w].todo,
               Continue(w, [run[w] EXCEPT !.pc = IF killed THEN "picking" ELSE "querying",
                                          !.order = p, !.todo = run[w].todo \ {p}])
        PROVE  TypeOK'
    <3>1. [run[w] EXCEPT !.pc = IF killed THEN "picking" ELSE "querying",
                         !.order = p, !.todo = run[w].todo \ {p}] \in Run
      BY <1>0 DEF Run, Steps
    <3> QED BY <1>11, <2>2, <3>1, ContinueTyped DEF Pick, TypeOK
  <2> QED BY <1>11, <2>1, <2>2 DEF Pick
<1>12. CASE Fetch(w)
  <2>1. 1 .. exchange[o].order.filled \subseteq 1 .. Size
    BY <1>0, OrderFields
  <2>2. [run[w] EXCEPT !.pc = "persisting", !.fills = 1 .. exchange[o].order.filled] \in Run
    BY <1>0, <2>1 DEF Run, Steps
  <2> QED BY <1>12, <2>2, ContinueTyped DEF Fetch, TypeOK
<1>13. CASE Persist(w)
  <2> DEFINE n == Cardinality(NewFills(w))
  <2>1. n \in Nat
    BY <1>0, PartOfInterval DEF NewFills
  <2>2. Filled(w) \in 0 .. Size
    BY <1>0, OrderFields, PartOfInterval DEF Filled
  <2>3. position' \in Nat
    BY <1>13, <2>1 DEF Persist, Covered, TypeOK
  <2>4. trades' \in [Orders -> SUBSET (1 .. Size)]
    BY <1>13, <1>0, OrderFields DEF Persist, TypeOK
  <2>5. row' \in [Orders -> Row]
    BY <1>13, <1>0, <2>2 DEF Persist, TypeOK, Row
  <2> QED BY <1>13, <2>3, <2>4, <2>5, GotoTyped DEF Persist, TypeOK, Steps
<1>14. CASE Fail(w)
  BY <1>14, IdleRunTyped, ContinueTyped, GotoTyped DEF Fail, TypeOK, Steps
<1>15. CASE Crash(w)
  BY <1>15, IdleRunTyped, ContinueTyped DEF Crash, TypeOK
<1> QED BY <1>1, <1>2, <1>3, <1>4, <1>5, <1>6, <1>7, <1>8, <1>9, <1>10, <1>11, <1>12,
           <1>13, <1>14, <1>15 DEF Step

LEMMA StartTyped ==
  ASSUME TypeOK, NEW w \in Workers, NEW o \in Orders,
         Call(w, o) \/ SubmitJob(w, o) \/ StartCancel(w, o) \/ Reconcile(w)
  PROVE  TypeOK'
<1>1. [IdleRun EXCEPT !.pc = "finding", !.order = o] \in Run
  BY IdleRunTyped DEF Run, Steps
<1>2. [IdleRun EXCEPT !.pc = "gated", !.order = o] \in Run
  BY IdleRunTyped DEF Run, Steps
<1>3. [IdleRun EXCEPT !.pc = "querying", !.order = o, !.goal = "cancel"] \in Run
  BY IdleRunTyped DEF Run, Steps
<1>4. [IdleRun EXCEPT !.pc = "picking", !.goal = "fills", !.todo = Reconcilable] \in Run
  BY IdleRunTyped DEF Run, Steps, Reconcilable
<1>5. run' \in [Workers -> Run]
  BY <1>1, <1>2, <1>3, <1>4, ContinueTyped DEF Call, SubmitJob, StartCancel, Reconcile
<1> QED BY <1>5 DEF Call, SubmitJob, StartCancel, Reconcile, TypeOK

LEMMA ExchangeTyped ==
  ASSUME TypeOK, NEW o \in Orders, Advance(o) \/ Expire(o)
  PROVE  TypeOK'
<1>1. CASE Advance(o)
  <2> DEFINE n == exchange[o].order.filled + 1
  <2>1. (IF n < Size THEN [status |-> "PARTIALLY_FILLED", filled |-> n]
         ELSE [status |-> "FILLED", filled |-> Size]) \in Answer
    BY OrderFields DEF Answer, Statuses, Open, Terminal
  <2> QED BY <1>1, <2>1, SetOrderTyped DEF Advance, TypeOK
<1>2. CASE Expire(o)
  BY <1>2, CanceledTyped, SetOrderTyped DEF Expire, TypeOK
<1> QED BY <1>1, <1>2

LEMMA TypeStep == TypeOK /\ [Next]_vars => TypeOK'
<1> SUFFICES ASSUME TypeOK, [Next]_vars PROVE TypeOK'
    OBVIOUS
<1>1. CASE UNCHANGED vars
  BY <1>1 DEF TypeOK
<1>2. CASE Kill
  BY <1>2 DEF Kill, TypeOK
<1>3. CASE Next
  BY <1>2, <1>3, StepTyped, StartTyped, ExchangeTyped DEF Next
<1> QED BY <1>1, <1>3

\* Types of every reachable state, for any number of processes; in particular
\* a stored SELL never takes the LIVE position below zero.
THEOREM TypeCorrect == Spec => []TypeOK
BY TypeInit, TypeStep, PTL DEF Spec

-----------------------------------------------------------------------------
(* One process at a time handles an order.  What it is about to do agrees   *)
(* with the exchange: it posts only what was never posted, and an answer or *)
(* a list of fills it holds lies between the row, which it alone writes     *)
(* meanwhile, and the exchange, which only moves on.                        *)

SinglePoster(o) ==
  /\ exchange[o].posts =< 1
  /\ exchange[o].posts = 0 => exchange[o].order = NoAnswer

RowBehind(o) ==
  /\ exchange[o].posts > 0 => row[o].status # "NONE"
  /\ row[o].resolved => exchange[o].posts > 0
  /\ row[o].filled =< exchange[o].order.filled
  /\ row[o].status \in Terminal =>
       exchange[o].order = [status |-> row[o].status, filled |-> row[o].filled]
  /\ trades[o] \subseteq 1 .. exchange[o].order.filled

PostsNew(w) ==
  run[w].pc \in {"creating", "checking", "posting"} => exchange[run[w].order].posts = 0

ReservesFirst(w) ==
  run[w].pc \in {"checking", "posting"} => row[run[w].order].status # "NONE"

CancelsPosted(w) == run[w].pc = "canceling" => exchange[run[w].order].posts > 0

AnswerBetween(w) ==
  LET o == run[w].order
      a == run[w].answer
  IN
  run[w].pc = "resolving" =>
    /\ exchange[o].posts > 0
    /\ row[o].filled =< a.filled /\ a.filled =< exchange[o].order.filled
    /\ a.status \in Terminal => exchange[o].order = a
    /\ row[o].status \in Terminal => a.status = row[o].status

FillsBetween(w) ==
  LET o == run[w].order IN
  run[w].pc = "persisting" =>
    /\ 1 .. row[o].filled \subseteq run[w].fills
    /\ run[w].fills \subseteq 1 .. exchange[o].order.filled

RunAgrees(w) ==
  /\ PostsNew(w) /\ ReservesFirst(w) /\ CancelsPosted(w)
  /\ AnswerBetween(w) /\ FillsBetween(w)
OrderAgrees(o) == SinglePoster(o) /\ RowBehind(o)

SafeInv ==
  /\ TypeOK
  /\ \A o \in Orders : OrderAgrees(o)
  /\ \A w \in Workers : RunAgrees(w)

Advances ==
  \A o \in Orders :
    /\ row[o].status \in Terminal => row'[o].status = row[o].status
    /\ row'[o].filled >= row[o].filled

Good == (\A o \in Orders : OrderAgrees(o))' /\ (\A w \in Workers : RunAgrees(w))' /\ Advances

LEMMA SafeInit == Init => SafeInv
<1> SUFFICES ASSUME Init PROVE SafeInv
    OBVIOUS
<1>1. TypeOK
  BY TypeInit
<1>2. ASSUME NEW o \in Orders PROVE OrderAgrees(o)
  BY DEF Init, OrderAgrees, SinglePoster, RowBehind, NoAnswer, Terminal
<1>3. ASSUME NEW w \in Workers PROVE RunAgrees(w)
  BY IdleRunTyped DEF Init, RunAgrees, PostsNew, ReservesFirst, CancelsPosted, AnswerBetween, FillsBetween
<1> QED BY <1>1, <1>2, <1>3 DEF SafeInv

LEMMA OneRuns ==
  ASSUME TypeOK, NEW w \in Workers, NEW r, Continue(w, r)
  PROVE  \A v \in Workers \ {w} : run'[v] = run[v]
BY DEF TypeOK

\* Steps that write neither the rows nor the exchange only have to keep what
\* the process itself knows.
LEMMA QuietStep ==
  ASSUME SafeInv, NEW w \in Workers, UNCHANGED <<exchange, row, trades>>, RunAgrees(w)',
         \A v \in Workers \ {w} : run'[v] = run[v]
  PROVE  Good
<1>1. ASSUME NEW o \in Orders PROVE OrderAgrees(o)'
  BY DEF SafeInv, OrderAgrees, SinglePoster, RowBehind
<1>2. Advances
  BY OrderFields DEF SafeInv, Advances
<1>3. ASSUME NEW v \in Workers \ {w} PROVE RunAgrees(v)'
  BY DEF SafeInv, RunAgrees, PostsNew, ReservesFirst, CancelsPosted, AnswerBetween, FillsBetween
<1> QED BY <1>1, <1>2, <1>3 DEF Good

\* A process that is at none of the steps below knows nothing.
LEMMA NothingKnown ==
  ASSUME NEW w \in Workers,
         run'[w].pc \notin {"creating", "checking", "posting", "resolving", "canceling", "persisting"}
  PROVE  RunAgrees(w)'
BY DEF RunAgrees, PostsNew, ReservesFirst, CancelsPosted, AnswerBetween, FillsBetween

\* Whoever writes an order holds it, so that nobody else knows anything of it.
LEMMA WriteStep ==
  ASSUME HandledOneByOne, SafeInv, NEW w \in Workers, Holds(w),
         \A v \in Workers \ {w} : run'[v] = run[v],
         \A p \in Orders \ {run[w].order} :
           exchange'[p] = exchange[p] /\ row'[p] = row[p] /\ trades'[p] = trades[p],
         \A p \in Orders : OrderAgrees(p)', RunAgrees(w)', Advances
  PROVE  Good
<1>1. ASSUME NEW v \in Workers \ {w} PROVE RunAgrees(v)'
  <2>1. run[v].order \in Orders /\ RunAgrees(v) /\ run'[v] = run[v]
    BY RunFields DEF SafeInv
  <2>2. CASE Holds(v)
    <3>1. run[v].order # run[w].order
      BY <2>2 DEF HandledOneByOne
    <3> QED BY <2>1, <3>1
            DEF RunAgrees, PostsNew, ReservesFirst, CancelsPosted, AnswerBetween, FillsBetween
  <2>3. CASE ~Holds(v)
    <3>1. run'[v].pc \notin {"creating", "checking", "posting", "resolving", "canceling", "persisting"}
      BY <2>1, <2>3 DEF Holds, Submits
    <3> QED BY <3>1, NothingKnown
  <2> QED BY <2>2, <2>3
<1> QED BY <1>1 DEF Good

LEMMA Continued ==
  ASSUME TypeOK, NEW w \in Workers, NEW r, Continue(w, r)
  PROVE  run'[w] = r
BY DEF TypeOK

LEMMA WentTo ==
  ASSUME TypeOK, NEW w \in Workers, NEW pc, Goto(w, pc)
  PROVE  /\ run'[w].pc = pc
         /\ run'[w].order = run[w].order
         /\ run'[w].answer = run[w].answer
         /\ run'[w].fills = run[w].fills
BY DEF TypeOK, Run

LEMMA StepSafe ==
  ASSUME HandledOneByOne, SafeInv, NEW w \in Workers, Step(w)
  PROVE  Good
<1> DEFINE o == run[w].order
           a == run[w].answer
<1>0. /\ TypeOK /\ o \in Orders /\ run[w] \in Run /\ a \in Answer
      /\ run[w].fills \subseteq 1 .. Size
      /\ OrderAgrees(o) /\ RunAgrees(w)
      /\ \A p \in Orders : OrderAgrees(p)
  BY RunFields DEF SafeInv
<1>o. \A v \in Workers \ {w} : run'[v] = run[v]
  <2>1. CASE Admit(w) \/ Find(w) \/ Create(w) \/ Check(w) \/ Refuse(w) \/ Query(w) \/ Resolve(w)
    BY <1>0, <2>1, OneRuns DEF Admit, Find, FindRow, Create, Check, Refuse, Query, Resolve
  <2>2. CASE Post(w) \/ LoseAnswer(w) \/ Cancel(w)
    BY <1>0, <2>2, OneRuns DEF Post, LoseAnswer, Cancel
  <2>3. CASE Pick(w) \/ Fetch(w) \/ Persist(w) \/ Fail(w) \/ Crash(w)
    BY <1>0, <2>3, OneRuns DEF Pick, Fetch, Persist, Fail, Crash
  <2> QED BY <2>1, <2>2, <2>3 DEF Step
<1>1. CASE Admit(w)
  BY <1>0, <1>1, <1>o, QuietStep, NothingKnown, WentTo DEF Admit
<1>2. CASE Find(w)
  <2>1. CASE Goto(w, "creating") /\ row[o].status = "NONE"
    <3>1. exchange[o].posts = 0
      BY <1>0, <2>1, OrderFields DEF OrderAgrees, RowBehind
    <3>2. RunAgrees(w)'
      BY <1>0, <1>2, <2>1, <3>1, WentTo
         DEF Find, RunAgrees, PostsNew, ReservesFirst, CancelsPosted, AnswerBetween, FillsBetween
    <3> QED BY <1>2, <3>2, <1>o, QuietStep DEF Find
  <2>2. CASE Goto(w, "idle") \/ Goto(w, "querying")
    BY <1>0, <1>2, <2>2, <1>o, QuietStep, NothingKnown, WentTo DEF Find
  <2> QED BY <1>2, <2>1, <2>2 DEF Find, FindRow
<1>3. CASE Create(w)
  <2>1. exchange[o].posts = 0 /\ exchange[o].order = NoAnswer
    BY <1>0, <1>3 DEF Create, RunAgrees, PostsNew, OrderAgrees, SinglePoster
  <2>2. /\ row'[o].status # "NONE"
        /\ row'[o].status \in Terminal => row'[o] = row[o]
        /\ row'[o].resolved => row'[o] = row[o]
        /\ row'[o].filled = 0
    BY <1>0, <1>3, <2>1, OrderFields DEF Create, TypeOK, Terminal, OrderAgrees, RowBehind, NoAnswer
  <2>3. \A p \in Orders \ {o} : row'[p] = row[p]
    BY <1>0, <1>3 DEF Create, TypeOK
  <2>4. ASSUME NEW p \in Orders PROVE OrderAgrees(p)'
    <3>1. CASE p = o
      BY <1>0, <1>3, <2>1, <2>2, <3>1
         DEF Create, OrderAgrees, SinglePoster, RowBehind, NoAnswer
    <3>2. CASE p # o
      BY <1>0, <1>3, <2>3, <3>2 DEF Create, OrderAgrees, SinglePoster, RowBehind
    <3> QED BY <3>1, <3>2
  <2>5. RunAgrees(w)'
    BY <1>0, <1>3, <2>1, <2>2, WentTo
       DEF Create, RunAgrees, PostsNew, ReservesFirst, CancelsPosted, AnswerBetween, FillsBetween
  <2>6. row[o].status \in Terminal => row'[o] = row[o]
    BY <1>0, <1>3 DEF Create, TypeOK, Terminal
  <2>7. row[o].filled = 0
    BY <1>0, <2>1, OrderFields DEF OrderAgrees, RowBehind, NoAnswer
  <2>8. Advances
    BY <1>0, <2>2, <2>3, <2>6, <2>7, OrderFields DEF Advances
  <2> QED BY <1>o, <1>3, <2>3, <2>4, <2>5, <2>8, WriteStep DEF Create, Holds, Submits
<1>4. CASE Check(w)
  <2>1. CASE row[o].resolved
    <3>1. Goto(w, "idle")
      BY <1>4, <2>1 DEF Check
    <3>2. run'[w].pc = "idle"
      BY <1>0, <3>1, WentTo
    <3> QED BY <1>4, <3>2, <1>o, QuietStep, NothingKnown DEF Check
  <2>2. CASE ~row[o].resolved
    <3>1. RunAgrees(w)'
      BY <1>0, <1>4, <2>2, WentTo
         DEF Check, RunAgrees, PostsNew, ReservesFirst, CancelsPosted, AnswerBetween, FillsBetween
    <3> QED BY <1>4, <3>1, <1>o, QuietStep DEF Check
  <2> QED BY <2>1, <2>2
<1>5. ASSUME NEW b \in Accepted, Accept(o, b), run[w].pc = "posting",
             UNCHANGED <<row, trades>>
      PROVE  /\ (\A p \in Orders : OrderAgrees(p))' /\ Advances
             /\ exchange'[o] = [posts |-> 1, order |-> b]
             /\ row'[o].filled = 0 /\ row'[o].status \notin Terminal
             /\ b.filled \in 0 .. Size
             /\ \A p \in Orders \ {o} : exchange'[p] = exchange[p]
             /\ Holds(w)
  <2>1. exchange[o].posts = 0 /\ exchange[o].order = NoAnswer
    BY <1>0, <1>5 DEF RunAgrees, PostsNew, OrderAgrees, SinglePoster
  <2>2. exchange'[o] = [posts |-> 1, order |-> b]
    BY <1>0, <1>5, <2>1 DEF TypeOK
  <2>3. \A p \in Orders \ {o} : exchange'[p] = exchange[p]
    BY <1>0, <1>5 DEF TypeOK
  <2>4. /\ row[o].filled = 0 /\ row[o].status # "NONE" /\ trades[o] = {}
        /\ row[o].status \notin Terminal
    BY <1>0, <1>5, <2>1, OrderFields
       DEF RunAgrees, ReservesFirst, OrderAgrees, RowBehind, NoAnswer, Terminal
  <2>5. b.filled \in 0 .. Size
    BY DEF Accepted
  <2>6. ASSUME NEW p \in Orders PROVE OrderAgrees(p)'
    <3>1. CASE p = o
      BY <1>5, <2>2, <2>4, <2>5, <3>1 DEF OrderAgrees, SinglePoster, RowBehind
    <3>2. CASE p # o
      BY <1>0, <1>5, <2>3, <3>2 DEF OrderAgrees, SinglePoster, RowBehind
    <3> QED BY <3>1, <3>2
  <2>7. Advances
    BY <1>0, <1>5, OrderFields DEF Advances
  <2> QED BY <1>5, <2>2, <2>3, <2>4, <2>5, <2>6, <2>7 DEF Holds, Submits
<1>6. CASE Post(w)
  <2>1. PICK b \in Accepted :
          Accept(o, b) /\ Continue(w, [run[w] EXCEPT !.pc = "resolving", !.answer = b])
    BY <1>6 DEF Post
  <2>2. run[w].pc = "posting" /\ UNCHANGED <<row, trades>>
    BY <1>6 DEF Post
  <2>3. run'[w] = [run[w] EXCEPT !.pc = "resolving", !.answer = b]
    BY <1>0, <2>1, Continued
  <2>4. run'[w].pc = "resolving" /\ run'[w].answer = b /\ run'[w].order = o
    BY <1>0, <2>3 DEF Run
  <2>5. RunAgrees(w)'
    <3>1. /\ exchange'[o] = [posts |-> 1, order |-> b]
          /\ row'[o].filled = 0 /\ row'[o].status \notin Terminal /\ b.filled \in 0 .. Size
      BY <1>5, <2>1, <2>2
    <3>2. AnswerBetween(w)'
      BY <2>4, <3>1 DEF AnswerBetween
    <3> QED BY <2>4, <3>2
            DEF RunAgrees, PostsNew, ReservesFirst, CancelsPosted, FillsBetween
  <2> QED BY <1>o, <1>5, <2>1, <2>2, <2>5, WriteStep
<1>7. CASE LoseAnswer(w)
  <2>1. PICK b \in Accepted : Accept(o, b)
    BY <1>7 DEF LoseAnswer
  <2>2. RunAgrees(w)'
    <3>1. run'[w].pc = "querying"
      BY <1>0, <1>7, WentTo DEF LoseAnswer
    <3> QED BY <3>1, NothingKnown
  <2> QED BY <1>o, <1>5, <1>7, <2>1, <2>2, WriteStep DEF LoseAnswer
<1>8. CASE Refuse(w)
  <2>1. run'[w].pc = "querying"
    BY <1>0, <1>8, WentTo DEF Refuse
  <2>2. RunAgrees(w)'
    BY <2>1, NothingKnown
  <2> QED BY <1>8, <2>2, <1>o, QuietStep DEF Refuse
<1>9. CASE Query(w)
  <2>1. run'[w] = [run[w] EXCEPT !.pc = "resolving", !.answer = exchange[o].order]
    BY <1>0, <1>9, Continued DEF Query
  <2>2. run'[w].pc = "resolving" /\ run'[w].answer = exchange[o].order /\ run'[w].order = o
    BY <1>0, <2>1 DEF Run
  <2>3. RunAgrees(w)'
    BY <1>0, <1>9, <2>2, OrderFields
       DEF Query, RunAgrees, PostsNew, ReservesFirst, CancelsPosted, AnswerBetween, FillsBetween,
           OrderAgrees, RowBehind
  <2> QED BY <1>9, <2>3, <1>o, QuietStep DEF Query
<1>10. CASE Resolve(w)
  <2>1. row'[o] = [status |-> a.status, resolved |-> TRUE, filled |-> a.filled]
    BY <1>0, <1>10 DEF Resolve, TypeOK
  <2>2. \A p \in Orders \ {o} : row'[p] = row[p]
    BY <1>0, <1>10 DEF Resolve, TypeOK
  <2>3. /\ exchange[o].posts > 0
        /\ row[o].filled =< a.filled /\ a.filled =< exchange[o].order.filled
        /\ a.status \in Terminal => exchange[o].order = a
        /\ row[o].status \in Terminal => a.status = row[o].status
    BY <1>0, <1>10 DEF Resolve, RunAgrees, AnswerBetween
  <2>4. a.status # "NONE"
    BY <1>0 DEF Answer, Statuses, Open, Terminal
  <2>5. ASSUME NEW p \in Orders PROVE OrderAgrees(p)'
    <3>1. CASE p = o
      <4>1. a = [status |-> a.status, filled |-> a.filled]
        BY <1>0 DEF Answer
      <4> QED BY <1>0, <1>10, <2>1, <2>3, <2>4, <3>1, <4>1
              DEF Resolve, OrderAgrees, SinglePoster, RowBehind
    <3>2. CASE p # o
      BY <1>0, <1>10, <2>2, <3>2 DEF Resolve, OrderAgrees, SinglePoster, RowBehind
    <3> QED BY <3>1, <3>2
  <2>6. Advances
    BY <1>0, <2>1, <2>2, <2>3, OrderFields DEF Advances
  <2>7. RunAgrees(w)'
    <3>1. exchange'[o].posts > 0
      BY <1>10, <2>3 DEF Resolve
    <3>2. run'[w].pc \in {"idle", "fetching", "canceling"} /\ run'[w].order = o
      BY <1>0, <1>10, WentTo DEF Resolve, Following
    <3> QED BY <3>1, <3>2
            DEF RunAgrees, PostsNew, ReservesFirst, CancelsPosted, AnswerBetween, FillsBetween
  <2> QED BY <1>o, <1>10, <2>2, <2>5, <2>6, <2>7, WriteStep DEF Resolve, Holds
<1>11. CASE Cancel(w)
  <2>1. /\ exchange'[o] = [posts |-> exchange[o].posts, order |-> Canceled(o)]
        /\ \A p \in Orders \ {o} : exchange'[p] = exchange[p]
    BY <1>0, <1>11 DEF Cancel, TypeOK
  <2>2. exchange[o].posts > 0
    BY <1>0, <1>11 DEF Cancel, RunAgrees, CancelsPosted
  <2>3. row[o].status \notin Terminal /\ exchange[o].order.status \notin Terminal
    BY <1>0, <1>11 DEF Cancel, OrderAgrees, RowBehind
  <2>4. ASSUME NEW p \in Orders PROVE OrderAgrees(p)'
    <3>1. CASE p = o
      BY <1>0, <1>11, <2>1, <2>2, <2>3, <3>1
         DEF Cancel, Canceled, OrderAgrees, SinglePoster, RowBehind
    <3>2. CASE p # o
      BY <1>0, <1>11, <2>1, <3>2 DEF Cancel, OrderAgrees, SinglePoster, RowBehind
    <3> QED BY <3>1, <3>2
  <2>5. run'[w] = [run[w] EXCEPT !.pc = "resolving", !.answer = Canceled(o), !.goal = "submit"]
    BY <1>0, <1>11, Continued DEF Cancel
  <2>6. run'[w].pc = "resolving" /\ run'[w].answer = Canceled(o) /\ run'[w].order = o
    BY <1>0, <2>5 DEF Run
  <2>7. row[o].filled =< exchange[o].order.filled /\ exchange[o].order.filled \in Nat
    BY <1>0, OrderFields DEF OrderAgrees, RowBehind
  <2>8. RunAgrees(w)'
    BY <1>11, <2>1, <2>2, <2>3, <2>6, <2>7
       DEF Cancel, Canceled, RunAgrees, PostsNew, ReservesFirst, CancelsPosted,
           AnswerBetween, FillsBetween
  <2>9. Advances
    BY <1>0, <1>11, OrderFields DEF Cancel, Advances
  <2> QED BY <1>o, <1>11, <2>1, <2>4, <2>8, <2>9, WriteStep DEF Cancel, Holds
<1>12. CASE Pick(w)
  <2>1. run'[w].pc \in {"idle", "picking", "querying"}
    <3>1. CASE Continue(w, IdleRun)
      BY <1>0, <3>1, IdleRunTyped, Continued
    <3>2. ASSUME NEW q \in run[w].todo,
                 Continue(w, [run[w] EXCEPT !.pc = IF killed THEN "picking" ELSE "querying",
                                            !.order = q, !.todo = run[w].todo \ {q}])
          PROVE  run'[w].pc \in {"idle", "picking", "querying"}
      <4>1. run'[w] = [run[w] EXCEPT !.pc = IF killed THEN "picking" ELSE "querying",
                                     !.order = q, !.todo = run[w].todo \ {q}]
        BY <1>0, <3>2, Continued
      <4>2. run'[w].pc = IF killed THEN "picking" ELSE "querying"
        BY <1>0, <4>1 DEF Run
      <4> QED BY <4>2
    <3> QED BY <1>12, <3>1, <3>2 DEF Pick
  <2> QED BY <1>12, <2>1, <1>o, QuietStep, NothingKnown DEF Pick
<1>13. CASE Fetch(w)
  <2>1. run'[w] = [run[w] EXCEPT !.pc = "persisting", !.fills = 1 .. exchange[o].order.filled]
    BY <1>0, <1>13, Continued DEF Fetch
  <2>2. /\ run'[w].pc = "persisting" /\ run'[w].order = o
        /\ run'[w].fills = 1 .. exchange[o].order.filled
    BY <1>0, <2>1 DEF Run
  <2>3. RunAgrees(w)'
    BY <1>0, <1>13, <2>2, OrderFields
       DEF Fetch, RunAgrees, PostsNew, ReservesFirst, CancelsPosted, AnswerBetween, FillsBetween,
           OrderAgrees, RowBehind
  <2> QED BY <1>13, <2>3, <1>o, QuietStep DEF Fetch
<1>14. CASE Persist(w)
  <2> DEFINE S == trades[o] \cup run[w].fills
  <2>1. /\ S \subseteq 1 .. exchange[o].order.filled
        /\ 1 .. row[o].filled \subseteq S
        /\ row[o].filled =< exchange[o].order.filled
    BY <1>0, <1>14 DEF Persist, RunAgrees, FillsBetween, OrderAgrees, RowBehind
  <2>2. /\ exchange[o].order.filled \in Nat /\ row[o].filled \in Nat
    BY <1>0, OrderFields
  <2>3. /\ Filled(w) \in Nat /\ row[o].filled =< Filled(w)
        /\ Filled(w) =< exchange[o].order.filled
    <3>1. Cardinality(S) \in 0 .. exchange[o].order.filled
      BY <2>1, <2>2, PartOfInterval
    <3>2. row[o].filled =< Cardinality(S)
      BY <2>1, <2>2, IntervalInside
    <3> QED BY <2>2, <3>1, <3>2 DEF Filled
  <2>4. /\ row'[o].status = row[o].status /\ row'[o].resolved = row[o].resolved
        /\ row'[o].filled \in {row[o].filled, Filled(w)}
        /\ trades'[o] = S
    BY <1>0, <1>14 DEF Persist, TypeOK
  <2>5. \A p \in Orders \ {o} : row'[p] = row[p] /\ trades'[p] = trades[p]
    BY <1>0, <1>14 DEF Persist, TypeOK
  <2>6. ASSUME NEW p \in Orders PROVE OrderAgrees(p)'
    <3>1. CASE p = o
      <4>1. row[o].status \in Terminal => row'[o].filled = row[o].filled
        BY <1>0, <2>2, <2>3, <2>4 DEF OrderAgrees, RowBehind
      <4>2. row'[o].filled =< exchange[o].order.filled
        BY <2>1, <2>3, <2>4
      <4> QED BY <1>0, <1>14, <2>1, <2>4, <3>1, <4>1, <4>2
              DEF Persist, OrderAgrees, SinglePoster, RowBehind
    <3>2. CASE p # o
      BY <1>0, <1>14, <2>5, <3>2 DEF Persist, OrderAgrees, SinglePoster, RowBehind
    <3> QED BY <3>1, <3>2
  <2>7. Advances
    BY <1>0, <2>2, <2>3, <2>4, <2>5, OrderFields DEF Advances
  <2>8. RunAgrees(w)'
    <3>1. run'[w].pc = "picking"
      BY <1>0, <1>14, WentTo DEF Persist
    <3> QED BY <3>1, NothingKnown
  <2> QED BY <1>o, <1>14, <2>5, <2>6, <2>7, <2>8, WriteStep DEF Persist, Holds
<1>15. CASE Fail(w)
  <2>1. run'[w].pc \in {"idle", "picking"}
    BY <1>0, <1>15, IdleRunTyped, Continued, WentTo DEF Fail
  <2> QED BY <1>15, <2>1, <1>o, QuietStep, NothingKnown DEF Fail
<1>16. CASE Crash(w)
  BY <1>0, <1>16, <1>o, QuietStep, NothingKnown, IdleRunTyped, Continued DEF Crash
<1> QED BY <1>1, <1>2, <1>3, <1>4, <1>6, <1>7, <1>8, <1>9, <1>10, <1>11, <1>12, <1>13,
           <1>14, <1>15, <1>16 DEF Step

LEMMA StartSafe ==
  ASSUME SafeInv, NEW w \in Workers, NEW o \in Orders,
         Call(w, o) \/ SubmitJob(w, o) \/ StartCancel(w, o) \/ Reconcile(w)
  PROVE  Good
<1>1. run'[w].pc \in {"finding", "gated", "querying", "picking"}
  <2>0. TypeOK /\ IdleRun \in Run
    BY IdleRunTyped DEF SafeInv
  <2>1. CASE Call(w, o)
    <3>1. run'[w] = [IdleRun EXCEPT !.pc = "finding", !.order = o]
      BY <2>0, <2>1, Continued DEF Call
    <3> QED BY <2>0, <3>1 DEF Run
  <2>2. CASE SubmitJob(w, o)
    <3>1. run'[w] = [IdleRun EXCEPT !.pc = "gated", !.order = o]
      BY <2>0, <2>2, Continued DEF SubmitJob
    <3> QED BY <2>0, <3>1 DEF Run
  <2>3. CASE StartCancel(w, o)
    <3>1. run'[w] = [IdleRun EXCEPT !.pc = "querying", !.order = o, !.goal = "cancel"]
      BY <2>0, <2>3, Continued DEF StartCancel
    <3> QED BY <2>0, <3>1 DEF Run
  <2>4. CASE Reconcile(w)
    <3>1. run'[w] = [IdleRun EXCEPT !.pc = "picking", !.goal = "fills", !.todo = Reconcilable]
      BY <2>0, <2>4, Continued DEF Reconcile
    <3> QED BY <2>0, <3>1 DEF Run
  <2> QED BY <2>1, <2>2, <2>3, <2>4
<1>2. UNCHANGED <<exchange, row, trades>>
  BY DEF Call, SubmitJob, StartCancel, Reconcile
<1>3. \A v \in Workers \ {w} : run'[v] = run[v]
  BY OneRuns DEF SafeInv, Call, SubmitJob, StartCancel, Reconcile
<1> QED BY <1>1, <1>2, <1>3, QuietStep, NothingKnown

LEMMA ExchangeSafe ==
  ASSUME SafeInv, NEW o \in Orders, Advance(o) \/ Expire(o)
  PROVE  Good
<1>1. /\ TypeOK /\ exchange[o].posts > 0 /\ exchange[o].order.status \notin Terminal
      /\ UNCHANGED <<row, trades, run>>
  BY DEF SafeInv, Advance, Expire
<1>2. PICK b \in Answer : SetOrder(o, b) /\ b.filled >= exchange[o].order.filled
  <2>1. CASE Expire(o)
    <3>1. Canceled(o) \in Answer /\ Canceled(o).filled >= exchange[o].order.filled
      BY <1>1, CanceledTyped, OrderFields DEF Canceled
    <3> QED BY <2>1, <3>1 DEF Expire
  <2>2. CASE Advance(o)
    <3> DEFINE n == exchange[o].order.filled + 1
               b == IF n < Size THEN [status |-> "PARTIALLY_FILLED", filled |-> n]
                    ELSE [status |-> "FILLED", filled |-> Size]
    <3>1. b \in Answer /\ b.filled >= exchange[o].order.filled
      BY <1>1, OrderFields DEF Answer, Statuses, Open, Terminal
    <3> QED BY <2>2, <3>1 DEF Advance
  <2> QED BY <2>1, <2>2
<1>3. /\ exchange'[o] = [posts |-> exchange[o].posts, order |-> b]
      /\ \A p \in Orders \ {o} : exchange'[p] = exchange[p]
  BY <1>1, <1>2 DEF TypeOK
<1>4. exchange[o].order.filled \in Nat /\ b.filled \in Nat
  BY <1>1, OrderFields DEF Answer
<1>5. ASSUME NEW p \in Orders PROVE OrderAgrees(p)'
  <2>1. CASE p = o
    <3>1. row[o].filled \in Nat
      BY <1>1, OrderFields
    <3> QED BY <1>1, <1>2, <1>3, <1>4, <2>1, <3>1
            DEF SafeInv, OrderAgrees, SinglePoster, RowBehind
  <2>2. CASE p # o
    BY <1>1, <1>3, <2>2 DEF SafeInv, OrderAgrees, SinglePoster, RowBehind
  <2> QED BY <2>1, <2>2
<1>6. ASSUME NEW w \in Workers PROVE RunAgrees(w)'
  <2>1. RunAgrees(w) /\ run'[w] = run[w] /\ run[w].order \in Orders /\ run[w].answer \in Answer
    BY <1>1, RunFields DEF SafeInv
  <2>2. CASE run[w].order # o
    BY <1>1, <1>3, <2>1, <2>2
       DEF RunAgrees, PostsNew, ReservesFirst, CancelsPosted, AnswerBetween, FillsBetween
  <2>3. CASE run[w].order = o
    <3>1. PostsNew(w)' /\ ReservesFirst(w)' /\ CancelsPosted(w)'
      BY <1>1, <1>3, <2>1, <2>3 DEF RunAgrees, PostsNew, ReservesFirst, CancelsPosted
    <3>2. AnswerBetween(w)'
      <4>1. run[w].answer.filled \in Nat
        BY <2>1 DEF Answer
      <4> QED BY <1>1, <1>2, <1>3, <1>4, <2>1, <2>3, <4>1 DEF RunAgrees, AnswerBetween
    <3>3. FillsBetween(w)'
      BY <1>1, <1>2, <1>3, <1>4, <2>1, <2>3 DEF RunAgrees, FillsBetween
    <3> QED BY <3>1, <3>2, <3>3 DEF RunAgrees
  <2> QED BY <2>2, <2>3
<1>7. Advances
  BY <1>1, OrderFields DEF Advances
<1> QED BY <1>5, <1>6, <1>7 DEF Good

LEMMA SafeStep ==
  ASSUME HandledOneByOne, SafeInv, [Next]_vars
  PROVE  SafeInv' /\ Advances
<1>1. TypeOK'
  BY TypeStep DEF SafeInv
<1>2. Good
  <2>1. CASE UNCHANGED <<exchange, row, trades, run>>
    <3>1. ASSUME NEW o \in Orders PROVE OrderAgrees(o)'
      BY <2>1 DEF SafeInv, OrderAgrees, SinglePoster, RowBehind
    <3>2. ASSUME NEW w \in Workers PROVE RunAgrees(w)'
      BY <2>1 DEF SafeInv, RunAgrees, PostsNew, ReservesFirst, CancelsPosted,
                  AnswerBetween, FillsBetween
    <3>3. Advances
      BY <2>1, OrderFields DEF SafeInv, Advances
    <3> QED BY <3>1, <3>2, <3>3 DEF Good
  <2>2. CASE Next
    BY <2>1, <2>2, StepSafe, StartSafe, ExchangeSafe DEF Next, Kill
  <2> QED BY <2>1, <2>2
<1> QED BY <1>1, <1>2 DEF Good, SafeInv

\* Neither an answer nor the stored fills take a row back, for any number of
\* processes of which one at a time is between reading an order and storing it.
THEOREM RowsOnlyAdvance ==
  Spec /\ []HandledOneByOne => RowOnlyAdvances
<1>1. Init => SafeInv
  BY SafeInit
<1>2. SafeInv /\ HandledOneByOne /\ [Next]_vars => SafeInv'
  BY SafeStep
<1>3. SafeInv /\ HandledOneByOne /\ [Next]_vars =>
        [\A o \in Orders : /\ row[o].status \in Terminal => row'[o].status = row[o].status
                           /\ row'[o].filled >= row[o].filled]_vars
  BY SafeStep DEF Advances
<1> QED BY <1>1, <1>2, <1>3, PTL DEF Spec, RowOnlyAdvances

-----------------------------------------------------------------------------
(* The mirror of an order.  Every step with an effect outside the process   *)
(* is one of OrderMirror.                                                   *)

LEMMA ViewOfAnswer ==
  ASSUME NEW r, r.status \in Statuses \cup {"NONE", "CREATED"}
  PROVE  /\ View(r).end \in Terminal \cup {"none"}
         /\ View(r) = [end |-> View(r).end, filled |-> r.filled]
         /\ r.status \in Terminal => View(r).end = r.status
         /\ View(r).end # "none" <=> r.status \in Terminal
BY DEF View, Terminal

\* The exchange executes more of an order, or ends it.
LEMMA MarketMoves ==
  ASSUME TypeOK, NEW o \in Orders, NEW n, NEW b \in Answer,
         b.filled >= exchange[o].order.filled,
         exchange' = [exchange EXCEPT ![o] = [posts |-> n, order |-> b]]
  PROVE  Mirror!Progress(o)
<1>1. b.status \in Statuses /\ b.filled \in 0 .. Size
  BY DEF Answer
<1>2. Market' = [Market EXCEPT ![o] = View(b)]
  BY DEF Market, TypeOK
<1>3. View(b).end \in Terminal \cup {"none"} /\ View(b) = [end |-> View(b).end, filled |-> b.filled]
  BY <1>1, ViewOfAnswer
<1>4. b.filled \in Market[o].filled .. Size
  BY <1>1, OrderFields DEF Market, View
<1> QED BY <1>2, <1>3, <1>4 DEF Mirror!Progress

LEMMA CreateRecords ==
  ASSUME SafeInv, NEW w \in Workers, Create(w)
  PROVE  Mirror!Record(run[w].order)
<1> DEFINE o == run[w].order
<1>0. TypeOK /\ o \in Orders /\ OrderAgrees(o) /\ RunAgrees(w) /\ UNCHANGED exchange
  BY RunFields DEF SafeInv, Create
<1>1. row[o].filled = 0
  BY <1>0, OrderFields DEF Create, RunAgrees, PostsNew, OrderAgrees, SinglePoster, RowBehind, NoAnswer
<1>2. Recorded' = Recorded \cup {o}
  BY <1>0 DEF Create, Recorded, TypeOK
<1>3. UNCHANGED <<Sent, Market>>
  BY <1>0 DEF Sent, Market
<1>4. \A p \in Orders : View(row'[p]) = View(row[p])
  BY <1>0, <1>1 DEF Create, View, TypeOK, Terminal
<1>5. UNCHANGED Shown
  BY <1>4 DEF Shown
<1> QED BY <1>2, <1>3, <1>5 DEF Mirror!Record

LEMMA AcceptSends ==
  ASSUME SafeInv, NEW w \in Workers, run[w].pc = "posting",
         NEW b \in Accepted, Accept(run[w].order, b), UNCHANGED row
  PROVE  Mirror!Send(run[w].order)
<1> DEFINE o == run[w].order
<1>0. TypeOK /\ o \in Orders /\ OrderAgrees(o) /\ RunAgrees(w)
  BY RunFields DEF SafeInv
<1>1. /\ exchange[o].posts = 0 /\ exchange[o].order.filled = 0 /\ row[o].status # "NONE"
  BY <1>0 DEF RunAgrees, PostsNew, ReservesFirst, OrderAgrees, SinglePoster, NoAnswer
<1>2. b \in Answer /\ b.filled >= 0
  BY DEF Accepted, Answer, Statuses, Open, Terminal
<1>3. exchange' = [exchange EXCEPT ![o] = [posts |-> 1, order |-> b]]
  BY <1>1
<1>4. Mirror!Progress(o)
  BY <1>0, <1>1, <1>2, <1>3, MarketMoves
<1>5. o \in Recorded \ Sent /\ Sent' = Sent \cup {o}
  BY <1>0, <1>1, <1>3 DEF Recorded, Sent, TypeOK
<1>6. UNCHANGED <<Recorded, Shown>>
  BY DEF Recorded, Shown
<1> QED BY <1>4, <1>5, <1>6 DEF Mirror!Send

LEMMA SetOrderTrades ==
  ASSUME SafeInv, NEW o \in Orders, exchange[o].posts > 0,
         exchange[o].order.status \notin Terminal,
         NEW b \in Answer, b.filled >= exchange[o].order.filled, SetOrder(o, b), UNCHANGED row
  PROVE  Mirror!Trade(o)
<1>0. TypeOK
  BY DEF SafeInv
<1>1. Mirror!Progress(o)
  BY <1>0, MarketMoves
<1>2. o \in Sent /\ Sent' = Sent
  BY <1>0 DEF Sent, TypeOK
<1>3. ~Mirror!Over(Market[o])
  BY DEF Mirror!Over, Market, View
<1>4. UNCHANGED <<Recorded, Shown>>
  BY DEF Recorded, Shown
<1> QED BY <1>1, <1>2, <1>3, <1>4 DEF Mirror!Trade

\* A row that is overwritten, with as much or more of the same order.
LEMMA WriteShows ==
  ASSUME SafeInv, SafeInv', NEW o \in Orders, UNCHANGED exchange, exchange[o].posts > 0,
         row[o].filled =< row'[o].filled,
         row[o].status \in Terminal => row'[o].status = row[o].status,
         \A p \in Orders \ {o} : row'[p] = row[p]
  PROVE  Mirror!Show(o)
<1> DEFINE r == row'[o]
<1>0. /\ TypeOK /\ OrderAgrees(o) /\ OrderAgrees(o)'
      /\ r.status \in Statuses \cup {"NONE", "CREATED"} /\ r.filled \in 0 .. Size
  BY DEF SafeInv, TypeOK, Row
<1>1. row[o].status # "NONE" /\ r.status # "NONE"
  BY <1>0 DEF OrderAgrees, RowBehind
<1>2. UNCHANGED <<Recorded, Sent, Market>>
  BY <1>1 DEF Recorded, Sent, Market
<1>3. Shown' = [Shown EXCEPT ![o] = View(r)]
  BY DEF Shown
<1>4. o \in Sent
  BY DEF Sent
<1>5. CASE r.status \in Terminal
  <2>1. exchange[o].order = [status |-> r.status, filled |-> r.filled]
    BY <1>0, <1>5 DEF OrderAgrees, RowBehind
  <2>2. Market[o] = View(r) /\ Mirror!Over(Market[o])
    BY <1>5, <2>1 DEF Market, View, Mirror!Over, Terminal
  <2> QED BY <1>2, <1>3, <1>4, <2>2 DEF Mirror!Show
<1>6. CASE r.status \notin Terminal
  <2>1. row[o].status \notin Terminal
    BY <1>6
  <2>2. ~Mirror!Over(Shown[o]) /\ View(r) = [end |-> "none", filled |-> r.filled]
    BY <1>6, <2>1 DEF Shown, View, Mirror!Over
  <2>3. r.filled =< exchange[o].order.filled
    BY <1>0 DEF OrderAgrees, RowBehind
  <2>4. r.filled \in Shown[o].filled .. Market[o].filled
    BY <1>0, <2>3, OrderFields DEF Shown, Market, View
  <2> QED BY <1>2, <1>3, <1>4, <2>2, <2>4 DEF Mirror!Show
<1> QED BY <1>5, <1>6

LEMMA ResolveShows ==
  ASSUME SafeInv, SafeInv', NEW w \in Workers, Resolve(w)
  PROVE  Mirror!Show(run[w].order)
<1> DEFINE o == run[w].order
           a == run[w].answer
<1>0. TypeOK /\ o \in Orders /\ RunAgrees(w)
  BY RunFields DEF SafeInv
<1>1. /\ exchange[o].posts > 0
      /\ row[o].filled =< a.filled
      /\ row[o].status \in Terminal => a.status = row[o].status
  BY <1>0 DEF Resolve, RunAgrees, AnswerBetween
<1>2. /\ row'[o] = [status |-> a.status, resolved |-> TRUE, filled |-> a.filled]
      /\ \A p \in Orders \ {o} : row'[p] = row[p]
      /\ UNCHANGED exchange
  BY <1>0 DEF Resolve, TypeOK
<1> QED BY <1>0, <1>1, <1>2, WriteShows

\* Fills that are new are those of an order the exchange has.
LEMMA PersistShows ==
  ASSUME HandledOneByOne, SafeInv, SafeInv', NEW w \in Workers, Persist(w)
  PROVE  UNCHANGED <<row, exchange>> \/ Mirror!Show(run[w].order)
<1> DEFINE o == run[w].order
<1>0. /\ TypeOK /\ o \in Orders /\ RunAgrees(w) /\ OrderAgrees(o)
      /\ run[w].fills \subseteq 1 .. Size /\ UNCHANGED exchange
  BY RunFields DEF SafeInv, Persist
<1>1. CASE NewFills(w) = {}
  BY <1>0, <1>1, FS_EmptySet DEF Persist
<1>2. CASE NewFills(w) # {}
  <2>1. PICK n \in run[w].fills : TRUE
    BY <1>2 DEF NewFills
  <2>2. n \in 1 .. exchange[o].order.filled
    BY <1>0, <2>1 DEF Persist, RunAgrees, FillsBetween
  <2>3. exchange[o].posts > 0
    BY <1>0, <2>2, OrderFields DEF OrderAgrees, SinglePoster, NoAnswer
  <2>4. /\ row'[o].status = row[o].status
        /\ \A p \in Orders \ {o} : row'[p] = row[p]
    BY <1>0 DEF Persist, TypeOK
  <2>5. row[o].filled =< row'[o].filled
    BY <1>0, SafeStep DEF Advances, Next, Step
  <2> QED BY <1>0, <2>3, <2>4, <2>5, WriteShows
<1> QED BY <1>1, <1>2

LEMMA ProcessMirrors ==
  ASSUME HandledOneByOne, SafeInv, SafeInv', NEW w \in Workers, Step(w)
  PROVE  UNCHANGED <<row, exchange>> \/ \E o \in Orders :
           Mirror!Record(o) \/ Mirror!Send(o) \/ Mirror!Trade(o) \/ Mirror!Show(o)
<1>0. TypeOK /\ run[w].order \in Orders /\ OrderAgrees(run[w].order) /\ RunAgrees(w)
  BY RunFields DEF SafeInv
<1>1. CASE Create(w)
  BY <1>0, <1>1, CreateRecords
<1>2. CASE Post(w) \/ LoseAnswer(w)
  <2>1. /\ run[w].pc = "posting" /\ UNCHANGED row
        /\ \E b \in Accepted : Accept(run[w].order, b)
    BY <1>2 DEF Post, LoseAnswer
  <2> QED BY <1>0, <2>1, AcceptSends
<1>3. CASE Cancel(w)
  <2>1. exchange[run[w].order].posts > 0
    BY <1>0, <1>3 DEF Cancel, RunAgrees, CancelsPosted
  <2>2. /\ Canceled(run[w].order) \in Answer
        /\ Canceled(run[w].order).filled >= exchange[run[w].order].order.filled
    BY <1>0, CanceledTyped, OrderFields DEF Canceled
  <2> QED BY <1>0, <1>3, <2>1, <2>2, SetOrderTrades DEF Cancel
<1>4. CASE Resolve(w)
  BY <1>0, <1>4, ResolveShows
<1>5. CASE Persist(w)
  BY <1>0, <1>5, PersistShows
<1>6. CASE \/ Admit(w) \/ Find(w) \/ Check(w) \/ Refuse(w) \/ Query(w)
           \/ Pick(w) \/ Fetch(w) \/ Fail(w) \/ Crash(w)
  BY <1>6 DEF Admit, Find, Check, Refuse, Query, Pick, Fetch, Fail, Crash
<1> QED BY <1>1, <1>2, <1>3, <1>4, <1>5, <1>6 DEF Step

LEMMA ExchangeMirrors ==
  ASSUME SafeInv, NEW o \in Orders, Advance(o) \/ Expire(o)
  PROVE  Mirror!Trade(o)
<1>0. /\ TypeOK /\ exchange[o].posts > 0 /\ exchange[o].order.status \notin Terminal
      /\ UNCHANGED row
  BY DEF SafeInv, Advance, Expire
<1>1. CASE Expire(o)
  <2>1. Canceled(o) \in Answer /\ Canceled(o).filled >= exchange[o].order.filled
    BY <1>0, CanceledTyped, OrderFields DEF Canceled
  <2> QED BY <1>0, <1>1, <2>1, SetOrderTrades DEF Expire
<1>2. CASE Advance(o)
  <2> DEFINE n == exchange[o].order.filled + 1
             b == IF n < Size THEN [status |-> "PARTIALLY_FILLED", filled |-> n]
                  ELSE [status |-> "FILLED", filled |-> Size]
  <2>1. b \in Answer /\ b.filled >= exchange[o].order.filled
    BY <1>0, OrderFields DEF Answer, Statuses, Open, Terminal
  <2>2. SetOrder(o, b)
    BY <1>2 DEF Advance
  <2> QED BY <1>0, <2>1, <2>2, SetOrderTrades
<1> QED BY <1>1, <1>2

\* Under the same condition the engine and its jobs implement OrderMirror: an
\* order is recorded before it is sent, sent once, and its row never runs ahead
\* of the exchange, never falls back, and shows an end only with all of it.
THEOREM EngineImplementsMirror ==
  Spec /\ []HandledOneByOne => ImplementsMirror
<1>1. Init => Mirror!MirrorInit
  BY DEF Init, NoAnswer, Recorded, Sent, Market, Shown, View, Terminal,
         Mirror!MirrorInit, Mirror!Untouched
<1>2. SafeInv /\ SafeInv' /\ HandledOneByOne /\ [Next]_vars => [Mirror!MirrorNext]_Mirror!mirrorVars
  <2> SUFFICES ASSUME SafeInv, SafeInv', HandledOneByOne, [Next]_vars
               PROVE  Mirror!MirrorNext \/ UNCHANGED Mirror!mirrorVars
      OBVIOUS
  <2>1. CASE UNCHANGED <<row, exchange>>
    BY <2>1 DEF Mirror!mirrorVars, Recorded, Sent, Market, Shown
  <2>2. CASE \E o \in Orders :
               Mirror!Record(o) \/ Mirror!Send(o) \/ Mirror!Trade(o) \/ Mirror!Show(o)
    BY <2>2 DEF Mirror!MirrorNext
  <2>3. ASSUME NEW w \in Workers, NEW o \in Orders,
               Call(w, o) \/ SubmitJob(w, o) \/ StartCancel(w, o) \/ Reconcile(w)
        PROVE  UNCHANGED <<row, exchange>>
    BY <2>3 DEF Call, SubmitJob, StartCancel, Reconcile
  <2>4. CASE Kill
    BY <2>1, <2>4 DEF Kill
  <2> QED BY <2>1, <2>2, <2>3, <2>4, ProcessMirrors, ExchangeMirrors DEF Next
<1>3. Init => SafeInv
  BY SafeInit
<1>4. SafeInv /\ HandledOneByOne /\ [Next]_vars => SafeInv'
  BY SafeStep
<1> QED BY <1>1, <1>2, <1>3, <1>4, PTL DEF Spec, ImplementsMirror, Mirror!MirrorSpec

-----------------------------------------------------------------------------
(* Any number of processes, while one submission of an order at a time is   *)
(* between its look and the answer.  The exchange only moves on, so that    *)
(* whatever a process has read of it, however long ago, is not ahead of it. *)

RowTrue(o) ==
  /\ exchange[o].posts > 0 => row[o].status # "NONE"
  /\ row[o].resolved => exchange[o].posts > 0
  /\ row[o].filled =< exchange[o].order.filled
  /\ row[o].status \in Terminal => exchange[o].order.status = row[o].status
  /\ trades[o] \subseteq 1 .. exchange[o].order.filled
OrderTrue(o) == SinglePoster(o) /\ RowTrue(o)

AnswerTrue(w) ==
  run[w].pc = "resolving" =>
    /\ exchange[run[w].order].posts > 0
    /\ run[w].answer.filled =< exchange[run[w].order].order.filled
    /\ run[w].answer.status \in Terminal =>
         exchange[run[w].order].order.status = run[w].answer.status
FillsTrue(w) ==
  run[w].pc = "persisting" => run[w].fills \subseteq 1 .. exchange[run[w].order].order.filled
RunTrue(w) == PostsNew(w) /\ ReservesFirst(w) /\ CancelsPosted(w) /\ AnswerTrue(w) /\ FillsTrue(w)

FollowInv ==
  /\ TypeOK
  /\ \A o \in Orders : OrderTrue(o)
  /\ \A w \in Workers : RunTrue(w)

Follows == (\A o \in Orders : OrderTrue(o))' /\ (\A w \in Workers : RunTrue(w))'

\* What the others know survives every step that takes nothing back and posts
\* nothing that they are about to post.
MovesOn(o) ==
  /\ exchange'[o].posts >= exchange[o].posts
  /\ exchange'[o].order.filled >= exchange[o].order.filled
  /\ exchange[o].order.status \in Terminal => exchange'[o].order.status = exchange[o].order.status
  /\ row[o].status # "NONE" => row'[o].status # "NONE"

LEMMA OthersStillKnow ==
  ASSUME FollowInv, TypeOK', NEW v \in Workers, run'[v] = run[v], MovesOn(run[v].order),
         Submits(v) => exchange'[run[v].order].posts = exchange[run[v].order].posts
  PROVE  RunTrue(v)'
<1> DEFINE o == run[v].order
<1>0. /\ TypeOK /\ o \in Orders /\ run[v].answer \in Answer /\ run[v].fills \subseteq 1 .. Size
      /\ RunTrue(v)
  BY RunFields DEF FollowInv
<1>1. /\ exchange[o].order.filled \in Nat /\ exchange'[o].order.filled \in Nat
      /\ exchange[o].posts \in Nat /\ exchange'[o].posts \in Nat
      /\ run[v].answer.filled \in Nat
  BY <1>0 DEF TypeOK, Exchange, Answer
<1>2. PostsNew(v)' /\ ReservesFirst(v)' /\ CancelsPosted(v)'
  BY <1>0, <1>1 DEF RunTrue, PostsNew, ReservesFirst, CancelsPosted, Submits, MovesOn
<1>3. AnswerTrue(v)'
  BY <1>0, <1>1 DEF RunTrue, AnswerTrue, MovesOn
<1>4. FillsTrue(v)'
  BY <1>0, <1>1 DEF RunTrue, FillsTrue, MovesOn
<1> QED BY <1>2, <1>3, <1>4 DEF RunTrue

\* A process that only reads, or forgets.
LEMMA ReadFollows ==
  ASSUME FollowInv, TypeOK', NEW w \in Workers, UNCHANGED <<exchange, row, trades>>,
         \A v \in Workers \ {w} : run'[v] = run[v],
         RunTrue(w)'
  PROVE  Follows
<1>1. ASSUME NEW o \in Orders PROVE OrderTrue(o)'
  BY DEF FollowInv, OrderTrue, SinglePoster, RowTrue
<1>2. ASSUME NEW o \in Orders PROVE MovesOn(o)
  BY OrderFields DEF FollowInv, MovesOn
<1>3. ASSUME NEW v \in Workers \ {w} PROVE RunTrue(v)'
  BY <1>2, <1>3, RunFields, OthersStillKnow DEF FollowInv
<1> QED BY <1>1, <1>3 DEF Follows

\* A process, or the exchange, that changes one order.
LEMMA WriteFollows ==
  ASSUME FollowInv, TypeOK', NEW o \in Orders, OrderTrue(o)', MovesOn(o),
         \A p \in Orders \ {o} :
           exchange'[p] = exchange[p] /\ row'[p] = row[p] /\ trades'[p] = trades[p],
         \A v \in Workers :
           \/ RunTrue(v)'
           \/ run'[v] = run[v] /\ (Submits(v) /\ run[v].order = o => exchange'[o].posts = exchange[o].posts)
  PROVE  Follows
<1>1. ASSUME NEW p \in Orders PROVE OrderTrue(p)'
  <2>1. CASE p = o
    BY <2>1
  <2>2. CASE p # o
    BY <2>2 DEF FollowInv, OrderTrue, SinglePoster, RowTrue
  <2> QED BY <2>1, <2>2
<1>2. ASSUME NEW p \in Orders PROVE MovesOn(p)
  BY OrderFields DEF FollowInv, MovesOn
<1>3. ASSUME NEW v \in Workers PROVE RunTrue(v)'
  <2>1. CASE run'[v] = run[v] /\ (Submits(v) /\ run[v].order = o => exchange'[o].posts = exchange[o].posts)
    <3>1. run[v].order \in Orders
      BY RunFields DEF FollowInv
    <3>2. Submits(v) => exchange'[run[v].order].posts = exchange[run[v].order].posts
      BY <2>1, <3>1
    <3> QED BY <1>2, <2>1, <3>1, <3>2, OthersStillKnow
  <2> QED BY <2>1
<1> QED BY <1>1, <1>3 DEF Follows

LEMMA KnowsNothing ==
  ASSUME NEW w \in Workers,
         run'[w].pc \notin {"creating", "checking", "posting", "resolving", "canceling", "persisting"}
  PROVE  RunTrue(w)'
BY DEF RunTrue, PostsNew, ReservesFirst, CancelsPosted, AnswerTrue, FillsTrue

\* Steps of a process that write nothing.
LEMMA QuietFollows ==
  ASSUME FollowInv, TypeOK', NEW w \in Workers,
         \/ Admit(w) \/ Find(w) \/ Check(w) \/ Refuse(w) \/ Query(w)
         \/ Pick(w) \/ Fetch(w) \/ Fail(w) \/ Crash(w)
  PROVE  Follows
<1> DEFINE o == run[w].order
<1>0. /\ TypeOK /\ o \in Orders /\ run[w] \in Run /\ run[w].answer \in Answer
      /\ OrderTrue(o) /\ RunTrue(w)
  BY RunFields DEF FollowInv
<1>1. UNCHANGED <<exchange, row, trades>> /\ \A v \in Workers \ {w} : run'[v] = run[v]
  BY <1>0, OneRuns DEF Admit, Find, FindRow, Check, Refuse, Query, Pick, Fetch, Fail, Crash
<1> SUFFICES RunTrue(w)'
    BY <1>1, ReadFollows
<1>2. CASE Admit(w)
  BY <1>0, <1>2, KnowsNothing, WentTo DEF Admit
<1>3. CASE Find(w)
  <2>1. CASE Goto(w, "creating") /\ row[o].status = "NONE"
    <3>1. exchange[o].posts = 0
      BY <1>0, <2>1, OrderFields DEF OrderTrue, RowTrue
    <3> QED BY <1>0, <1>1, <2>1, <3>1, WentTo
            DEF RunTrue, PostsNew, ReservesFirst, CancelsPosted, AnswerTrue, FillsTrue
  <2>2. CASE Goto(w, "idle") \/ Goto(w, "querying")
    BY <1>0, <2>2, KnowsNothing, WentTo
  <2> QED BY <1>3, <2>1, <2>2 DEF Find, FindRow
<1>4. CASE Check(w)
  <2>1. CASE Goto(w, "idle")
    <3>1. run'[w].pc = "idle"
      BY <1>0, <2>1, WentTo
    <3> QED BY <3>1, KnowsNothing
  <2>2. CASE Goto(w, "posting")
    BY <1>0, <1>1, <1>4, <2>2, WentTo
       DEF Check, RunTrue, PostsNew, ReservesFirst, CancelsPosted, AnswerTrue, FillsTrue
  <2> QED BY <1>4, <2>1, <2>2 DEF Check
<1>5. CASE Refuse(w)
  <2>1. run'[w].pc = "querying"
    BY <1>0, <1>5, WentTo DEF Refuse
  <2> QED BY <2>1, KnowsNothing
<1>6. CASE Query(w)
  <2>1. run'[w] = [run[w] EXCEPT !.pc = "resolving", !.answer = exchange[o].order]
    BY <1>0, <1>6, Continued DEF Query
  <2>2. run'[w].pc = "resolving" /\ run'[w].answer = exchange[o].order /\ run'[w].order = o
    BY <1>0, <2>1 DEF Run
  <2>3. exchange[o].posts > 0
    BY <1>6 DEF Query
  <2> QED BY <1>0, <1>1, <2>2, <2>3, OrderFields
          DEF RunTrue, PostsNew, ReservesFirst, CancelsPosted, AnswerTrue, FillsTrue
<1>7. CASE Pick(w)
  <2>1. CASE Continue(w, IdleRun)
    BY <1>0, <2>1, IdleRunTyped, Continued, KnowsNothing
  <2>2. ASSUME NEW q \in run[w].todo,
               Continue(w, [run[w] EXCEPT !.pc = IF killed THEN "picking" ELSE "querying",
                                          !.order = q, !.todo = run[w].todo \ {q}])
        PROVE  RunTrue(w)'
    <3>1. run'[w] = [run[w] EXCEPT !.pc = IF killed THEN "picking" ELSE "querying",
                                   !.order = q, !.todo = run[w].todo \ {q}]
      BY <1>0, <2>2, Continued
    <3>2. run'[w].pc = IF killed THEN "picking" ELSE "querying"
      BY <1>0, <3>1 DEF Run
    <3> QED BY <3>2, KnowsNothing
  <2> QED BY <1>7, <2>1, <2>2 DEF Pick
<1>8. CASE Fetch(w)
  <2>1. run'[w] = [run[w] EXCEPT !.pc = "persisting", !.fills = 1 .. exchange[o].order.filled]
    BY <1>0, <1>8, Continued DEF Fetch
  <2>2. /\ run'[w].pc = "persisting" /\ run'[w].order = o
        /\ run'[w].fills = 1 .. exchange[o].order.filled
    BY <1>0, <2>1 DEF Run
  <2> QED BY <1>0, <1>1, <2>2
          DEF RunTrue, PostsNew, ReservesFirst, CancelsPosted, AnswerTrue, FillsTrue
<1>9. CASE Fail(w)
  BY <1>0, <1>9, KnowsNothing, IdleRunTyped, Continued, WentTo DEF Fail
<1>10. CASE Crash(w)
  BY <1>0, <1>10, KnowsNothing, IdleRunTyped, Continued DEF Crash
<1> QED BY <1>2, <1>3, <1>4, <1>5, <1>6, <1>7, <1>8, <1>9, <1>10

LEMMA StartFollows ==
  ASSUME FollowInv, TypeOK', NEW w \in Workers, NEW o \in Orders,
         Call(w, o) \/ SubmitJob(w, o) \/ StartCancel(w, o) \/ Reconcile(w)
  PROVE  Follows
<1>0. TypeOK /\ IdleRun \in Run
  BY IdleRunTyped DEF FollowInv
<1>1. UNCHANGED <<exchange, row, trades>> /\ \A v \in Workers \ {w} : run'[v] = run[v]
  BY <1>0, OneRuns DEF Call, SubmitJob, StartCancel, Reconcile
<1>2. PICK pc \in {"finding", "gated", "querying", "picking"},
           goal \in {"submit", "cancel", "fills"}, todo \in SUBSET Orders, p \in Orders :
        Continue(w, [IdleRun EXCEPT !.pc = pc, !.order = p, !.goal = goal, !.todo = todo])
  <2>1. IdleRun.goal = "submit" /\ IdleRun.todo \in SUBSET Orders /\ IdleRun.order \in Orders
        /\ Reconcilable \in SUBSET Orders
    BY IdleRunTyped DEF IdleRun, Reconcilable
  <2>2. CASE Call(w, o)
    <3>1. [IdleRun EXCEPT !.pc = "finding", !.order = o] =
            [IdleRun EXCEPT !.pc = "finding", !.order = o, !.goal = "submit", !.todo = IdleRun.todo]
      BY <1>0, <2>1 DEF Run
    <3> QED BY <2>1, <2>2, <3>1 DEF Call
  <2>3. CASE SubmitJob(w, o)
    <3>1. [IdleRun EXCEPT !.pc = "gated", !.order = o] =
            [IdleRun EXCEPT !.pc = "gated", !.order = o, !.goal = "submit", !.todo = IdleRun.todo]
      BY <1>0, <2>1 DEF Run
    <3> QED BY <2>1, <2>3, <3>1 DEF SubmitJob
  <2>4. CASE StartCancel(w, o)
    <3>1. [IdleRun EXCEPT !.pc = "querying", !.order = o, !.goal = "cancel"] =
            [IdleRun EXCEPT !.pc = "querying", !.order = o, !.goal = "cancel", !.todo = IdleRun.todo]
      BY <1>0, <2>1 DEF Run
    <3> QED BY <2>1, <2>4, <3>1 DEF StartCancel
  <2>5. CASE Reconcile(w)
    <3>1. [IdleRun EXCEPT !.pc = "picking", !.goal = "fills", !.todo = Reconcilable] =
            [IdleRun EXCEPT !.pc = "picking", !.order = IdleRun.order, !.goal = "fills",
                            !.todo = Reconcilable]
      BY <1>0, <2>1 DEF Run
    <3> QED BY <2>1, <2>5, <3>1 DEF Reconcile
  <2> QED BY <2>2, <2>3, <2>4, <2>5
<1>3. run'[w].pc = pc
  <2>1. run'[w] = [IdleRun EXCEPT !.pc = pc, !.order = p, !.goal = goal, !.todo = todo]
    BY <1>0, <1>2, Continued
  <2> QED BY <1>0, <2>1 DEF Run
<1> QED BY <1>1, <1>2, <1>3, KnowsNothing, ReadFollows

LEMMA ExchangeFollows ==
  ASSUME FollowInv, TypeOK', NEW o \in Orders, Advance(o) \/ Expire(o)
  PROVE  Follows
<1>1. /\ TypeOK /\ exchange[o].posts > 0 /\ exchange[o].order.status \notin Terminal
      /\ UNCHANGED <<row, trades, run>> /\ OrderTrue(o)
  BY DEF FollowInv, Advance, Expire
<1>2. PICK b \in Answer : SetOrder(o, b) /\ b.filled >= exchange[o].order.filled
  <2>1. CASE Expire(o)
    <3>1. Canceled(o) \in Answer /\ Canceled(o).filled >= exchange[o].order.filled
      BY <1>1, CanceledTyped, OrderFields DEF Canceled
    <3> QED BY <2>1, <3>1 DEF Expire
  <2>2. CASE Advance(o)
    <3> DEFINE n == exchange[o].order.filled + 1
               b == IF n < Size THEN [status |-> "PARTIALLY_FILLED", filled |-> n]
                    ELSE [status |-> "FILLED", filled |-> Size]
    <3>1. b \in Answer /\ b.filled >= exchange[o].order.filled
      BY <1>1, OrderFields DEF Answer, Statuses, Open, Terminal
    <3> QED BY <2>2, <3>1 DEF Advance
  <2> QED BY <2>1, <2>2
<1>3. /\ exchange'[o] = [posts |-> exchange[o].posts, order |-> b]
      /\ \A p \in Orders \ {o} : exchange'[p] = exchange[p]
  BY <1>1, <1>2 DEF TypeOK
<1>4. /\ exchange[o].order.filled \in Nat /\ b.filled \in Nat /\ row[o].filled \in Nat
      /\ exchange[o].posts \in Nat
  BY <1>1, OrderFields DEF Answer
<1>5. MovesOn(o)
  BY <1>1, <1>2, <1>3, <1>4 DEF MovesOn
<1>6. OrderTrue(o)'
  BY <1>1, <1>2, <1>3, <1>4 DEF OrderTrue, SinglePoster, RowTrue
<1> QED BY <1>1, <1>3, <1>5, <1>6, WriteFollows

LEMMA CreateFollows ==
  ASSUME FollowInv, TypeOK', NEW w \in Workers, Create(w)
  PROVE  Follows
<1>o. PICK o \in Orders : run[w].order = o
  BY RunFields DEF FollowInv
<1>0. /\ TypeOK /\ run[w].order = o /\ run[w] \in Run /\ OrderTrue(o) /\ RunTrue(w)
      /\ UNCHANGED <<exchange, trades>> /\ Goto(w, "checking")
  BY <1>o, RunFields DEF FollowInv, Create
<1>1. exchange[o].posts = 0 /\ exchange[o].order = NoAnswer /\ row[o].filled = 0
  BY <1>0, OrderFields
     DEF Create, RunTrue, PostsNew, OrderTrue, SinglePoster, RowTrue, NoAnswer
<1>2. /\ row'[o].status # "NONE" /\ row'[o].filled = 0
      /\ row'[o].status \in Terminal \/ row'[o].resolved => row'[o] = row[o]
      /\ \A p \in Orders \ {o} : row'[p] = row[p]
  BY <1>0, <1>1 DEF Create, TypeOK, Terminal
<1>3. OrderTrue(o)'
  BY <1>0, <1>1, <1>2 DEF OrderTrue, SinglePoster, RowTrue, NoAnswer
<1>4. MovesOn(o)
  BY <1>0, <1>1, <1>2 DEF MovesOn, NoAnswer
<1>5. RunTrue(w)'
  BY <1>0, <1>1, <1>2, WentTo
     DEF RunTrue, PostsNew, ReservesFirst, CancelsPosted, AnswerTrue, FillsTrue
<1>6. \A v \in Workers \ {w} : run'[v] = run[v]
  BY <1>0, OneRuns
<1> QED BY <1>0, <1>2, <1>3, <1>4, <1>5, <1>6, WriteFollows

\* Nobody else is about to post the order: that is all the assumption is for.
LEMMA PostFollows ==
  ASSUME FollowInv, TypeOK', SubmitsOneByOne, NEW w \in Workers, Post(w) \/ LoseAnswer(w)
  PROVE  Follows
<1>o. PICK o \in Orders : run[w].order = o
  BY RunFields DEF FollowInv
<1>0. /\ TypeOK /\ run[w].order = o /\ run[w] \in Run /\ OrderTrue(o) /\ RunTrue(w)
      /\ run[w].pc = "posting" /\ UNCHANGED <<row, trades>>
  BY <1>o, RunFields DEF FollowInv, Post, LoseAnswer
<1>1. PICK b \in Accepted :
        /\ Accept(o, b)
        /\ \/ Continue(w, [run[w] EXCEPT !.pc = "resolving", !.answer = b])
           \/ Goto(w, "querying")
  BY <1>o DEF Post, LoseAnswer
<1>2. /\ exchange[o].posts = 0 /\ exchange[o].order = NoAnswer /\ row[o].status # "NONE"
      /\ row[o].filled = 0 /\ row[o].status \notin Terminal /\ trades[o] = {}
  BY <1>0, OrderFields
     DEF RunTrue, PostsNew, ReservesFirst, OrderTrue, SinglePoster, RowTrue, NoAnswer, Terminal
<1>3. /\ exchange'[o] = [posts |-> 1, order |-> b]
      /\ \A p \in Orders \ {o} : exchange'[p] = exchange[p]
  BY <1>0, <1>1, <1>2 DEF TypeOK
<1>4. b.filled \in 0 .. Size
  BY DEF Accepted
<1>5. OrderTrue(o)'
  BY <1>0, <1>2, <1>3, <1>4 DEF OrderTrue, SinglePoster, RowTrue
<1>6. MovesOn(o)
  BY <1>0, <1>2, <1>3, <1>4 DEF MovesOn, NoAnswer, Terminal
<1>7. RunTrue(w)'
  <2>1. CASE Continue(w, [run[w] EXCEPT !.pc = "resolving", !.answer = b])
    <3>1. run'[w] = [run[w] EXCEPT !.pc = "resolving", !.answer = b]
      BY <1>0, <2>1, Continued
    <3>2. run'[w].pc = "resolving" /\ run'[w].answer = b /\ run'[w].order = o
      BY <1>0, <3>1 DEF Run
    <3> QED BY <1>3, <1>4, <3>2
            DEF RunTrue, PostsNew, ReservesFirst, CancelsPosted, AnswerTrue, FillsTrue
  <2>2. CASE Goto(w, "querying")
    <3>1. run'[w].pc = "querying"
      BY <1>0, <2>2, WentTo
    <3> QED BY <3>1, KnowsNothing
  <2> QED BY <1>1, <2>1, <2>2
<1>8. ASSUME NEW v \in Workers \ {w}
      PROVE  run'[v] = run[v] /\ ~(Submits(v) /\ run[v].order = o)
  <2>1. run'[v] = run[v]
    BY <1>0, <1>1 DEF TypeOK
  <2> QED BY <1>0, <2>1 DEF SubmitsOneByOne, Submits
<1> QED BY <1>0, <1>3, <1>5, <1>6, <1>7, <1>8, WriteFollows

LEMMA ResolveFollows ==
  ASSUME FollowInv, TypeOK', NEW w \in Workers, Resolve(w)
  PROVE  Follows
<1> DEFINE a == run[w].answer
<1>o. PICK o \in Orders : run[w].order = o
  BY RunFields DEF FollowInv
<1>0. /\ TypeOK /\ run[w].order = o /\ run[w] \in Run /\ a \in Answer /\ OrderTrue(o) /\ RunTrue(w)
      /\ run[w].pc = "resolving" /\ UNCHANGED <<exchange, trades>>
  BY <1>o, RunFields DEF FollowInv, Resolve
<1>1. /\ row'[o] = [status |-> a.status, resolved |-> TRUE, filled |-> a.filled]
      /\ \A p \in Orders \ {o} : row'[p] = row[p]
  BY <1>0 DEF Resolve, TypeOK
<1>2. a.status # "NONE"
  BY <1>0 DEF Answer, Statuses, Open, Terminal
<1>3. /\ exchange[o].posts > 0 /\ a.filled =< exchange[o].order.filled
      /\ a.status \in Terminal => exchange[o].order.status = a.status
  BY <1>0 DEF RunTrue, AnswerTrue
<1>4. OrderTrue(o)'
  BY <1>0, <1>1, <1>2, <1>3 DEF OrderTrue, SinglePoster, RowTrue
<1>5. MovesOn(o)
  BY <1>0, <1>1, <1>2, OrderFields DEF MovesOn
<1>6. RunTrue(w)'
  <2>1. run'[w].pc \in {"idle", "fetching", "canceling"} /\ run'[w].order = o
    BY <1>0, WentTo DEF Resolve, Following
  <2> QED BY <1>0, <1>3, <2>1
          DEF RunTrue, PostsNew, ReservesFirst, CancelsPosted, AnswerTrue, FillsTrue
<1>7. \A v \in Workers \ {w} : run'[v] = run[v]
  BY <1>0, OneRuns DEF Resolve
<1> QED BY <1>0, <1>1, <1>4, <1>5, <1>6, <1>7, WriteFollows

LEMMA CancelFollows ==
  ASSUME FollowInv, TypeOK', NEW w \in Workers, Cancel(w)
  PROVE  Follows
<1>o. PICK o \in Orders : run[w].order = o
  BY RunFields DEF FollowInv
<1>0. /\ TypeOK /\ run[w].order = o /\ run[w] \in Run /\ OrderTrue(o) /\ RunTrue(w)
      /\ exchange[o].posts > 0 /\ exchange[o].order.status \notin Terminal
      /\ UNCHANGED <<row, trades>>
  BY <1>o, RunFields DEF FollowInv, Cancel, RunTrue, CancelsPosted
<1>1. /\ exchange'[o] = [posts |-> exchange[o].posts, order |-> Canceled(o)]
      /\ \A p \in Orders \ {o} : exchange'[p] = exchange[p]
  BY <1>0 DEF Cancel, TypeOK
<1>2. /\ exchange[o].order.filled \in Nat /\ row[o].filled \in Nat /\ exchange[o].posts \in Nat
      /\ row[o].status \notin Terminal
  BY <1>0, OrderFields DEF OrderTrue, RowTrue
<1>3. OrderTrue(o)'
  BY <1>0, <1>1, <1>2 DEF OrderTrue, SinglePoster, RowTrue, Canceled
<1>4. MovesOn(o)
  BY <1>0, <1>1, <1>2 DEF MovesOn, Canceled
<1>5. RunTrue(w)'
  <2>1. run'[w] = [run[w] EXCEPT !.pc = "resolving", !.answer = Canceled(o), !.goal = "submit"]
    BY <1>0, Continued DEF Cancel
  <2>2. run'[w].pc = "resolving" /\ run'[w].answer = Canceled(o) /\ run'[w].order = o
    BY <1>0, <2>1 DEF Run
  <2> QED BY <1>0, <1>1, <1>2, <2>2
          DEF RunTrue, PostsNew, ReservesFirst, CancelsPosted, AnswerTrue, FillsTrue, Canceled
<1>6. \A v \in Workers \ {w} : run'[v] = run[v]
  BY <1>0, OneRuns DEF Cancel
<1> QED BY <1>0, <1>1, <1>3, <1>4, <1>5, <1>6, WriteFollows

LEMMA PersistFollows ==
  ASSUME FollowInv, TypeOK', NEW w \in Workers, Persist(w)
  PROVE  Follows
<1>o. PICK o \in Orders : run[w].order = o
  BY RunFields DEF FollowInv
<1> DEFINE S == trades[o] \cup run[w].fills
<1>0. /\ TypeOK /\ run[w].order = o /\ run[w] \in Run /\ OrderTrue(o) /\ RunTrue(w)
      /\ run[w].pc = "persisting" /\ UNCHANGED exchange
  BY <1>o, RunFields DEF FollowInv, Persist
<1>1. /\ S \subseteq 1 .. exchange[o].order.filled /\ exchange[o].order.filled \in Nat
      /\ row[o].filled =< exchange[o].order.filled /\ row[o].filled \in Nat
  BY <1>0, OrderFields DEF RunTrue, FillsTrue, OrderTrue, RowTrue
<1>2. Filled(w) \in 0 .. exchange[o].order.filled
  <2> HIDE DEF S
  <2>1. Cardinality(S) \in 0 .. exchange[o].order.filled
    BY <1>1, PartOfInterval
  <2> QED BY <1>0, <2>1 DEF Filled, S
<1>3. /\ row'[o].status = row[o].status /\ row'[o].resolved = row[o].resolved
      /\ row'[o].filled \in {row[o].filled, Filled(w)}
      /\ trades'[o] = S
  BY <1>0 DEF Persist, TypeOK
<1>4. \A p \in Orders \ {o} : row'[p] = row[p] /\ trades'[p] = trades[p]
  BY <1>0 DEF Persist, TypeOK
<1>5. OrderTrue(o)'
  BY <1>0, <1>1, <1>2, <1>3 DEF OrderTrue, SinglePoster, RowTrue
<1>6. MovesOn(o)
  BY <1>0, <1>3, OrderFields DEF MovesOn
<1>7. RunTrue(w)'
  <2>1. run'[w].pc = "picking"
    BY <1>0, WentTo DEF Persist
  <2> QED BY <2>1, KnowsNothing
<1>8. \A v \in Workers \ {w} : run'[v] = run[v]
  BY <1>0, OneRuns DEF Persist
<1> QED BY <1>0, <1>4, <1>5, <1>6, <1>7, <1>8, WriteFollows

LEMMA FollowStep == FollowInv /\ SubmitsOneByOne /\ [Next]_vars => FollowInv'
<1> SUFFICES ASSUME FollowInv, SubmitsOneByOne, [Next]_vars PROVE FollowInv'
    OBVIOUS
<1>1. TypeOK'
  BY TypeStep DEF FollowInv
<1>2. Follows
  <2>1. CASE UNCHANGED <<exchange, row, trades, run>>
    <3>1. ASSUME NEW o \in Orders PROVE OrderTrue(o)'
      BY <2>1 DEF FollowInv, OrderTrue, SinglePoster, RowTrue
    <3>2. ASSUME NEW w \in Workers PROVE RunTrue(w)'
      BY <2>1 DEF FollowInv, RunTrue, PostsNew, ReservesFirst, CancelsPosted, AnswerTrue, FillsTrue
    <3> QED BY <3>1, <3>2 DEF Follows
  <2>2. ASSUME NEW w \in Workers, Step(w) PROVE Follows
    BY <1>1, <2>2, QuietFollows, CreateFollows, PostFollows, ResolveFollows, CancelFollows,
       PersistFollows DEF Step
  <2>3. CASE Next
    BY <1>1, <2>1, <2>2, <2>3, StartFollows, ExchangeFollows DEF Next, Kill
  <2> QED BY <2>1, <2>3
<1> QED BY <1>1, <1>2 DEF FollowInv, Follows

LEMMA FollowInit == Init => FollowInv
<1> SUFFICES ASSUME Init PROVE FollowInv
    OBVIOUS
<1>1. ASSUME NEW o \in Orders PROVE OrderTrue(o)
  BY DEF Init, OrderTrue, SinglePoster, RowTrue, NoAnswer, Terminal
<1>2. ASSUME NEW w \in Workers PROVE RunTrue(w)
  BY IdleRunTyped DEF Init, RunTrue, PostsNew, ReservesFirst, CancelsPosted, AnswerTrue, FillsTrue
<1> QED BY <1>1, <1>2, TypeInit DEF FollowInv

\* The exchange gets an order at most once, whatever answers are lost, wherever
\* a process dies and however many of them reconcile and cancel beside it, if
\* one submission of an order at a time is between its look and the answer.
THEOREM PostedAtMostOnce == Spec /\ []SubmitsOneByOne => []PostedOnce
<1>1. FollowInv => PostedOnce
  BY DEF FollowInv, OrderTrue, SinglePoster, PostedOnce
<1> QED BY <1>1, FollowInit, FollowStep, PTL DEF Spec

\* Under the same condition a row claims no order, execution or end that the
\* exchange does not have, however late and in whatever order the answers of
\* any number of processes are stored.
THEOREM RowsFollowTheExchange == Spec /\ []SubmitsOneByOne => []RowFollowsExchange
<1>1. FollowInv => RowFollowsExchange
  BY DEF FollowInv, OrderTrue, RowTrue, RowFollowsExchange
<1> QED BY <1>1, FollowInit, FollowStep, PTL DEF Spec

-----------------------------------------------------------------------------
(* The position.  It moves in one transaction with the rows of the trades,  *)
(* so that any number of processes may store fills.                         *)

TradeCounts == [o \in Orders |-> Cardinality(trades[o])]

LEMMA StoredIsSum ==
  /\ \A S : StoredFills(S) = SumFunctionOnSet(TradeCounts, S)
  /\ \A S : StoredFills(S)' = SumFunctionOnSet(TradeCounts', S)
BY DEF StoredFills, TradeCounts

LEMMA ExecutionsFinite == \A S : S \subseteq 1 .. Size => IsFiniteSet(S) /\ Cardinality(S) \in Nat
<1>1. IsFiniteSet(1 .. Size)
  BY FS_Interval
<1> QED BY <1>1, FS_Subset, FS_CardinalityType

LEMMA CountsTyped == TypeOK => \A o \in Orders : TradeCounts[o] \in Nat
<1> SUFFICES ASSUME TypeOK, NEW o \in Orders PROVE Cardinality(trades[o]) \in Nat
    BY DEF TradeCounts
<1> QED BY ExecutionsFinite DEF TypeOK

\* The fills that were not stored yet are what the trades of the order grow by.
LEMMA PersistCounts ==
  ASSUME TypeOK, NEW w \in Workers, Persist(w)
  PROVE  LET o == run[w].order
             n == Cardinality(NewFills(w))
         IN  /\ o \in Orders /\ n \in Nat
             /\ Cardinality(trades'[o]) = Cardinality(trades[o]) + n
             /\ \A i \in Orders \ {o} : trades'[i] = trades[i]
<1> DEFINE o == run[w].order
           T == trades[o]
           F == run[w].fills
<1>1. o \in Orders /\ F \subseteq 1 .. Size
  BY RunFields
<1>2. T \subseteq 1 .. Size
  BY <1>1 DEF TypeOK
<1>3. IsFiniteSet(T) /\ IsFiniteSet(F)
  BY <1>1, <1>2, ExecutionsFinite
<1>4. trades'[o] = T \cup F /\ \A i \in Orders \ {o} : trades'[i] = trades[i]
  BY <1>1 DEF Persist, TypeOK
<1>5. NewFills(w) = F \ T
  BY DEF NewFills
<1> HIDE DEF o, T, F
<1>6. /\ IsFiniteSet(F \ T) /\ Cardinality(F \ T) \in Nat
      /\ Cardinality(T) \in Nat /\ Cardinality(T \cap (F \ T)) = 0
  <2>1. IsFiniteSet(F \ T)
    BY <1>3, FS_Difference
  <2>2. T \cap (F \ T) = {}
    OBVIOUS
  <2> QED BY <1>3, <2>1, <2>2, FS_CardinalityType, FS_EmptySet
<1>7. T \cup F = T \cup (F \ T)
  OBVIOUS
<1>8. Cardinality(T \cup (F \ T))
        = Cardinality(T) + Cardinality(F \ T) - Cardinality(T \cap (F \ T))
  BY <1>3, <1>6, FS_Union
<1> QED BY <1>1, <1>4, <1>5, <1>6, <1>7, <1>8 DEF o, T

PositionInv == TypeOK /\ PositionMatchesTrades

LEMMA PositionInvInit ==
  ASSUME IsFiniteSet(Orders)
  PROVE  Init => PositionInv
<1> SUFFICES ASSUME Init PROVE PositionInv
    OBVIOUS
<1>1. TypeOK
  BY TypeInit
<1>2. \A o \in Orders : TradeCounts[o] = 0
  BY FS_EmptySet DEF Init, TradeCounts
<1>3. \A S \in SUBSET Orders : IsFiniteSet(S)
  BY FS_Subset
<1>4. \A S \in SUBSET Orders : StoredFills(S) = 0
  BY <1>2, <1>3, SumZero, StoredIsSum
<1> QED BY <1>1, <1>4 DEF Init, PositionInv, PositionMatchesTrades

LEMMA PersistKeepsPosition ==
  ASSUME IsFiniteSet(Orders), PositionInv, NEW w \in Workers, Persist(w), TypeOK'
  PROVE  PositionMatchesTrades'
<1>1. PICK o \in Orders, n \in Nat :
        /\ Cardinality(trades'[o]) = Cardinality(trades[o]) + n
        /\ \A i \in Orders \ {o} : trades'[i] = trades[i]
        /\ position' = IF o \in Bought THEN position + n ELSE position - n
  BY PersistCounts DEF Persist, PositionInv
<1> DEFINE f == TradeCounts
           g == TradeCounts'
<1>2. \A i \in Orders : f[i] \in Int /\ g[i] \in Int
  <2>1. \A i \in Orders : Cardinality(trades[i]) \in Nat /\ Cardinality(trades'[i]) \in Nat
    BY ExecutionsFinite DEF PositionInv, TypeOK
  <2> QED BY <2>1 DEF TradeCounts
<1>3. g[o] = f[o] + n /\ \A i \in Orders \ {o} : g[i] = f[i]
  BY <1>1 DEF TradeCounts
<1>4. TradeCounts = f /\ TradeCounts' = g
  OBVIOUS
<1> HIDE DEF f, g
<1>5. \A S \in SUBSET Orders :
        /\ IsFiniteSet(S) /\ SumFunctionOnSet(f, S) \in Int
        /\ o \in S => SumFunctionOnSet(g, S) = SumFunctionOnSet(f, S) - f[o] + g[o]
        /\ o \notin S => SumFunctionOnSet(g, S) = SumFunctionOnSet(f, S)
  <2> TAKE S \in SUBSET Orders
  <2>1. IsFiniteSet(S) /\ \A i \in S : f[i] \in Int /\ g[i] \in Int
    BY <1>2, FS_Subset
  <2>2. SumFunctionOnSet(f, S) \in Int
    BY <2>1, SumType
  <2>3. o \in S => SumFunctionOnSet(g, S) = SumFunctionOnSet(f, S) - f[o] + g[o]
    BY <2>1, <1>3, SumChange
  <2>4. ASSUME o \notin S PROVE SumFunctionOnSet(g, S) = SumFunctionOnSet(f, S)
    BY <2>1, <2>4, <1>3, SumEqual
  <2> QED BY <2>1, <2>2, <2>3, <2>4
<1>6. /\ Bought \in SUBSET Orders /\ (Orders \ Bought) \in SUBSET Orders
      /\ position = SumFunctionOnSet(f, Bought) - SumFunctionOnSet(f, Orders \ Bought)
  BY <1>4, StoredIsSum DEF PositionInv, PositionMatchesTrades
<1>7. position' = SumFunctionOnSet(g, Bought) - SumFunctionOnSet(g, Orders \ Bought)
  <2>1. f[o] \in Int /\ g[o] = f[o] + n
    BY <1>2, <1>3
  <2>2. CASE o \in Bought
    BY <1>1, <1>5, <1>6, <2>1, <2>2
  <2>3. CASE o \notin Bought
    BY <1>1, <1>5, <1>6, <2>1, <2>3
  <2> QED BY <2>2, <2>3
<1> QED BY <1>4, <1>7, StoredIsSum DEF PositionMatchesTrades

LEMMA PositionInvStep ==
  ASSUME IsFiniteSet(Orders)
  PROVE  PositionInv /\ [Next]_vars => PositionInv'
<1> SUFFICES ASSUME PositionInv, [Next]_vars PROVE PositionInv'
    OBVIOUS
<1>1. TypeOK'
  BY TypeStep DEF PositionInv
<1>2. (\E w \in Workers : Persist(w)) \/ UNCHANGED <<position, trades>>
  <2>1. ASSUME NEW w \in Workers, Step(w) PROVE Persist(w) \/ UNCHANGED <<position, trades>>
    BY <2>1 DEF Step, Admit, Find, Create, Check, Post, LoseAnswer, Refuse, Query, Resolve,
                Cancel, Pick, Fetch, Fail, Crash
  <2>2. ASSUME NEW w \in Workers, NEW o \in Orders,
               Reconcile(w) \/ Call(w, o) \/ SubmitJob(w, o) \/ StartCancel(w, o)
        PROVE  UNCHANGED <<position, trades>>
    BY <2>2 DEF Reconcile, Call, SubmitJob, StartCancel
  <2>3. ASSUME NEW o \in Orders, Advance(o) \/ Expire(o)
        PROVE  UNCHANGED <<position, trades>>
    BY <2>3 DEF Advance, Expire
  <2>4. Kill => UNCHANGED <<position, trades>>
    BY DEF Kill
  <2> QED BY <2>1, <2>2, <2>3, <2>4 DEF Next
<1>3. UNCHANGED <<position, trades>> => PositionMatchesTrades'
  BY DEF PositionInv, PositionMatchesTrades, StoredFills
<1> QED BY <1>1, <1>2, <1>3, PersistKeepsPosition DEF PositionInv

\* However many processes store whichever fills they fetched, and however often,
\* the open position is what the stored fills bought less what they sold.
THEOREM PositionMatches ==
  ASSUME IsFiniteSet(Orders)
  PROVE  Spec => []PositionMatchesTrades
<1>1. PositionInv => PositionMatchesTrades
  BY DEF PositionInv
<1> QED BY PositionInvInit, PositionInvStep, <1>1, PTL DEF Spec
=============================================================================
