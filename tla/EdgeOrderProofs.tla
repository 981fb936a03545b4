-------------------------- MODULE EdgeOrderProofs ---------------------------
(***************************************************************************)
(* The statements that the goroutines of an edge have left to run: in      *)
(* which order they can stand, and what is true of an order when one of    *)
(* them comes to the head.  LineStockProofs and OrderProtocolProofs build  *)
(* on it.                                                                  *)
(***************************************************************************)
EXTENDS EdgeOrders, Integers, SequenceTheorems, TLAPS

-----------------------------------------------------------------------------
(* Types.                                                                  *)

OrderRow == [type : {"retrieve", "move", "store"}, slot : Slots \cup {NoSlot},
             auto : BOOLEAN, status : OrderStatus, counted : BOOLEAN]

SlotRow == [remaining : 0..Units, status : SlotStatus, point : Points,
            auto : BOOLEAN]

MessageKind == {"request", "waybill", "receipt", "cancel", "redirect"}

Step == [do : {"check", "write"}, order : Nat, arg : OrderStatus]
          \cup [do : {"enqueue"}, order : Nat, arg : MessageKind]
          \cup [do : {"count", "unless_over", "if_delivered", "refill"},
                order : Nat, arg : {"none"}]

EdgeTypes ==
    /\ orders \in Seq(OrderRow)
    /\ slots \in [Slots -> SlotRow]
    /\ sent \in Seq([order : Nat, kind : MessageKind])
    /\ \A i \in DOMAIN sent : sent[i].order \in OrderIds
    /\ work \in [Callers -> Seq(Step)]

-----------------------------------------------------------------------------
(* Sequences of statements.                                                *)

\* Which statement may follow which in an operation.
After(a, b) ==
    \/ /\ a.do = "enqueue" /\ a.arg = "request"
       /\ b.do = "check" /\ b.arg = "submitted"
    \/ a.do = "check" /\ b.do = "write" /\ b.arg = a.arg
    \/ /\ a.do = "write" /\ a.arg = "submitted"
       /\ b.do = "enqueue" /\ b.arg = "waybill"
    \/ /\ a.do = "write" /\ a.arg = "cancelled"
       /\ b.do = "enqueue" /\ b.arg = "cancel"
    \/ a.do = "refill" /\ b.do = "enqueue" /\ b.arg = "cancel"
    \/ a.do = "count" /\ b.do = "check" /\ b.arg = "submitted"
    \/ a.do = "count" /\ b.do = "enqueue" /\ b.arg = "receipt"
    \/ a.do = "unless_over" /\ b.do = "check" /\ b.arg = "cancelled"
    \/ a.do = "unless_over" /\ b.do = "enqueue" /\ b.arg = "redirect"
    \/ a.do = "if_delivered" /\ b.do = "count"
    \/ /\ a.do = "enqueue" /\ a.arg = "receipt"
       /\ b.do = "check" /\ b.arg = "confirmed"

\* A check is followed by its write, a receipt by the transition.
Unfinished(a) == a.do = "check" \/ (a.do = "enqueue" /\ a.arg = "receipt")

\* What is left of an operation on order o.
Chain(w, o) ==
    /\ w \in Seq(Step)
    /\ \A i \in 1..Len(w) : w[i].order = o
    /\ \A i \in 1..Len(w) - 1 : After(w[i], w[i + 1])

Program(w, o) == Chain(w, o) /\ (w # << >> => ~Unfinished(w[Len(w)]))

\* A single statement is a chain.
LEMMA OneStep ==
    ASSUME NEW a \in Step
    PROVE  /\ Chain(<<a>>, a.order) /\ Len(<<a>>) = 1 /\ <<a>>[1] = a
           /\ <<a>> # << >> /\ <<a>> \in Seq(Step)
BY DEF Chain

\* Two parts of an operation meet, and r is what they make.
Links(p, q) == After(p[Len(p)], q[1])

Joined(p, q, r, o) ==
    /\ Chain(r, o) /\ r \in Seq(Step) /\ r # << >>
    /\ Len(r) = Len(p) + Len(q)
    /\ \A i \in 1..Len(p) : r[i] = p[i]
    /\ r[1] = p[1] /\ r[Len(p) + 1] = q[1]
    /\ r[Len(p) + Len(q)] = q[Len(q)]

\* Operations are put together where the next statement may follow.
LEMMA JoinChain ==
    ASSUME NEW o, NEW p \in Seq(Step), NEW q \in Seq(Step),
           Chain(p, o), Chain(q, o), p # << >>, q # << >>, Links(p, q)
    PROVE  Joined(p, q, p \o q, o)
<1> DEFINE r == p \o q
<1>1. After(p[Len(p)], q[1])
  BY DEF Links
<1>2. Len(p) \in Nat \ {0} /\ Len(q) \in Nat \ {0}
  BY EmptySeq
<1>4. r \in Seq(Step) /\ Len(r) = Len(p) + Len(q)
      /\ \A i \in 1 .. Len(p) + Len(q) :
           r[i] = IF i <= Len(p) THEN p[i] ELSE q[i - Len(p)]
  BY ConcatProperties
<1> HIDE DEF r
<1>5. ASSUME NEW i \in 1..Len(r) PROVE r[i].order = o
  <2>1. CASE i <= Len(p)
    <3>1. i \in 1..Len(p) /\ r[i] = p[i]
      BY <1>2, <1>4, <2>1
    <3>2. QED
      BY <3>1 DEF Chain
  <2>2. CASE i > Len(p)
    <3>1. i - Len(p) \in 1..Len(q) /\ r[i] = q[i - Len(p)]
      BY <1>2, <1>4, <2>2
    <3>2. QED
      BY <3>1 DEF Chain
  <2>3. QED
    BY <1>2, <1>4, <2>1, <2>2
<1>6. ASSUME NEW i \in 1..Len(r) - 1 PROVE After(r[i], r[i + 1])
  <2>1. CASE i < Len(p)
    <3>1. r[i] = p[i] /\ r[i + 1] = p[i + 1] /\ i \in 1..Len(p) - 1
      BY <1>2, <1>4, <2>1
    <3>2. QED
      BY <3>1 DEF Chain
  <2>2. CASE i = Len(p)
    <3>1. i + 1 \in 1..Len(p) + Len(q) /\ ~(i + 1 <= Len(p)) /\ i + 1 - Len(p) = 1
      BY <1>2, <1>4, <2>2
    <3>2. r[i] = p[Len(p)] /\ r[i + 1] = q[1]
      BY <1>2, <1>4, <2>2, <3>1
    <3>3. QED
      BY <1>1, <2>2, <3>2
  <2>3. CASE i > Len(p)
    <3>1. r[i] = q[i - Len(p)] /\ r[i + 1] = q[i - Len(p) + 1]
      BY <1>2, <1>4, <2>3
    <3>2. i - Len(p) \in 1..Len(q) - 1
      BY <1>2, <1>4, <2>3
    <3>3. QED
      BY <3>1, <3>2 DEF Chain
  <2>4. QED
    BY <1>2, <2>1, <2>2, <2>3
<1>7. Chain(r, o)
  BY <1>4, <1>5, <1>6 DEF Chain
<1>8. /\ r[1] = p[1] /\ r[Len(p) + Len(q)] = q[Len(q)] /\ r[Len(p) + 1] = q[1]
      /\ r # << >> /\ \A i \in 1..Len(p) : r[i] = p[i]
  <2>1. r[1] = p[1] /\ \A i \in 1..Len(p) : r[i] = p[i]
    BY <1>2, <1>4
  <2>2. r[Len(p) + 1] = q[1]
    BY <1>2, <1>4
  <2>3. r[Len(p) + Len(q)] = q[Len(q)]
    BY <1>2, <1>4
  <2>4. Len(r) # 0
    BY <1>2, <1>4
  <2>5. QED
    BY <1>4, <2>1, <2>2, <2>3, <2>4, EmptySeq
<1>9. QED
  BY <1>4, <1>7, <1>8 DEF Joined, r

\* What is left when the first statement has run.
LEMMA TailChain ==
    ASSUME NEW o, NEW w, Program(w, o), w # << >>
    PROVE  /\ Program(Tail(w), o)
           /\ Len(w) \in Nat \ {0} /\ Len(Tail(w)) = Len(w) - 1
           /\ Head(w) = w[1] /\ w[1] \in Step /\ w[1].order = o
           /\ Tail(w) # << >> => Len(w) > 1 /\ Tail(w)[1] = w[2] /\ After(w[1], w[2])
           /\ Tail(w) = << >> => ~Unfinished(w[1])
           /\ Len(Tail(w)) > 1 => Tail(w)[2] = w[3]
<1>1. w \in Seq(Step)
  BY DEF Program, Chain
<1>2. Len(w) \in Nat \ {0}
  BY <1>1, EmptySeq
<1>3. /\ Tail(w) \in Seq(Step) /\ Len(Tail(w)) = Len(w) - 1
      /\ \A i \in 1 .. Len(Tail(w)) : Tail(w)[i] = w[i + 1]
      /\ Head(w) = w[1] /\ w[1] \in Step
  BY <1>1, <1>2, HeadTailProperties
<1>4. w[1].order = o /\ \A i \in 1..Len(Tail(w)) : Tail(w)[i].order = o
  BY <1>2, <1>3 DEF Program, Chain
<1>5. \A i \in 1..Len(Tail(w)) - 1 : After(Tail(w)[i], Tail(w)[i + 1])
  BY <1>2, <1>3 DEF Program, Chain
<1>6. CASE Tail(w) = << >>
  <2>1. Len(w) = 1
    BY <1>2, <1>3, <1>6, EmptySeq
  <2>2. QED
    BY <1>2, <1>3, <1>4, <1>5, <1>6, <2>1 DEF Program, Chain
<1>7. CASE Tail(w) # << >>
  <2>1. Len(w) > 1
    BY <1>1, <1>2, <1>3, <1>7, EmptySeq
  <2>2. Tail(w)[1] = w[2] /\ After(w[1], w[2]) /\ Tail(w)[Len(Tail(w))] = w[Len(w)]
    BY <1>2, <1>3, <2>1 DEF Program, Chain
  <2>3. QED
    BY <1>2, <1>3, <1>4, <1>5, <1>7, <2>1, <2>2 DEF Program, Chain
<1>8. QED
  BY <1>6, <1>7

\* Nothing left is a program of any order.
LEMMA NothingLeft ==
    ASSUME NEW o
    PROVE  Program(<< >>, o)
BY EmptySeq DEF Program, Chain

-----------------------------------------------------------------------------
(* The operations are programs.                                            *)

\* The fields of a statement.
LEMMA Fields ==
    ASSUME NEW do, NEW o, NEW arg
    PROVE  /\ Statement(do, o, arg).do = do
           /\ Statement(do, o, arg).order = o
           /\ Statement(do, o, arg).arg = arg
BY DEF Statement

\* The statements of the operations.
LEMMA StatementTyped ==
    ASSUME NEW o \in Nat
    PROVE  /\ \A do \in {"count", "unless_over", "if_delivered", "refill"} :
                Statement(do, o, "none") \in Step
           /\ \A kind \in MessageKind : Statement("enqueue", o, kind) \in Step
           /\ \A do \in {"check", "write"}, s \in OrderStatus :
                Statement(do, o, s) \in Step
BY DEF Statement, Step

\* What follows what in the operations, and what they can end with.
LEMMA Follows ==
    ASSUME NEW o
    PROVE  /\ After(Statement("write", o, "submitted"), Statement("enqueue", o, "waybill"))
           /\ After(Statement("write", o, "cancelled"), Statement("enqueue", o, "cancel"))
           /\ After(Statement("enqueue", o, "request"), Statement("check", o, "submitted"))
           /\ After(Statement("count", o, "none"), Statement("check", o, "submitted"))
           /\ After(Statement("count", o, "none"), Statement("enqueue", o, "receipt"))
           /\ After(Statement("unless_over", o, "none"), Statement("check", o, "cancelled"))
           /\ After(Statement("unless_over", o, "none"), Statement("enqueue", o, "redirect"))
           /\ After(Statement("if_delivered", o, "none"), Statement("count", o, "none"))
           /\ After(Statement("enqueue", o, "receipt"), Statement("check", o, "confirmed"))
BY DEF After, Statement

\* With which statements an operation can end.
LEMMA Ends ==
    ASSUME NEW o
    PROVE  /\ \A s : ~Unfinished(Statement("write", o, s))
           /\ ~Unfinished(Statement("count", o, "none"))
           /\ ~Unfinished(Statement("refill", o, "none"))
           /\ \A k \in {"waybill", "cancel", "redirect"} :
                ~Unfinished(Statement("enqueue", o, k))
BY DEF Unfinished, Statement

\* A transition is a check and its write.
LEMMA TransitionChain ==
    ASSUME NEW o \in Nat, NEW s \in OrderStatus
    PROVE  LET w == TransitionOrder(o, s) IN
           /\ Chain(w, o) /\ w \in Seq(Step) /\ w # << >> /\ Len(w) = 2
           /\ w[1] = Statement("check", o, s) /\ w[2] = Statement("write", o, s)
<1> DEFINE a == Statement("check", o, s)
           b == Statement("write", o, s)
<1>1. /\ a \in Step /\ a.do = "check" /\ a.order = o /\ a.arg = s
      /\ b \in Step /\ b.do = "write" /\ b.order = o /\ b.arg = s
  BY StatementTyped DEF Statement
<1>2. TransitionOrder(o, s) = <<a, b>>
  BY DEF TransitionOrder
<1> HIDE DEF a, b
<1>3. After(a, b)
  BY <1>1 DEF After
<1>4. Chain(<<a, b>>, o) /\ <<a, b>> \in Seq(Step)
  BY <1>1, <1>3 DEF Chain
<1>5. QED
  BY <1>2, <1>4 DEF a, b

\* A single statement is a chain.
LEMMA SingleChain ==
    ASSUME NEW o, NEW do, NEW arg, Statement(do, o, arg) \in Step
    PROVE  LET w == <<Statement(do, o, arg)>> IN
           /\ Chain(w, o) /\ w \in Seq(Step) /\ w # << >> /\ Len(w) = 1
           /\ w[1] = Statement(do, o, arg)
<1> DEFINE a == Statement(do, o, arg)
<1>1. a \in Step /\ a.order = o
  BY DEF Statement
<1> HIDE DEF a
<1>2. /\ Chain(<<a>>, o) /\ <<a>> \in Seq(Step) /\ <<a>> # << >>
      /\ Len(<<a>>) = 1 /\ <<a>>[1] = a
  BY <1>1, OneStep
<1>3. QED
  BY <1>2 DEF a

\* TransitionOrder is an operation of its own.
LEMMA TransitionProgram ==
    ASSUME NEW o \in Nat, NEW s \in OrderStatus
    PROVE  /\ Program(TransitionOrder(o, s), o)
           /\ TransitionOrder(o, s) # << >>
           /\ TransitionOrder(o, s)[1] = Statement("check", o, s)
<1>2. ~Unfinished(Statement("write", o, s))
  BY Ends
<1>3. QED
  BY <1>2, TransitionChain DEF Program

\* A transition to status s and the message that may follow it.
LEMMA TransitionAndTell ==
    ASSUME NEW o \in Nat,
           NEW s \in OrderStatus, NEW kind \in MessageKind,
           <<s, kind>> \in {<<"submitted", "waybill">>, <<"cancelled", "cancel">>}
    PROVE  LET w == TransitionOrder(o, s) \o Enqueue(o, kind) IN
           /\ Program(w, o) /\ w # << >> /\ Len(w) = 3
           /\ w[1] = Statement("check", o, s)
           /\ w[3] = Statement("enqueue", o, kind)
<1> DEFINE p == TransitionOrder(o, s)
           q == Enqueue(o, kind)
<1>1. /\ Chain(p, o) /\ p \in Seq(Step) /\ p # << >> /\ Len(p) = 2
      /\ p[1] = Statement("check", o, s)
      /\ p[2] = Statement("write", o, s)
  BY TransitionChain DEF OrderStatus
<1>2. /\ Chain(q, o) /\ q \in Seq(Step) /\ q # << >> /\ Len(q) = 1
      /\ q[1] = Statement("enqueue", o, kind)
  BY SingleChain, StatementTyped DEF Enqueue, MessageKind
<1>4. Links(p, q) /\ ~Unfinished(q[1])
  BY <1>1, <1>2, Follows, Ends DEF Links
<1> DEFINE t == p \o q
<1>5. TransitionOrder(o, s) \o Enqueue(o, kind) = t
  BY DEF p, q
<1>6. t = p \o q
  OBVIOUS
<1> HIDE DEF p, q, t
<1>7. /\ Chain(t, o) /\ t # << >> /\ Len(t) = 3
      /\ t[1] = p[1] /\ t[3] = q[1]
  <2>1. Joined(p, q, t, o)
    BY <1>1, <1>2, <1>4, <1>6, JoinChain
  <2>2. QED
    BY <1>1, <1>2, <2>1 DEF Joined
<1>8. Program(t, o)
  BY <1>4, <1>7 DEF Program
<1>9. QED
  BY <1>1, <1>2, <1>5, <1>7, <1>8

\* What the operations of the manager leave to run is a program.
LEMMA RequestProgram ==
    ASSUME NEW o \in Nat
    PROVE  /\ Program(RequestSteps(o), o) /\ RequestSteps(o) # << >>
           /\ RequestSteps(o)[1] = Statement("enqueue", o, "request")
<1> DEFINE p == Enqueue(o, "request")
           q == TransitionOrder(o, "submitted")
<1>1. /\ Chain(p, o) /\ p \in Seq(Step) /\ p # << >> /\ Len(p) = 1
      /\ p[1] = Statement("enqueue", o, "request")
  BY SingleChain, StatementTyped DEF Enqueue, MessageKind
<1>2. /\ Chain(q, o) /\ q \in Seq(Step) /\ q # << >> /\ Len(q) = 2
      /\ q[1] = Statement("check", o, "submitted")
      /\ q[2] = Statement("write", o, "submitted")
  BY TransitionChain DEF OrderStatus
<1>4. Links(p, q) /\ ~Unfinished(q[2])
  BY <1>1, <1>2, Follows, Ends DEF Links
<1> DEFINE t == p \o q
<1>5. RequestSteps(o) = t
  BY DEF RequestSteps
<1>6. t = p \o q
  OBVIOUS
<1> HIDE DEF p, q, t
<1>7. /\ Chain(t, o) /\ t # << >> /\ Len(t) = 3
      /\ t[1] = p[1] /\ t[2] = q[1] /\ t[3] = q[2]
  <2>1. Joined(p, q, t, o)
    BY <1>1, <1>2, <1>4, <1>6, JoinChain
  <2>2. QED
    BY <1>1, <1>2, <2>1 DEF Joined
<1>8. Program(t, o)
  BY <1>4, <1>7 DEF Program
<1>9. QED
  BY <1>1, <1>2, <1>5, <1>7, <1>8

\* A store order counts and submits itself.
LEMMA StoreProgram ==
    ASSUME NEW o \in Nat
    PROVE  /\ Program(StoreSteps(o), o) /\ StoreSteps(o) # << >>
           /\ StoreSteps(o)[1] = Statement("count", o, "none")
           /\ StoreSteps(o)[2] = Statement("check", o, "submitted")
<1> DEFINE p == <<Statement("count", o, "none")>>
           q == TransitionOrder(o, "submitted")
           r == Enqueue(o, "waybill")
<1>1. /\ Chain(p, o) /\ p \in Seq(Step) /\ p # << >> /\ Len(p) = 1
      /\ p[1] = Statement("count", o, "none")
  BY SingleChain, StatementTyped
<1>2. /\ Chain(q, o) /\ q \in Seq(Step) /\ q # << >> /\ Len(q) = 2
      /\ q[1] = Statement("check", o, "submitted")
      /\ q[2] = Statement("write", o, "submitted")
  BY TransitionChain DEF OrderStatus
<1>3. /\ Chain(r, o) /\ r \in Seq(Step) /\ r # << >> /\ Len(r) = 1
      /\ r[1] = Statement("enqueue", o, "waybill")
  BY SingleChain, StatementTyped DEF Enqueue, MessageKind
<1>4. Links(p, q) /\ After(q[2], r[1]) /\ ~Unfinished(r[1])
  BY <1>1, <1>2, <1>3, Follows, Ends DEF Links
<1> DEFINE t == p \o q
           u == t \o r
<1>5. StoreSteps(o) = u
  BY DEF StoreSteps
<1>6. t = p \o q
  OBVIOUS
<1>7. u = t \o r
  OBVIOUS
<1> HIDE DEF p, q, r, t, u
<1>8. /\ Chain(t, o) /\ t \in Seq(Step) /\ t # << >> /\ Len(t) = 3
      /\ t[1] = p[1] /\ t[2] = q[1] /\ t[3] = q[2]
  <2>1. Joined(p, q, t, o)
    BY <1>1, <1>2, <1>4, <1>6, JoinChain
  <2>2. Chain(t, o) /\ t \in Seq(Step) /\ t # << >> /\ t[1] = p[1]
    BY <2>1 DEF Joined
  <2>3. Len(t) = 1 + 2 /\ t[1 + 1] = q[1] /\ t[1 + 2] = q[2]
    BY <1>1, <1>2, <2>1 DEF Joined
  <2>4. QED
    BY <2>2, <2>3
<1>9. /\ Chain(u, o) /\ u # << >> /\ Len(u) = 4
      /\ u[1] = t[1] /\ u[4] = r[1] /\ u[2] = t[2]
  <2>1. Links(t, r)
    BY <1>4, <1>8 DEF Links
  <2>2. Joined(t, r, u, o)
    BY <1>3, <1>7, <1>8, <2>1, JoinChain
  <2>3. QED
    BY <1>3, <1>8, <2>2 DEF Joined
<1>10. Program(u, o)
  BY <1>4, <1>9 DEF Program
<1>11. QED
  BY <1>1, <1>2, <1>3, <1>5, <1>8, <1>9, <1>10

\* A submission is a transition and the waybill.
LEMMA SubmitProgram ==
    ASSUME NEW o \in Nat
    PROVE  /\ Program(SubmitSteps(o), o) /\ SubmitSteps(o) # << >>
           /\ SubmitSteps(o)[1] = Statement("check", o, "submitted")
<1> DEFINE p == TransitionOrder(o, "submitted")
<1>1. CASE orders[o].type = "store"
  BY <1>1, TransitionAndTell DEF SubmitSteps, OrderStatus, MessageKind
<1>2. CASE orders[o].type # "store"
  <2>1. Program(p, o) /\ p # << >> /\ p[1] = Statement("check", o, "submitted")
    BY TransitionProgram DEF OrderStatus
  <2>2. p \o << >> = p
    BY <2>1, ConcatEmptySeq DEF Program, Chain
  <2>3. SubmitSteps(o) = p
    BY <1>2, <2>2 DEF SubmitSteps
  <2>4. QED
    BY <2>1, <2>3
<1>3. QED
  BY <1>1, <1>2

\* An abort looks whether the order is over, then cancels it and says so.
LEMMA AbortProgram ==
    ASSUME NEW o \in Nat
    PROVE  /\ Program(AbortSteps(o), o) /\ AbortSteps(o) # << >>
           /\ AbortSteps(o)[1] = Statement("unless_over", o, "none")
<1> DEFINE p == <<Statement("unless_over", o, "none")>>
           q == TransitionOrder(o, "cancelled")
           r == Enqueue(o, "cancel")
<1>1. /\ Chain(p, o) /\ p \in Seq(Step) /\ p # << >> /\ Len(p) = 1
      /\ p[1] = Statement("unless_over", o, "none")
  BY SingleChain, StatementTyped
<1>2. /\ Chain(q, o) /\ q \in Seq(Step) /\ q # << >> /\ Len(q) = 2
      /\ q[1] = Statement("check", o, "cancelled")
      /\ q[2] = Statement("write", o, "cancelled")
  BY TransitionChain DEF OrderStatus
<1>3. /\ Chain(r, o) /\ r \in Seq(Step) /\ r # << >> /\ Len(r) = 1
      /\ r[1] = Statement("enqueue", o, "cancel")
  BY SingleChain, StatementTyped DEF Enqueue, MessageKind
<1>4. Links(p, q) /\ After(q[2], r[1]) /\ ~Unfinished(r[1])
  BY <1>1, <1>2, <1>3, Follows, Ends DEF Links
<1> DEFINE t == p \o q
           u == t \o r
<1>5. AbortSteps(o) = u
  BY DEF AbortSteps
<1>6. t = p \o q
  OBVIOUS
<1>7. u = t \o r
  OBVIOUS
<1> HIDE DEF p, q, r, t, u
<1>8. /\ Chain(t, o) /\ t \in Seq(Step) /\ t # << >> /\ Len(t) = 3
      /\ t[1] = p[1] /\ t[2] = q[1] /\ t[3] = q[2]
  <2>1. Joined(p, q, t, o)
    BY <1>1, <1>2, <1>4, <1>6, JoinChain
  <2>2. Chain(t, o) /\ t \in Seq(Step) /\ t # << >> /\ t[1] = p[1]
    BY <2>1 DEF Joined
  <2>3. Len(t) = 1 + 2 /\ t[1 + 1] = q[1] /\ t[1 + 2] = q[2]
    BY <1>1, <1>2, <2>1 DEF Joined
  <2>4. QED
    BY <2>2, <2>3
<1>9. /\ Chain(u, o) /\ u # << >> /\ Len(u) = 4
      /\ u[1] = t[1] /\ u[4] = r[1] /\ u[2] = t[2]
  <2>1. Links(t, r)
    BY <1>4, <1>8 DEF Links
  <2>2. Joined(t, r, u, o)
    BY <1>3, <1>7, <1>8, <2>1, JoinChain
  <2>3. QED
    BY <1>3, <1>8, <2>2 DEF Joined
<1>10. Program(u, o)
  BY <1>4, <1>9 DEF Program
<1>11. QED
  BY <1>1, <1>2, <1>3, <1>5, <1>8, <1>9, <1>10

\* A redirect looks whether the order is over, then says so.
LEMMA RedirectProgram ==
    ASSUME NEW o \in Nat
    PROVE  /\ Program(RedirectSteps(o), o) /\ RedirectSteps(o) # << >>
           /\ RedirectSteps(o)[1] = Statement("unless_over", o, "none")
<1> DEFINE p == <<Statement("unless_over", o, "none")>>
           q == Enqueue(o, "redirect")
<1>1. /\ Chain(p, o) /\ p \in Seq(Step) /\ p # << >> /\ Len(p) = 1
      /\ p[1] = Statement("unless_over", o, "none")
  BY SingleChain, StatementTyped
<1>2. /\ Chain(q, o) /\ q \in Seq(Step) /\ q # << >> /\ Len(q) = 1
      /\ q[1] = Statement("enqueue", o, "redirect")
  BY SingleChain, StatementTyped DEF Enqueue, MessageKind
<1>4. Links(p, q) /\ ~Unfinished(q[1])
  BY <1>1, <1>2, Follows, Ends DEF Links
<1> DEFINE t == p \o q
<1>5. RedirectSteps(o) = t
  BY DEF RedirectSteps
<1>6. t = p \o q
  OBVIOUS
<1> HIDE DEF p, q, t
<1>7. /\ Chain(t, o) /\ t # << >> /\ Len(t) = 2
      /\ t[1] = p[1] /\ t[2] = q[1]
  <2>1. Joined(p, q, t, o)
    BY <1>1, <1>2, <1>4, <1>6, JoinChain
  <2>2. Chain(t, o) /\ t \in Seq(Step) /\ t # << >> /\ t[1] = p[1]
    BY <2>1 DEF Joined
  <2>3. Len(t) = 1 + 1 /\ t[1 + 1] = q[1] /\ t[1 + 1] = q[1]
    BY <1>1, <1>2, <2>1 DEF Joined
  <2>4. QED
    BY <2>2, <2>3
<1>8. Program(t, o)
  BY <1>4, <1>7 DEF Program
<1>9. QED
  BY <1>1, <1>2, <1>5, <1>7, <1>8

\* A confirmation counts, sends the receipt and then makes the transition.
LEMMA ConfirmProgram ==
    ASSUME NEW o \in Nat
    PROVE  /\ Program(ConfirmSteps(o), o) /\ ConfirmSteps(o) # << >>
           /\ ConfirmSteps(o)[1] = Statement("if_delivered", o, "none")
           /\ Len(ConfirmSteps(o)) = 5
<1> DEFINE p == <<Statement("if_delivered", o, "none"), Statement("count", o, "none")>>
           q == Enqueue(o, "receipt")
           r == TransitionOrder(o, "confirmed")
<1>1. /\ Chain(p, o) /\ p \in Seq(Step) /\ p # << >> /\ Len(p) = 2
      /\ p[1] = Statement("if_delivered", o, "none") /\ p[2] = Statement("count", o, "none")
  <2> DEFINE a == Statement("if_delivered", o, "none")
             b == Statement("count", o, "none")
  <2>1. a \in Step /\ a.order = o /\ b \in Step /\ b.order = o
    BY StatementTyped DEF Statement
  <2>2. After(a, b)
    BY Follows
  <2> HIDE DEF a, b
  <2>3. Chain(<<a, b>>, o) /\ <<a, b>> \in Seq(Step)
    BY <2>1, <2>2 DEF Chain
  <2>4. QED
    BY <2>3 DEF a, b
<1>2. /\ Chain(q, o) /\ q \in Seq(Step) /\ q # << >> /\ Len(q) = 1
      /\ q[1] = Statement("enqueue", o, "receipt")
  BY SingleChain, StatementTyped DEF Enqueue, MessageKind
<1>3. /\ Chain(r, o) /\ r \in Seq(Step) /\ r # << >> /\ Len(r) = 2
      /\ r[1] = Statement("check", o, "confirmed")
      /\ r[2] = Statement("write", o, "confirmed")
  BY TransitionChain DEF OrderStatus
<1>4. Links(p, q) /\ After(q[1], r[1]) /\ ~Unfinished(r[2])
  BY <1>1, <1>2, <1>3, Follows, Ends DEF Links
<1> DEFINE t == p \o q
           u == t \o r
<1>5. ConfirmSteps(o) = u
  BY DEF ConfirmSteps
<1>6. t = p \o q
  OBVIOUS
<1>7. u = t \o r
  OBVIOUS
<1> HIDE DEF p, q, r, t, u
<1>8. /\ Chain(t, o) /\ t \in Seq(Step) /\ t # << >> /\ Len(t) = 3
      /\ t[1] = p[1] /\ t[3] = q[1]
  <2>1. Joined(p, q, t, o)
    BY <1>1, <1>2, <1>4, <1>6, JoinChain
  <2>2. Chain(t, o) /\ t \in Seq(Step) /\ t # << >> /\ t[1] = p[1]
    BY <2>1 DEF Joined
  <2>3. Len(t) = 2 + 1 /\ t[2 + 1] = q[1] /\ t[2 + 1] = q[1]
    BY <1>1, <1>2, <2>1 DEF Joined
  <2>4. QED
    BY <2>2, <2>3
<1>9. /\ Chain(u, o) /\ u # << >> /\ Len(u) = 5
      /\ u[1] = t[1] /\ u[5] = r[2] /\ u[2] = t[2]
  <2>1. Links(t, r)
    BY <1>4, <1>8 DEF Links
  <2>2. Joined(t, r, u, o)
    BY <1>3, <1>7, <1>8, <2>1, JoinChain
  <2>3. QED
    BY <1>3, <1>8, <2>2 DEF Joined
<1>10. Program(u, o)
  BY <1>4, <1>9 DEF Program
<1>11. QED
  BY <1>1, <1>2, <1>3, <1>5, <1>8, <1>9, <1>10

\* A final count typed by an operator is one statement.
LEMMA CountProgram ==
    ASSUME NEW o \in Nat
    PROVE  LET w == <<Statement("count", o, "none")>> IN
           Program(w, o) /\ w # << >> /\ Len(w) = 1 /\ w[1] = Statement("count", o, "none")
<1>1. ~Unfinished(Statement("count", o, "none"))
  BY Ends
<1>2. QED
  BY <1>1, SingleChain, StatementTyped DEF Program

-----------------------------------------------------------------------------
(* The invariants.                                                         *)

\* Every goroutine has the rest of one operation to do.
Owner(w) == w[1].order

GoodWork(w) == Program(w, Owner(w)) /\ (w # << >> => Owner(w) \in OrderIds)

WorkInv == \A c \in Callers : GoodWork(work[c])

\* The goroutines work on different orders.
Exclusive ==
    \A c, d \in Callers :
        work[c] # << >> /\ work[d] # << >> /\ Owner(work[c]) = Owner(work[d]) => c = d

Said(o, kind) == \E i \in DOMAIN sent : sent[i] = [order |-> o, kind |-> kind]

\* The status that calls for a message.
Calls(st, kind) ==
    \/ kind = "request" /\ st = "pending"
    \/ kind = "waybill" /\ st = "submitted"
    \/ kind = "receipt" /\ st = "delivered"
    \/ kind = "cancel" /\ st = "cancelled"
    \/ kind = "redirect" /\ ~IsTerminal(st)

\* The statement at the head fits the order it is about.
FitsAs(w, o, row) ==
    /\ w[1].do = "write" => IsValidTransition(row.status, w[1].arg)
    /\ w[1].do = "check" /\ w[1].arg = "confirmed" => row.status = "delivered"
    /\ w[1].do = "refill" =>
          IsTerminal(row.status) /\ row.type = "retrieve" /\ row.slot # NoSlot
    /\ w[1].do = "refill" /\ Len(w) > 1 =>
          row.status = "cancelled" /\ ~Said(o, "cancel")
    /\ w[1].do = "enqueue" =>
          /\ Calls(row.status, w[1].arg)
          /\ w[1].arg = "redirect" \/ ~Said(o, w[1].arg)
    /\ w[1].do = "count" /\ Len(w) > 1 /\ w[2].do = "enqueue" =>
          row.status = "delivered" /\ ~Said(o, "receipt")

Fits(w) == w # << >> => FitsAs(w, Owner(w), orders[Owner(w)])

FitsInv == \A c \in Callers : Fits(work[c])

\* A goroutine is about to confirm order o, having sent the receipt.
Confirming(w, o) ==
    /\ w # << >> /\ w[1].order = o
    /\ w[1].do \in {"check", "write"} /\ w[1].arg = "confirmed"

\* What was sent about an order tells its status.
SaidFits(o) ==
    /\ orders[o].status = "pending" => ~Said(o, "waybill")
    /\ Said(o, "cancel") => orders[o].status = "cancelled"
    /\ Said(o, "receipt") =>
          orders[o].status = "confirmed" \/ \E c \in Callers : Confirming(work[c], o)

SaidInv == \A o \in OrderIds : SaidFits(o)

EdgeInv == EdgeTypes /\ WorkInv

OrderInv == EdgeInv /\ Exclusive /\ FitsInv /\ SaidInv

-----------------------------------------------------------------------------
(* The steps on orders, whoever takes them.                                *)

EdgeAction(c) ==
    \/ Statements(c)
    \/ WebCreate(c)
    \/ WebOperate(c)
    \/ /\ c = "reader"
       /\ \E o \in OrderIds,
             reply \in {"ack", "waybill", "update", "delivered", "error", "cancelled"} :
             HandleReply(o, reply)
    \/ \E s \in Slots, auto \in AutoConfirm : CreateOrder(c, "retrieve", s, auto)

\* A caller's new work is a program of one known order.
LEMMA NewWork ==
    ASSUME EdgeInv, NEW c \in Callers, NEW w, NEW o,
           Program(w, o), w # << >> => o \in OrderIds',
           OrderIds \subseteq OrderIds', Goes(c, w)
    PROVE  WorkInv' /\ work' \in [Callers -> Seq(Step)]
<1>1. w \in Seq(Step)
  BY DEF Program, Chain
<1>2. work' = [work EXCEPT ![c] = w] /\ work \in [Callers -> Seq(Step)]
  BY DEF Goes, EdgeInv, EdgeTypes
<1>3. work' \in [Callers -> Seq(Step)]
  BY <1>1, <1>2
<1>4. ASSUME NEW d \in Callers PROVE GoodWork(work[d])'
  <2>1. CASE d = c
    <3>1. work'[d] = w
      BY <1>2, <2>1
    <3>2. CASE w = << >>
      BY <3>1, <3>2, NothingLeft DEF GoodWork
    <3>3. CASE w # << >>
      <4>1. 1 \in 1..Len(w)
        BY <1>1, <3>3, EmptySeq
      <4>2. w[1].order = o
        BY <4>1 DEF Program, Chain
      <4>3. QED
        BY <3>1, <3>3, <4>2 DEF GoodWork, Owner
    <3>4. QED
      BY <3>2, <3>3
  <2>2. CASE d # c
    <3>1. work'[d] = work[d]
      BY <1>2, <2>2
    <3>2. GoodWork(work[d])
      BY DEF EdgeInv, WorkInv
    <3>3. QED
      BY <3>1, <3>2 DEF GoodWork
  <2>3. QED
    BY <2>1, <2>2
<1>5. QED
  BY <1>3, <1>4 DEF WorkInv

\* What a caller with something to do is about to do.
LEMMA HeadOf ==
    ASSUME EdgeInv, NEW c \in Callers, work[c] # << >>
    PROVE  /\ Program(work[c], Owner(work[c])) /\ Owner(work[c]) \in OrderIds
           /\ Owner(work[c]) \in Nat
           /\ Head(work[c]) = work[c][1] /\ work[c][1] \in Step
           /\ Head(work[c]).order = Owner(work[c])
           /\ Program(Tail(work[c]), Owner(work[c]))
<1>1. Program(work[c], Owner(work[c])) /\ Owner(work[c]) \in OrderIds
  BY DEF EdgeInv, WorkInv, GoodWork
<1>2. OrderIds \subseteq Nat
  BY DEF EdgeInv, EdgeTypes, OrderIds
<1>3. /\ Head(work[c]) = work[c][1] /\ work[c][1] \in Step
      /\ Program(Tail(work[c]), Owner(work[c]))
  BY <1>1, TailChain
<1>4. QED
  BY <1>1, <1>2, <1>3 DEF Owner

\* What is left after a write: of an order that is over, its refill first; of a
\* delivered order that confirms itself, the confirmation.
AfterWrite(o, s, w) ==
    CompletedSteps(o, s)
        \o (IF s = "delivered" /\ orders[o].auto THEN ConfirmSteps(o) ELSE << >>)
        \o Tail(w)

Completes(o, s) ==
    IsTerminal(s) /\ orders[o].slot # NoSlot /\ orders[o].type = "retrieve"

\* What is left after a status was written: the rest of the operation, the automatic confirmation of a delivery, or the refill of a completed order's slot.
LEMMA WriteGoes ==
    ASSUME NEW o \in Nat, NEW w, Program(w, o), w # << >>, w[1].do = "write"
    PROVE  LET s == w[1].arg
               r == AfterWrite(o, s, w)
           IN  /\ Program(r, o)
               /\ \/ ~Completes(o, s) /\ r = Tail(w)
                  \/ ~Completes(o, s) /\ r = ConfirmSteps(o) /\ s = "delivered"
                  \/ /\ Completes(o, s)
                     /\ r # << >> /\ r[1] = Statement("refill", o, "none")
                     /\ Len(r) > 1 => s = "cancelled"
<1> DEFINE s == w[1].arg
           p == CompletedSteps(o, s)
           q == IF s = "delivered" /\ orders[o].auto THEN ConfirmSteps(o) ELSE << >>
           t == Tail(w)
<1>1. /\ Program(t, o) /\ w[1] \in Step
      /\ t # << >> => Len(w) > 1 /\ t[1] = w[2] /\ After(w[1], w[2])
  BY TailChain
<1>2. t \in Seq(Step) /\ Chain(t, o)
  BY <1>1 DEF Program, Chain
<1>3. t # << >> => /\ s \in {"submitted", "cancelled"} /\ t[1].do = "enqueue"
                   /\ t[1].arg = IF s = "submitted" THEN "waybill" ELSE "cancel"
  BY <1>1 DEF After
<1>4. AfterWrite(o, s, w) = (p \o q) \o t
  BY DEF AfterWrite
<1>5. << >> \o t = t /\ << >> \o << >> = << >>
  BY <1>2, ConcatEmptySeq
<1>6. CASE Completes(o, s)
  <2> DEFINE u == <<Statement("refill", o, "none")>>
             r == u \o t
  <2>1. s # "delivered"
    BY <1>6 DEF Completes, IsTerminal
  <2>2. p = u /\ q = << >>
    BY <1>6, <2>1 DEF Completes, CompletedSteps
  <2>3. /\ Chain(u, o) /\ u \in Seq(Step) /\ u # << >> /\ Len(u) = 1
        /\ u[1] = Statement("refill", o, "none")
    BY SingleChain, StatementTyped
  <2>4. u \o << >> = u
    BY <2>3, ConcatEmptySeq
  <2>5. AfterWrite(o, s, w) = r
    BY <1>4, <2>2, <2>4
  <2>6. CASE t = << >>
    <3>1. AfterWrite(o, s, w) = u
      BY <2>4, <2>5, <2>6
    <3>2. Program(u, o)
      BY <2>3, Ends DEF Program
    <3>3. ~(Len(u) > 1)
      OBVIOUS
    <3>4. u # << >> /\ u[1] = Statement("refill", o, "none")
      BY <2>3
    <3> HIDE DEF s, p, q, t, u, r
    <3>5. /\ AfterWrite(o, s, w) # << >> /\ ~(Len(AfterWrite(o, s, w)) > 1)
          /\ AfterWrite(o, s, w)[1] = Statement("refill", o, "none")
      BY <3>1, <3>3, <3>4
    <3>6. QED
      BY <1>6, <3>1, <3>2, <3>5 DEF s
  <2>7. CASE t # << >>
    <3>1. s = "cancelled"
      BY <1>3, <1>6, <2>7 DEF Completes, IsTerminal
    <3>2. After(u[1], t[1])
      BY <1>3, <2>3, <2>7, <3>1 DEF After, Statement
    <3> HIDE DEF s, p, q, t, u, r
    <3>3. Links(u, t)
      BY <2>3, <3>2 DEF Links
    <3>4. r = u \o t
      BY DEF r
    <3>5. Joined(u, t, r, o)
      BY <1>2, <2>3, <2>7, <3>3, <3>4, JoinChain
    <3>6. Len(t) \in Nat \ {0} /\ ~Unfinished(t[Len(t)])
      BY <1>1, <1>2, <2>7, EmptySeq DEF Program
    <3>7. /\ Chain(r, o) /\ r # << >> /\ r[1] = u[1]
          /\ Len(r) = 1 + Len(t) /\ r[1 + Len(t)] = t[Len(t)]
      BY <2>3, <3>5 DEF Joined
    <3>8. Program(r, o)
      BY <3>6, <3>7 DEF Program
    <3>9. QED
      BY <1>6, <2>3, <2>5, <3>1, <3>7, <3>8 DEF s
  <2>8. QED
    BY <2>6, <2>7
<1>7. CASE ~Completes(o, s) /\ s = "delivered" /\ orders[o].auto
  <2>1. p = << >> /\ q = ConfirmSteps(o) /\ t = << >>
    BY <1>3, <1>7 DEF Completes, CompletedSteps
  <2>2. Program(ConfirmSteps(o), o)
    BY ConfirmProgram
  <2>3. ConfirmSteps(o) \in Seq(Step)
    BY <2>2 DEF Program, Chain
  <2> HIDE DEF p, q, t
  <2>4. (p \o q) \o t = ConfirmSteps(o)
    BY <2>1, <2>3, ConcatEmptySeq
  <2>5. QED
    BY <1>4, <1>7, <2>2, <2>4
<1>8. CASE ~Completes(o, s) /\ ~(s = "delivered" /\ orders[o].auto)
  <2>1. p = << >> /\ q = << >>
    BY <1>8 DEF Completes, CompletedSteps
  <2>2. (p \o q) \o t = t
    BY <1>5, <2>1
  <2>3. QED
    BY <1>1, <1>4, <1>8, <2>2
<1>9. QED
  BY <1>6, <1>7, <1>8

\* What the commands and the replies leave to run is a program, and begins with
\* a decision or a count.
Begins(w, o) ==
    /\ Program(w, o)
    /\ w # << >> =>
          \/ w[1] \in {Statement("unless_over", o, "none"), Statement("if_delivered", o, "none")}
          \/ w[1] = Statement("count", o, "none") /\ Len(w) = 1
          \/ \E s \in OrderStatus \ {"confirmed"} : w[1] = Statement("check", o, s)

\* Every command of an operator begins an operation on its order.
LEMMA CommandBegins ==
    ASSUME NEW o \in Nat,
           NEW command \in {"submit", "abort", "redirect", "confirm", "count"}
    PROVE  Begins(OrderSteps(command, o), o)
<1>1. CASE command = "submit"
  <2>1. "submitted" \in OrderStatus \ {"confirmed"}
    BY DEF OrderStatus
  <2>2. OrderSteps(command, o) = SubmitSteps(o)
    BY <1>1 DEF OrderSteps
  <2>3. QED
    BY <2>1, <2>2, SubmitProgram DEF Begins
<1>2. CASE command = "abort"
  <2>1. OrderSteps(command, o) = AbortSteps(o)
    BY <1>2 DEF OrderSteps
  <2>2. QED
    BY <2>1, AbortProgram DEF Begins
<1>3. CASE command = "redirect"
  <2>1. OrderSteps(command, o) = RedirectSteps(o)
    BY <1>3 DEF OrderSteps
  <2>2. QED
    BY <2>1, RedirectProgram DEF Begins
<1>4. CASE command = "confirm"
  <2>1. OrderSteps(command, o) = ConfirmSteps(o)
    BY <1>4 DEF OrderSteps
  <2>2. QED
    BY <2>1, ConfirmProgram DEF Begins
<1>5. CASE command = "count"
  <2>1. OrderSteps(command, o) = <<Statement("count", o, "none")>>
    BY <1>5 DEF OrderSteps
  <2>2. QED
    BY <2>1, CountProgram DEF Begins
<1>6. QED
  BY <1>1, <1>2, <1>3, <1>4, <1>5

\* Every answer of core begins an operation on its order.
LEMMA ReplyBegins ==
    ASSUME NEW o \in Nat,
           NEW reply \in {"ack", "waybill", "update", "delivered", "error", "cancelled"}
    PROVE  Begins(HandleDispatchReply(o, reply), o)
<1>1. CASE reply = "update"
  BY <1>1, NothingLeft DEF HandleDispatchReply, Begins
<1>2. CASE reply # "update"
  <2>1. PICK s \in OrderStatus \ {"confirmed"} : s = ReplyStatus[reply]
    BY <1>2 DEF ReplyStatus, OrderStatus
  <2>2. HandleDispatchReply(o, reply) = TransitionOrder(o, s)
    BY <1>2, <2>1 DEF HandleDispatchReply
  <2>3. QED
    BY <2>1, <2>2, TransitionProgram DEF Begins
<1>3. QED
  BY <1>1, <1>2

\* A new order and what its creation leaves to run.
CreateSteps(type, o) == IF type = "store" THEN StoreSteps(o) ELSE RequestSteps(o)

\* A new order begins with its request, or with its count when it stores.
LEMMA CreateBegins ==
    ASSUME NEW o \in Nat, NEW type
    PROVE  LET w == CreateSteps(type, o) IN
           /\ Program(w, o) /\ w # << >>
           /\ \/ w[1] = Statement("enqueue", o, "request")
              \/ /\ w[1] = Statement("count", o, "none")
                 /\ w[2] = Statement("check", o, "submitted")
BY RequestProgram, StoreProgram DEF CreateSteps

-----------------------------------------------------------------------------
(* EdgeInv is inductive.                                                   *)

\* A check keeps the programs (manager.go, the conditions before a statement).
LEMMA DecideEdge ==
    ASSUME EdgeInv, NEW c \in Callers, Decide(c)
    PROVE  EdgeInv'
<1>1. /\ work[c] # << >> /\ UNCHANGED <<orders, slots, sent>>
      /\ \/ Goes(c, Tail(work[c])) \/ Goes(c, << >>)
  BY DEF Decide, At
<1>2. OrderIds' = OrderIds
  BY <1>1 DEF OrderIds
<1>3. CASE Goes(c, Tail(work[c]))
  BY <1>1, <1>2, <1>3, HeadOf, NewWork DEF EdgeInv, EdgeTypes
<1>4. CASE Goes(c, << >>)
  BY <1>1, <1>2, <1>4, NothingLeft, NewWork DEF EdgeInv, EdgeTypes
<1>5. QED
  BY <1>1, <1>3, <1>4

\* A status written keeps the programs.
LEMMA WriteEdge ==
    ASSUME EdgeInv, NEW c \in Callers, WriteStatus(c)
    PROVE  EdgeInv'
<1> DEFINE o == Owner(work[c])
           s == work[c][1].arg
           r == AfterWrite(o, s, work[c])
<1>1. /\ work[c] # << >> /\ Head(work[c]).do = "write"
      /\ UNCHANGED <<slots, sent>>
  BY DEF WriteStatus, At
<1>2. /\ Program(work[c], o) /\ o \in OrderIds /\ o \in Nat
      /\ Head(work[c]) = work[c][1] /\ Head(work[c]).order = o
      /\ work[c][1] \in Step
  BY <1>1, HeadOf
<1>3. orders' = [orders EXCEPT ![o].status = s] /\ Goes(c, r)
  BY <1>2 DEF WriteStatus, AfterWrite
<1>4. s \in OrderStatus
  BY <1>1, <1>2 DEF Step
<1>5. Program(r, o)
  BY <1>1, <1>2, WriteGoes
<1> HIDE DEF o, s, r
<1>6. orders' \in Seq(OrderRow) /\ OrderIds' = OrderIds
  <2>1. orders \in Seq(OrderRow) /\ o \in DOMAIN orders
    BY <1>2 DEF EdgeInv, EdgeTypes, OrderIds
  <2>2. orders[o] \in OrderRow
    BY <2>1
  <2>3. [orders[o] EXCEPT !.status = s] \in OrderRow
    BY <1>4, <2>2 DEF OrderRow
  <2>4. orders' = [orders EXCEPT ![o] = [orders[o] EXCEPT !.status = s]]
    BY <1>3
  <2>5. QED
    BY <2>1, <2>3, <2>4 DEF OrderIds
<1>7. QED
  BY <1>1, <1>2, <1>3, <1>5, <1>6, NewWork DEF EdgeInv, EdgeTypes

\* A final count written keeps the programs.
LEMMA CountEdge ==
    ASSUME EdgeInv, NEW c \in Callers, UpdateOrderFinalCount(c)
    PROVE  EdgeInv'
<1> DEFINE o == Owner(work[c])
<1>1. work[c] # << >> /\ UNCHANGED <<slots, sent>> /\ Goes(c, Tail(work[c]))
  BY DEF UpdateOrderFinalCount, At
<1>2. /\ o \in OrderIds /\ Head(work[c]).order = o /\ Program(Tail(work[c]), o)
  BY <1>1, HeadOf
<1>3. orders' = [orders EXCEPT ![o].counted = TRUE]
  BY <1>2 DEF UpdateOrderFinalCount
<1> HIDE DEF o
<1>4. orders' \in Seq(OrderRow) /\ OrderIds' = OrderIds
  <2>1. orders \in Seq(OrderRow) /\ o \in DOMAIN orders
    BY <1>2 DEF EdgeInv, EdgeTypes, OrderIds
  <2>2. orders[o] \in OrderRow
    BY <2>1
  <2>3. [orders[o] EXCEPT !.counted = TRUE] \in OrderRow
    BY <2>2 DEF OrderRow
  <2>4. orders' = [orders EXCEPT ![o] = [orders[o] EXCEPT !.counted = TRUE]]
    BY <1>3
  <2>5. QED
    BY <2>1, <2>3, <2>4 DEF OrderIds
<1>5. QED
  BY <1>1, <1>2, <1>4, NewWork DEF EdgeInv, EdgeTypes

\* A message enqueued keeps the programs.
LEMMA EnqueueEdge ==
    ASSUME EdgeInv, NEW c \in Callers, EnqueueOutbox(c)
    PROVE  EdgeInv'
<1> DEFINE o == Owner(work[c])
           m == [order |-> o, kind |-> work[c][1].arg]
<1>1. /\ work[c] # << >> /\ UNCHANGED <<orders, slots>> /\ Goes(c, Tail(work[c]))
      /\ Head(work[c]).do = "enqueue"
  BY DEF EnqueueOutbox, At
<1>2. /\ o \in OrderIds /\ o \in Nat /\ Head(work[c]).order = o
      /\ Program(Tail(work[c]), o)
      /\ Head(work[c]) = work[c][1] /\ work[c][1] \in Step
  BY <1>1, HeadOf
<1>3. sent' = Append(sent, m)
  BY <1>2 DEF EnqueueOutbox
<1>4. m \in [order : Nat, kind : MessageKind] /\ m.order \in OrderIds
  BY <1>1, <1>2 DEF Step
<1>5. OrderIds' = OrderIds
  BY <1>1 DEF OrderIds
<1> HIDE DEF o, m
<1>6. /\ sent' \in Seq([order : Nat, kind : MessageKind])
      /\ \A i \in DOMAIN sent' : sent'[i].order \in OrderIds
  BY <1>3, <1>4 DEF EdgeInv, EdgeTypes
<1>7. QED
  BY <1>1, <1>2, <1>5, <1>6, NewWork DEF EdgeInv, EdgeTypes

\* A refilled slot keeps the programs.
LEMMA RefillEdge ==
    ASSUME EdgeInv, NEW c \in Callers, ResetPayload(c)
    PROVE  EdgeInv'
<1>1. work[c] # << >> /\ UNCHANGED <<orders, sent>> /\ Goes(c, Tail(work[c]))
  BY DEF ResetPayload, At
<1>2. OrderIds' = OrderIds
  BY <1>1 DEF OrderIds
<1>3. slots' \in [Slots -> SlotRow]
  <2>1. PICK s : slots' = [slots EXCEPT ![s] = Full(@)]
    BY DEF ResetPayload
  <2>2. slots \in [Slots -> SlotRow]
    BY DEF EdgeInv, EdgeTypes
  <2>3. ASSUME s \in Slots PROVE Full(slots[s]) \in SlotRow
    <3>1. slots[s] \in SlotRow /\ Units \in 0..Units /\ "active" \in SlotStatus
      BY <2>2, <2>3, EdgeAssumption DEF SlotStatus
    <3>2. QED
      BY <3>1 DEF Full, SlotRow
  <2>4. QED
    BY <2>1, <2>2, <2>3
<1>4. QED
  BY <1>1, <1>2, <1>3, HeadOf, NewWork DEF EdgeInv, EdgeTypes

\* A new order keeps the programs.
LEMMA CreateEdge ==
    ASSUME EdgeInv, NEW c \in Callers, NEW type \in {"retrieve", "move", "store"},
           NEW slot \in Slots \cup {NoSlot}, NEW auto \in BOOLEAN,
           CreateOrder(c, type, slot, auto)
    PROVE  EdgeInv'
<1> DEFINE o == Len(orders) + 1
           w == CreateSteps(type, o)
           row == NewOrder(type, slot, auto)
<1>1. /\ orders' = Append(orders, row) /\ Goes(c, w) /\ UNCHANGED <<slots, sent>>
  BY DEF CreateOrder, CreateSteps
<1>2. orders \in Seq(OrderRow)
  BY DEF EdgeInv, EdgeTypes
<1>3. row \in OrderRow
  BY DEF NewOrder, OrderRow, OrderStatus
<1> HIDE DEF row
<1>4. /\ o \in Nat /\ orders' \in Seq(OrderRow)
      /\ OrderIds \subseteq OrderIds' /\ o \in OrderIds'
  BY <1>1, <1>2, <1>3 DEF OrderIds
<1>5. Program(w, o)
  BY <1>4, CreateBegins
<1> HIDE DEF o, w
<1>6. QED
  BY <1>1, <1>4, <1>5, NewWork DEF EdgeInv, EdgeTypes

\* A command or an answer that begins keeps the programs.
LEMMA BeginEdge ==
    ASSUME EdgeInv, NEW c \in Callers, NEW o \in OrderIds, NEW w, Begins(w, o),
           Goes(c, w), UNCHANGED <<orders, slots, sent>>
    PROVE  EdgeInv'
<1>1. OrderIds' = OrderIds
  BY DEF OrderIds
<1>2. QED
  BY <1>1, NewWork DEF EdgeInv, EdgeTypes, Begins

\* Types and work stay right whatever overlaps.
LEMMA EdgeInvStep ==
    ASSUME EdgeInv, NEW c \in Callers, EdgeAction(c)
    PROVE  EdgeInv'
<1>1. CASE Statements(c)
  BY <1>1, DecideEdge, WriteEdge, CountEdge, EnqueueEdge, RefillEdge DEF Statements
<1>2. CASE WebCreate(c)
  BY <1>2, CreateEdge, EdgeAssumption DEF WebCreate
<1>3. CASE WebOperate(c)
  <2>1. PICK command \in {"submit", "abort", "redirect", "confirm", "count"},
             o \in OrderIds :
             Goes(c, OrderSteps(command, o)) /\ UNCHANGED <<orders, slots, sent>>
    BY <1>3 DEF WebOperate
  <2>2. o \in Nat
    BY DEF EdgeInv, EdgeTypes, OrderIds
  <2>3. QED
    BY <2>1, <2>2, CommandBegins, BeginEdge
<1>4. CASE /\ c = "reader"
           /\ \E o \in OrderIds,
                 reply \in {"ack", "waybill", "update", "delivered", "error", "cancelled"} :
                 HandleReply(o, reply)
  <2>1. PICK o \in OrderIds,
             reply \in {"ack", "waybill", "update", "delivered", "error", "cancelled"} :
             Goes(c, HandleDispatchReply(o, reply)) /\ UNCHANGED <<orders, slots, sent>>
    BY <1>4 DEF HandleReply
  <2>2. o \in Nat
    BY DEF EdgeInv, EdgeTypes, OrderIds
  <2>3. QED
    BY <2>1, <2>2, ReplyBegins, BeginEdge
<1>5. CASE \E s \in Slots, auto \in AutoConfirm : CreateOrder(c, "retrieve", s, auto)
  BY <1>5, CreateEdge, EdgeAssumption
<1>6. QED
  BY <1>1, <1>2, <1>3, <1>4, <1>5 DEF EdgeAction

\* At the start no goroutine has anything left.
LEMMA EdgeInvInit ==
    ASSUME EdgeInit
    PROVE  EdgeInv
<1>1. \A c \in Callers : work[c] = << >>
  BY DEF EdgeInit
<1>2. WorkInv
  BY <1>1, NothingLeft DEF WorkInv, GoodWork
<1>3. slots \in [Slots -> SlotRow]
  <2>1. Units \in 0..Units /\ "active" \in SlotStatus /\ TRUE \in BOOLEAN
    BY EdgeAssumption DEF SlotStatus
  <2>2. [remaining : {Units}, status : {"active"}, point : Points, auto : {TRUE}]
          \subseteq SlotRow
    BY <2>1 DEF SlotRow
  <2>3. QED
    BY <2>2 DEF EdgeInit
<1>4. orders \in Seq(OrderRow) /\ sent \in Seq([order : Nat, kind : MessageKind])
  BY DEF EdgeInit
<1>5. work \in [Callers -> Seq(Step)]
  BY DEF EdgeInit
<1>6. \A i \in DOMAIN sent : sent[i].order \in OrderIds
  BY DEF EdgeInit
<1>7. QED
  BY <1>2, <1>3, <1>4, <1>5, <1>6 DEF EdgeInv, EdgeTypes

-----------------------------------------------------------------------------
(* What a step leaves alone, whatever overlaps.                            *)

\* The fields of an order that an operation keeps.
Kept(o) == orders'[o].type = orders[o].type /\ orders'[o].slot = orders[o].slot

\* Only a write changes the status of an order.
LEMMA RowsKept ==
    ASSUME EdgeInv, NEW c \in Callers, EdgeAction(c), NEW o \in OrderIds
    PROVE  /\ o \in OrderIds' /\ Kept(o)
           /\ \/ orders'[o].status = orders[o].status
              \/ /\ WriteStatus(c) /\ work[c] # << >> /\ work[c][1].do = "write"
                 /\ o = Owner(work[c])
                 /\ orders'[o].status = work[c][1].arg
<1>0. orders \in Seq(OrderRow) /\ o \in DOMAIN orders /\ orders[o] \in OrderRow
  BY DEF EdgeInv, EdgeTypes, OrderIds
<1>1. CASE UNCHANGED orders
  BY <1>1 DEF OrderIds, Kept
<1>2. CASE WriteStatus(c)
  <2>1. work[c] # << >> /\ Head(work[c]).do = "write"
    BY <1>2 DEF WriteStatus, At
  <2>2. Head(work[c]) = work[c][1] /\ Head(work[c]).order = Owner(work[c])
    BY <2>1, HeadOf
  <2>3. orders' = [orders EXCEPT ![Owner(work[c])].status = work[c][1].arg]
    BY <1>2, <2>2 DEF WriteStatus
  <2>4. QED
    BY <1>0, <1>2, <2>1, <2>2, <2>3 DEF OrderIds, Kept, OrderRow
<1>3. CASE UpdateOrderFinalCount(c)
  <2>1. PICK p : orders' = [orders EXCEPT ![p].counted = TRUE]
    BY <1>3 DEF UpdateOrderFinalCount
  <2>2. QED
    BY <1>0, <2>1 DEF OrderIds, Kept, OrderRow
<1>4. ASSUME NEW type, NEW slot, NEW auto, CreateOrder(c, type, slot, auto)
      PROVE  o \in OrderIds' /\ orders'[o] = orders[o]
  <2>1. orders' = Append(orders, NewOrder(type, slot, auto))
    BY <1>4 DEF CreateOrder
  <2>2. QED
    BY <1>0, <2>1 DEF OrderIds
<1>5. UNCHANGED orders \/ WriteStatus(c) \/ UpdateOrderFinalCount(c)
        \/ \E type, slot, auto : CreateOrder(c, type, slot, auto)
  BY DEF EdgeAction, Statements, Decide, EnqueueOutbox, ResetPayload, WebCreate,
         WebOperate, HandleReply
<1>6. QED
  BY <1>1, <1>2, <1>3, <1>4, <1>5 DEF Kept

\* Only the caller's work changes.
LEMMA OthersWork ==
    ASSUME EdgeInv, NEW c \in Callers, EdgeAction(c), NEW d \in Callers, d # c
    PROVE  work'[d] = work[d]
<1>1. \E w : Goes(c, w)
  BY DEF EdgeAction, Statements, Decide, WriteStatus, UpdateOrderFinalCount,
         EnqueueOutbox, ResetPayload, WebCreate, WebOperate, HandleReply, CreateOrder
<1>2. QED
  BY <1>1 DEF Goes, EdgeInv, EdgeTypes

\* Messages are only added, and by the goroutine that enqueues.
LEMMA SaidKept ==
    ASSUME EdgeInv, NEW c \in Callers, EdgeAction(c)
    PROVE  \A p, kind :
              Said(p, kind)' <=>
                 \/ Said(p, kind)
                 \/ /\ EnqueueOutbox(c) /\ work[c] # << >>
                    /\ p = Owner(work[c]) /\ kind = work[c][1].arg
<1>1. CASE UNCHANGED sent
  <2>1. ~EnqueueOutbox(c)
    <3>1. sent \in Seq([order : Nat, kind : MessageKind])
      BY DEF EdgeInv, EdgeTypes
    <3>2. QED
      BY <1>1, <3>1 DEF EnqueueOutbox
  <2>2. \A p, kind : Said(p, kind)' <=> Said(p, kind)
    BY <1>1 DEF Said
  <2>3. QED
    BY <2>1, <2>2
<1>2. CASE EnqueueOutbox(c)
  <2>1. work[c] # << >>
    BY <1>2 DEF EnqueueOutbox, At
  <2>2. PICK o, k : o = Owner(work[c]) /\ k = work[c][1].arg
    OBVIOUS
  <2>3. sent' = Append(sent, [order |-> o, kind |-> k])
    BY <1>2, <2>1, <2>2, HeadOf DEF EnqueueOutbox
  <2>4. sent \in Seq([order : Nat, kind : MessageKind])
    BY DEF EdgeInv, EdgeTypes
  <2>5. /\ DOMAIN sent' = 1 .. Len(sent) + 1 /\ DOMAIN sent = 1 .. Len(sent)
        /\ Len(sent) \in Nat
        /\ sent'[Len(sent) + 1] = [order |-> o, kind |-> k]
        /\ \A i \in 1 .. Len(sent) : sent'[i] = sent[i]
    BY <2>3, <2>4
  <2>6. ASSUME NEW p, NEW kind
        PROVE  Said(p, kind)' <=> Said(p, kind) \/ (p = o /\ kind = k)
    <3> DEFINE m == [order |-> p, kind |-> kind]
               n == [order |-> o, kind |-> k]
    <3>1. Said(p, kind)' <=> \E i \in DOMAIN sent' : sent'[i] = m
      BY DEF Said
    <3>2. Said(p, kind) <=> \E i \in DOMAIN sent : sent[i] = m
      BY DEF Said
    <3>3. m = n <=> p = o /\ kind = k
      OBVIOUS
    <3> HIDE DEF m, n
    <3>4. sent'[Len(sent) + 1] = n
      BY <2>5 DEF n
    <3>5. (\E i \in DOMAIN sent' : sent'[i] = m) <=> (\E i \in DOMAIN sent : sent[i] = m) \/ m = n
      BY <2>5, <3>4
    <3>6. QED
      BY <3>1, <3>2, <3>3, <3>5
  <2>7. QED
    BY <1>2, <2>1, <2>2, <2>6
<1>3. UNCHANGED sent \/ EnqueueOutbox(c)
  BY DEF EdgeAction, Statements, Decide, WriteStatus, UpdateOrderFinalCount,
       ResetPayload, WebCreate, WebOperate, HandleReply, CreateOrder
<1>4. QED
  BY <1>1, <1>2, <1>3

-----------------------------------------------------------------------------
(* OrderInv is inductive while operations on one order do not overlap.     *)

\* No other caller works on order o.
Free(c, o) == \A d \in Callers \ {c} : work[d] # << >> => Owner(work[d]) # o

\* What is left still fits the row when nothing more was said.
LEMMA FitsStay ==
    ASSUME NEW w, NEW p, NEW row, FitsAs(w, p, row),
           \A kind : Said(p, kind)' <=> Said(p, kind)
    PROVE  FitsAs(w, p, row)'
BY DEF FitsAs

\* A step of c on order o alone leaves the invariant true of the rest.
LEMMA OnlyHere ==
    ASSUME OrderInv, NEW c \in Callers, NEW o, NEW w,
           Free(c, o), work[c] # << >> => Owner(work[c]) = o,
           Program(w, o), Goes(c, w), OrderIds' \subseteq OrderIds \cup {o},
           \A p \in OrderIds \ {o} : orders'[p] = orders[p],
           \A p \in OrderIds \ {o} : \A kind : Said(p, kind)' <=> Said(p, kind),
           w # << >> => FitsAs(w, o, orders[o])',
           o \in OrderIds' => SaidFits(o)'
    PROVE  Exclusive' /\ FitsInv' /\ SaidInv'
<1>1. w # << >> => Owner(w) = o
  <2>1. w # << >> => 1 \in 1..Len(w)
    BY EmptySeq DEF Program, Chain
  <2>2. QED
    BY <2>1 DEF Owner, Program, Chain
<1>2. /\ work'[c] = w
      /\ \A d \in Callers \ {c} : work'[d] = work[d]
  BY DEF Goes, OrderInv, EdgeInv, EdgeTypes
<1>3. Exclusive'
  <2> SUFFICES ASSUME NEW d \in Callers, NEW e \in Callers,
                      work'[d] # << >>, work'[e] # << >>,
                      Owner(work'[d]) = Owner(work'[e])
               PROVE  d = e
    BY DEF Exclusive, Owner
  <2>1. CASE d = c /\ e # c
    BY <1>1, <1>2, <2>1 DEF Free
  <2>2. CASE d # c /\ e = c
    BY <1>1, <1>2, <2>2 DEF Free
  <2>3. CASE d # c /\ e # c
    BY <1>2, <2>3 DEF OrderInv, Exclusive
  <2>4. QED
    BY <2>1, <2>2, <2>3
<1>4. FitsInv'
  <2> SUFFICES ASSUME NEW d \in Callers PROVE Fits(work[d])'
    BY DEF FitsInv
  <2>1. CASE d = c
    BY <1>1, <1>2, <2>1 DEF Fits, Owner
  <2>2. CASE d # c /\ work[d] = << >>
    BY <1>2, <2>2 DEF Fits
  <2>3. CASE d # c /\ work[d] # << >>
    <3>1. PICK p, v, row : p = Owner(work[d]) /\ v = work[d] /\ row = orders[p]
      OBVIOUS
    <3>2. p # o /\ p \in OrderIds
      BY <2>3, <3>1 DEF Free, OrderInv, EdgeInv, WorkInv, GoodWork
    <3>3. FitsAs(v, p, row)
      BY <2>3, <3>1 DEF OrderInv, FitsInv, Fits
    <3>4. work'[d] = v /\ v[1].order = p /\ orders'[p] = row
      BY <1>2, <2>3, <3>1, <3>2 DEF Owner
    <3>5. \A kind : Said(p, kind)' <=> Said(p, kind)
      BY <3>2
    <3>6. FitsAs(v, p, row)'
      BY <3>3, <3>5, FitsStay
    <3>7. QED
      BY <3>4, <3>6 DEF Fits, FitsAs, Owner, Said
  <2>4. QED
    BY <2>1, <2>2, <2>3
<1>5. SaidInv'
  <2> SUFFICES ASSUME NEW p \in OrderIds', p # o PROVE SaidFits(p)'
    BY DEF SaidInv
  <2>1. p \in OrderIds /\ orders'[p] = orders[p] /\ SaidFits(p)
    BY DEF OrderInv, SaidInv
  <2>2. \A kind : Said(p, kind)' <=> Said(p, kind)
    BY <2>1
  <2>3. ASSUME NEW d \in Callers, Confirming(work[d], p)
        PROVE  Confirming(work[d], p)'
    <3>1. d # c
      BY <2>3 DEF Confirming, Owner
    <3>2. work'[d] = work[d]
      BY <1>2, <3>1
    <3>3. QED
      BY <2>3, <3>2 DEF Confirming
  <2>4. QED
    BY <2>1, <2>2, <2>3 DEF SaidFits
<1>6. QED
  BY <1>3, <1>4, <1>5

\* Who is at work on an order is alone with it.
LEMMA WorkerFree ==
    ASSUME OrderInv, NEW c \in Callers, work[c] # << >>
    PROVE  Free(c, Owner(work[c]))
BY DEF OrderInv, Exclusive, Free

\* An order nobody is busy with is free.
LEMMA IdleFree ==
    ASSUME OrderInv, NEW c \in Callers, NEW o, ~Busy(o)
    PROVE  Free(c, o)
<1> SUFFICES ASSUME NEW d \in Callers \ {c}, work[d] # << >> PROVE Owner(work[d]) # o
  BY DEF Free
<1>1. work[d] \in Seq(Step)
  BY DEF OrderInv, EdgeInv, EdgeTypes
<1>2. 1 \in DOMAIN work[d]
  BY <1>1, EmptySeq
<1>3. QED
  BY <1>2 DEF Busy, Owner

\* The goroutine c works on order o and has v left to do.
Working(c, o, v) ==
    /\ v = work[c] /\ o = Owner(work[c]) /\ o \in Nat /\ Free(c, o)
    /\ Head(work[c]) = v[1] /\ v[1].order = o /\ v[1] \in Step
    /\ Program(v, o) /\ v # << >> /\ Program(Tail(v), o)
    /\ Tail(v) # << >> =>
          Len(v) > 1 /\ Tail(v)[1] = v[2] /\ After(v[1], v[2])
    /\ Len(Tail(v)) > 1 => Tail(v)[2] = v[3] /\ After(v[2], v[3])
    /\ Tail(v) = << >> => ~Unfinished(v[1])
    /\ FitsAs(v, o, orders[o]) /\ SaidFits(o)

\* The statements of a goroutine: its order, its work and what is next.
LEMMA AtWork ==
    ASSUME OrderInv, NEW c \in Callers, work[c] # << >>
    PROVE  \E o \in OrderIds, v \in Seq(Step) : Working(c, o, v)
<1> DEFINE o == Owner(work[c])
           v == work[c]
<1>1. /\ o \in OrderIds /\ o \in Nat /\ Program(v, o)
      /\ Head(v) = v[1] /\ v[1].order = o /\ v[1] \in Step /\ Program(Tail(v), o)
  BY HeadOf DEF OrderInv
<1>2. Free(c, o) /\ FitsAs(v, o, orders[o]) /\ SaidFits(o)
  BY <1>1, WorkerFree DEF OrderInv, FitsInv, Fits, SaidInv
<1>3. v \in Seq(Step)
  BY <1>1 DEF Program, Chain
<1>4. /\ Tail(v) # << >> => Len(v) > 1 /\ Tail(v)[1] = v[2] /\ After(v[1], v[2])
      /\ Tail(v) = << >> => ~Unfinished(v[1])
      /\ Len(Tail(v)) > 1 => Tail(v)[2] = v[3]
      /\ Len(Tail(v)) = Len(v) - 1 /\ Len(v) \in Nat
  BY <1>1, TailChain
<1>5. Len(Tail(v)) > 1 => After(v[2], v[3])
  BY <1>1, <1>4 DEF Program, Chain
<1> HIDE DEF o, v
<1>6. v = work[c] /\ o = Owner(work[c])
  BY DEF o, v
<1>7. QED
  BY <1>1, <1>2, <1>3, <1>4, <1>5, <1>6 DEF Working

\* Where a step changes neither the order nor what was said of it.
LEMMA SaidStays ==
    ASSUME NEW o, SaidFits(o), orders'[o].status = orders[o].status, UNCHANGED sent,
           \A c \in Callers : Confirming(work[c], o) =>
              \E d \in Callers : Confirming(work[d], o)'
    PROVE  SaidFits(o)'
BY DEF SaidFits, Said

\* A check keeps what is known of the orders at work.
LEMMA DecideOrder ==
    ASSUME OrderInv, NEW c \in Callers, Decide(c)
    PROVE  Exclusive' /\ FitsInv' /\ SaidInv'
<1>1. work[c] # << >> /\ UNCHANGED <<orders, slots, sent>>
  BY DEF Decide, At
<1>2. PICK o \in OrderIds, v \in Seq(Step) : Working(c, o, v)
  BY <1>1, AtWork
<1> USE DEF Working
<1> DEFINE passes ==
             CASE v[1].do = "unless_over"  -> ~IsTerminal(orders[o].status)
               [] v[1].do = "if_delivered" -> orders[o].status = "delivered"
               [] v[1].do = "check" ->
                     /\ IsValidTransition(orders[o].status, v[1].arg)
                     /\ ~ /\ orders[o].type = "store" /\ v[1].arg = "submitted"
                          /\ ~orders[o].counted
<1>3. /\ v[1].do \in {"check", "unless_over", "if_delivered"}
      /\ Goes(c, IF passes THEN Tail(v) ELSE << >>)
  BY <1>2 DEF Decide, At
<1>4. PICK w : w = IF passes THEN Tail(v) ELSE << >>
  OBVIOUS
<1>5. Goes(c, w) /\ Program(w, o)
  BY <1>2, <1>3, <1>4, NothingLeft
<1>6. w # << >> => FitsAs(w, o, orders[o])'
  <2> SUFFICES ASSUME w # << >> PROVE FitsAs(w, o, orders[o])'
    OBVIOUS
  <2>1. /\ passes /\ w = Tail(v) /\ Len(v) > 1 /\ w[1] = v[2] /\ After(v[1], v[2])
        /\ Len(w) > 1 => w[2] = v[3] /\ After(v[2], v[3])
    BY <1>2, <1>4
  <2>2. (FitsAs(w, o, orders[o]))' <=> FitsAs(w, o, orders[o])
    BY <1>1 DEF FitsAs, Said
  <2>3. CASE v[1].do = "check"
    <3>1. w[1].do = "write" /\ w[1].arg = v[1].arg
      BY <2>1, <2>3 DEF After
    <3>2. IsValidTransition(orders[o].status, w[1].arg)
      BY <2>1, <2>3, <3>1
    <3>3. QED
      BY <2>2, <3>1, <3>2 DEF FitsAs
  <2>4. CASE v[1].do = "unless_over"
    <3>1. \/ w[1].do = "check" /\ w[1].arg = "cancelled"
          \/ w[1].do = "enqueue" /\ w[1].arg = "redirect"
      BY <2>1, <2>4 DEF After
    <3>2. ~IsTerminal(orders[o].status)
      BY <2>1, <2>4
    <3>3. QED
      BY <2>2, <3>1, <3>2 DEF FitsAs, Calls
  <2>5. CASE v[1].do = "if_delivered"
    <3>1. w[1].do = "count" /\ orders[o].status = "delivered"
      BY <2>1, <2>5 DEF After
    <3>2. ASSUME Said(o, "receipt") PROVE FALSE
      <4>1. PICK d \in Callers : Confirming(work[d], o)
        BY <1>2, <3>1, <3>2 DEF SaidFits
      <4>2. d # c
        BY <1>2, <2>5, <4>1 DEF Confirming
      <4>3. QED
        BY <1>2, <4>1, <4>2 DEF Free, Confirming, Owner
    <3>3. QED
      BY <2>2, <3>1, <3>2 DEF FitsAs
  <2>6. QED
    BY <1>3, <2>3, <2>4, <2>5
<1>7. SaidFits(o)'
  <2>1. ASSUME NEW d \in Callers, Confirming(work[d], o)
        PROVE  \E e \in Callers : Confirming(work[e], o)'
    <3>1. d = c
      BY <1>2, <2>1 DEF Free, Confirming, Owner
    <3>2. v[1].do = "check" /\ v[1].arg = "confirmed"
      BY <1>2, <1>3, <2>1, <3>1 DEF Confirming
    <3>3. orders[o].status = "delivered"
      BY <1>2, <3>2 DEF FitsAs
    <3>4. passes
      BY <3>2, <3>3 DEF IsValidTransition
    <3>5. w = Tail(v) /\ w # << >> /\ w[1] = v[2] /\ After(v[1], v[2])
      BY <1>2, <1>4, <3>2, <3>4 DEF Unfinished
    <3>6. w[1].do = "write" /\ w[1].arg = "confirmed"
      BY <3>2, <3>5 DEF After
    <3>7. w[1].order = o
      <4>1. 1 \in 1..Len(w)
        BY <1>5, <3>5, EmptySeq DEF Program, Chain
      <4>2. QED
        BY <1>5, <4>1 DEF Program, Chain
    <3>8. work'[c] = w
      BY <1>5 DEF Goes, OrderInv, EdgeInv, EdgeTypes
    <3>9. QED
      BY <3>5, <3>6, <3>7, <3>8 DEF Confirming
  <2>2. QED
    BY <1>1, <1>2, <2>1, SaidStays
<1>8. /\ OrderIds' \subseteq OrderIds \cup {o}
      /\ \A p \in OrderIds \ {o} : orders'[p] = orders[p]
      /\ \A p \in OrderIds \ {o} : \A kind : Said(p, kind)' <=> Said(p, kind)
  BY <1>1 DEF OrderIds, Said
<1>9. QED
  BY <1>2, <1>5, <1>6, <1>7, <1>8, OnlyHere

\* A status written keeps what is known of the orders at work.
LEMMA WriteOrder ==
    ASSUME OrderInv, NEW c \in Callers, WriteStatus(c)
    PROVE  Exclusive' /\ FitsInv' /\ SaidInv'
<1>1. work[c] # << >> /\ Head(work[c]).do = "write" /\ UNCHANGED <<slots, sent>>
  BY DEF WriteStatus, At
<1>2. PICK o \in OrderIds, v \in Seq(Step) : Working(c, o, v)
  BY <1>1, AtWork
<1> USE DEF Working
<1>3. PICK s, row, w : s = v[1].arg /\ row = orders[o] /\ w = AfterWrite(o, s, v)
  OBVIOUS
<1>4. v[1].do = "write" /\ s \in OrderStatus
  BY <1>1, <1>2, <1>3 DEF Step
<1>5. orders' = [orders EXCEPT ![o].status = s] /\ Goes(c, w)
  BY <1>2, <1>3 DEF WriteStatus, AfterWrite
<1>6. orders \in Seq(OrderRow) /\ row \in OrderRow
  BY <1>3 DEF OrderInv, EdgeInv, EdgeTypes, OrderIds
<1>7. /\ orders'[o] = [row EXCEPT !.status = s]
      /\ OrderIds' = OrderIds /\ \A p \in OrderIds \ {o} : orders'[p] = orders[p]
  BY <1>3, <1>5, <1>6 DEF OrderIds
<1>8. /\ orders'[o].status = s /\ orders'[o].type = row.type
      /\ orders'[o].slot = row.slot
  BY <1>6, <1>7 DEF OrderRow
<1>9. IsValidTransition(row.status, s)
  BY <1>2, <1>3, <1>4 DEF FitsAs
<1>10. /\ Program(w, o)
       /\ \/ ~Completes(o, s) /\ w = Tail(v)
          \/ ~Completes(o, s) /\ w = ConfirmSteps(o) /\ s = "delivered"
          \/ /\ Completes(o, s)
             /\ w # << >> /\ w[1] = Statement("refill", o, "none")
             /\ Len(w) > 1 => s = "cancelled"
  BY <1>2, <1>3, <1>4, WriteGoes
<1>11. \A p, kind : Said(p, kind)' <=> Said(p, kind)
  BY <1>1 DEF Said
<1>12. s = "cancelled" => ~Said(o, "cancel")
  BY <1>2, <1>3, <1>9 DEF SaidFits, IsValidTransition, IsTerminal
<1>13. s = "submitted" => ~Said(o, "waybill")
  BY <1>2, <1>3, <1>9 DEF SaidFits, IsValidTransition
<1>14. w # << >> => FitsAs(w, o, orders[o])'
  <2> SUFFICES ASSUME w # << >> PROVE FitsAs(w, o, orders[o])'
    OBVIOUS
  <2>1. CASE w = Tail(v)
    <3>1. w[1] = v[2] /\ After(v[1], v[2])
      BY <1>2, <2>1
    <3>2. /\ w[1].do = "enqueue"
          /\ \/ s = "submitted" /\ w[1].arg = "waybill"
             \/ s = "cancelled" /\ w[1].arg = "cancel"
      BY <1>3, <1>4, <3>1 DEF After
    <3>3. ~Said(o, w[1].arg)' /\ Calls(orders'[o].status, w[1].arg)
      BY <1>8, <1>11, <1>12, <1>13, <3>2 DEF Calls
    <3>4. QED
      BY <3>2, <3>3 DEF FitsAs, Calls
  <2>2. CASE w = ConfirmSteps(o)
    <3>1. w[1].do = "if_delivered"
      <4>1. w[1] = Statement("if_delivered", o, "none")
        BY <1>2, <2>2, ConfirmProgram
      <4>2. QED
        BY <4>1 DEF Statement
    <3>2. QED
      BY <3>1 DEF FitsAs
  <2>3. CASE /\ Completes(o, s) /\ w[1] = Statement("refill", o, "none")
             /\ Len(w) > 1 => s = "cancelled"
    <3>1. w[1].do = "refill"
      <4>1. w[1] = Statement("refill", o, "none")
        BY <2>3
      <4>2. QED
        BY <4>1 DEF Statement
    <3>2. IsTerminal(s) /\ row.slot # NoSlot /\ row.type = "retrieve"
      BY <1>3, <2>3 DEF Completes
    <3>3. s = "cancelled" => ~Said(o, "cancel")'
      BY <1>11, <1>12
    <3>4. QED
      BY <1>8, <2>3, <3>1, <3>2, <3>3 DEF FitsAs, IsTerminal
  <2>4. QED
    BY <1>10, <2>1, <2>2, <2>3
<1>15. SaidFits(o)'
  <2>1. s # "pending"
    BY <1>9 DEF IsValidTransition
  <2>2. ~Said(o, "cancel")
    BY <1>2, <1>3, <1>9 DEF SaidFits, IsValidTransition, IsTerminal
  <2>3. ASSUME Said(o, "receipt") PROVE s = "confirmed"
    <3>1. row.status # "confirmed"
      BY <1>9 DEF IsValidTransition, IsTerminal
    <3>2. PICK d \in Callers : Confirming(work[d], o)
      BY <1>2, <1>3, <2>3, <3>1 DEF SaidFits
    <3>3. d = c
      BY <1>2, <3>2 DEF Free, Confirming, Owner
    <3>4. QED
      BY <1>2, <1>3, <3>2, <3>3 DEF Confirming
  <2>4. /\ (Said(o, "cancel"))' <=> Said(o, "cancel")
        /\ (Said(o, "receipt"))' <=> Said(o, "receipt")
    BY <1>11
  <2>5. QED
    BY <1>8, <2>1, <2>2, <2>3, <2>4 DEF SaidFits
<1>16. QED
  BY <1>2, <1>5, <1>7, <1>10, <1>11, <1>14, <1>15, OnlyHere

\* A final count keeps what is known of the orders at work.
LEMMA CountOrder ==
    ASSUME OrderInv, NEW c \in Callers, UpdateOrderFinalCount(c)
    PROVE  Exclusive' /\ FitsInv' /\ SaidInv'
<1>1. /\ work[c] # << >> /\ Head(work[c]).do = "count" /\ UNCHANGED <<slots, sent>>
      /\ Goes(c, Tail(work[c]))
  BY DEF UpdateOrderFinalCount, At
<1>2. PICK o \in OrderIds, v \in Seq(Step) : Working(c, o, v)
  BY <1>1, AtWork
<1> USE DEF Working
<1>3. PICK row, w : row = orders[o] /\ w = Tail(v)
  OBVIOUS
<1>4. v[1].do = "count" /\ Goes(c, w) /\ Program(w, o)
  BY <1>1, <1>2, <1>3
<1>5. orders' = [orders EXCEPT ![o].counted = TRUE]
  BY <1>2 DEF UpdateOrderFinalCount
<1>6. orders \in Seq(OrderRow) /\ row \in OrderRow
  BY <1>3 DEF OrderInv, EdgeInv, EdgeTypes, OrderIds
<1>7. /\ orders'[o] = [row EXCEPT !.counted = TRUE]
      /\ OrderIds' = OrderIds /\ \A p \in OrderIds \ {o} : orders'[p] = orders[p]
  BY <1>3, <1>5, <1>6 DEF OrderIds
<1>8. orders'[o].status = row.status
  BY <1>6, <1>7 DEF OrderRow
<1>9. \A p, kind : Said(p, kind)' <=> Said(p, kind)
  BY <1>1 DEF Said
<1>10. w # << >> => FitsAs(w, o, orders[o])'
  <2> SUFFICES ASSUME w # << >> PROVE FitsAs(w, o, orders[o])'
    OBVIOUS
  <2>1. Len(v) > 1 /\ w[1] = v[2] /\ After(v[1], v[2])
    BY <1>2, <1>3
  <2>2. \/ w[1].do = "check" /\ w[1].arg = "submitted"
        \/ w[1].do = "enqueue" /\ w[1].arg = "receipt"
    BY <1>4, <2>1 DEF After
  <2>3. w[1].do = "enqueue" => row.status = "delivered" /\ ~Said(o, "receipt")
    BY <1>2, <1>3, <1>4, <2>1 DEF FitsAs
  <2>4. (Said(o, "receipt"))' <=> Said(o, "receipt")
    BY <1>9
  <2>5. w[1].do = "enqueue" =>
          Calls(orders'[o].status, w[1].arg) /\ ~Said(o, w[1].arg)'
    BY <1>8, <2>2, <2>3, <2>4 DEF Calls
  <2>6. QED
    BY <2>2, <2>5 DEF FitsAs, Calls
<1>11. SaidFits(o)'
  <2>1. ASSUME NEW d \in Callers, Confirming(work[d], o) PROVE FALSE
    BY <1>2, <1>4, <2>1 DEF Free, Confirming, Owner
  <2>2. QED
    BY <1>1, <1>2, <1>3, <1>8, <2>1, SaidStays
<1>12. QED
  BY <1>2, <1>4, <1>7, <1>9, <1>10, <1>11, OnlyHere

\* A refill keeps what is known of the orders at work.
LEMMA RefillOrder ==
    ASSUME OrderInv, NEW c \in Callers, ResetPayload(c)
    PROVE  Exclusive' /\ FitsInv' /\ SaidInv'
<1>1. /\ work[c] # << >> /\ Head(work[c]).do = "refill" /\ UNCHANGED <<orders, sent>>
      /\ Goes(c, Tail(work[c]))
  BY DEF ResetPayload, At
<1>2. PICK o \in OrderIds, v \in Seq(Step) : Working(c, o, v)
  BY <1>1, AtWork
<1> USE DEF Working
<1>3. PICK w : w = Tail(v)
  OBVIOUS
<1>4. v[1].do = "refill" /\ Goes(c, w) /\ Program(w, o)
  BY <1>1, <1>2, <1>3
<1>5. \A p, kind : Said(p, kind)' <=> Said(p, kind)
  BY <1>1 DEF Said
<1>6. w # << >> => FitsAs(w, o, orders[o])'
  <2> SUFFICES ASSUME w # << >> PROVE FitsAs(w, o, orders[o])'
    OBVIOUS
  <2>1. Len(v) > 1 /\ w[1] = v[2] /\ After(v[1], v[2])
    BY <1>2, <1>3
  <2>2. w[1].do = "enqueue" /\ w[1].arg = "cancel"
    BY <1>4, <2>1 DEF After
  <2>3. orders[o].status = "cancelled" /\ ~Said(o, "cancel")
    BY <1>2, <1>4, <2>1 DEF FitsAs
  <2>4. Calls(orders'[o].status, w[1].arg) /\ ~Said(o, w[1].arg)'
    BY <1>1, <1>5, <2>2, <2>3 DEF Calls
  <2>5. QED
    BY <2>2, <2>4 DEF FitsAs
<1>7. SaidFits(o)'
  <2>1. ASSUME NEW d \in Callers, Confirming(work[d], o) PROVE FALSE
    BY <1>2, <1>4, <2>1 DEF Free, Confirming, Owner
  <2>2. QED
    BY <1>1, <1>2, <2>1, SaidStays
<1>8. /\ OrderIds' \subseteq OrderIds \cup {o}
      /\ \A p \in OrderIds \ {o} : orders'[p] = orders[p]
  BY <1>1 DEF OrderIds
<1>9. QED
  BY <1>2, <1>4, <1>5, <1>6, <1>7, <1>8, OnlyHere

\* A message enqueued keeps what is known of the orders at work.
LEMMA EnqueueOrder ==
    ASSUME OrderInv, NEW c \in Callers, EnqueueOutbox(c)
    PROVE  Exclusive' /\ FitsInv' /\ SaidInv'
<1>1. /\ work[c] # << >> /\ Head(work[c]).do = "enqueue" /\ UNCHANGED <<orders, slots>>
      /\ Goes(c, Tail(work[c]))
  BY DEF EnqueueOutbox, At
<1>2. PICK o \in OrderIds, v \in Seq(Step) : Working(c, o, v)
  BY <1>1, AtWork
<1> USE DEF Working
<1>3. PICK w, k, row : w = Tail(v) /\ k = v[1].arg /\ row = orders[o]
  OBVIOUS
<1>4. v[1].do = "enqueue" /\ Goes(c, w) /\ Program(w, o)
  BY <1>1, <1>2, <1>3
<1>8. \A p, kind : Said(p, kind)' <=> Said(p, kind) \/ (p = o /\ kind = k)
  BY <1>1, <1>2, <1>3, SaidKept DEF EdgeAction, Statements, OrderInv
<1>9. Calls(row.status, k) /\ (k = "redirect" \/ ~Said(o, k))
  BY <1>2, <1>3, <1>4 DEF FitsAs
<1>10. w # << >> => FitsAs(w, o, orders[o])'
  <2> SUFFICES ASSUME w # << >> PROVE FitsAs(w, o, orders[o])'
    OBVIOUS
  <2>1. w[1] = v[2] /\ After(v[1], v[2])
    BY <1>2, <1>3
  <2>2. /\ w[1].do = "check"
        /\ \/ w[1].arg = "submitted"
           \/ k = "receipt" /\ w[1].arg = "confirmed"
    BY <1>3, <1>4, <2>1 DEF After
  <2>3. w[1].arg = "confirmed" => orders'[o].status = "delivered"
    BY <1>1, <1>3, <1>9, <2>2 DEF Calls
  <2>4. QED
    BY <2>2, <2>3 DEF FitsAs
<1>11. SaidFits(o)'
  <2>1. orders'[o].status = row.status
    BY <1>1, <1>3
  <2>2. ASSUME row.status = "pending" PROVE ~Said(o, "waybill")'
    <3>1. k # "waybill"
      BY <1>9, <2>2 DEF Calls
    <3>2. QED
      BY <1>2, <1>3, <1>8, <2>2, <3>1 DEF SaidFits
  <2>3. ASSUME Said(o, "cancel")' PROVE row.status = "cancelled"
    <3>1. Said(o, "cancel") \/ k = "cancel"
      BY <1>8, <2>3
    <3>2. QED
      BY <1>2, <1>3, <1>9, <3>1 DEF SaidFits, Calls
  <2>4. ASSUME Said(o, "receipt")'
        PROVE  row.status = "confirmed" \/ \E d \in Callers : Confirming(work[d], o)'
    <3>1. CASE k = "receipt"
      <4>1. w # << >> /\ w[1] = v[2] /\ After(v[1], v[2])
        BY <1>2, <1>3, <1>4, <3>1 DEF Unfinished
      <4>2. w[1].do = "check" /\ w[1].arg = "confirmed"
        BY <1>3, <1>4, <3>1, <4>1 DEF After
      <4>3. 1 \in 1..Len(w)
        BY <1>4, <4>1, EmptySeq DEF Program, Chain
      <4>4. w[1].order = o
        BY <1>4, <4>3 DEF Program, Chain
      <4>5. work'[c] = w
        BY <1>4 DEF Goes, OrderInv, EdgeInv, EdgeTypes
      <4>6. QED
        BY <4>1, <4>2, <4>4, <4>5 DEF Confirming
    <3>2. CASE k # "receipt"
      <4>1. Said(o, "receipt")
        BY <1>8, <2>4, <3>2
      <4>2. ASSUME NEW d \in Callers, Confirming(work[d], o) PROVE FALSE
        BY <1>2, <1>4, <4>2 DEF Free, Confirming, Owner
      <4>3. QED
        BY <1>2, <1>3, <4>1, <4>2 DEF SaidFits
    <3>3. QED
      BY <3>1, <3>2
  <2>5. QED
    BY <2>1, <2>2, <2>3, <2>4 DEF SaidFits
<1>12. /\ OrderIds' \subseteq OrderIds \cup {o}
       /\ \A p \in OrderIds \ {o} : orders'[p] = orders[p]
       /\ \A p \in OrderIds \ {o} : \A kind : Said(p, kind)' <=> Said(p, kind)
  BY <1>1, <1>8 DEF OrderIds
<1>13. QED
  BY <1>2, <1>4, <1>10, <1>11, <1>12, OnlyHere

\* A new order keeps what is known of the orders at work.
LEMMA CreateOrderOrder ==
    ASSUME OrderInv, NEW c \in Callers, NEW type, NEW slot, NEW auto,
           CreateOrder(c, type, slot, auto)
    PROVE  Exclusive' /\ FitsInv' /\ SaidInv'
<1>1. PICK o, w : o = Len(orders) + 1 /\ w = CreateSteps(type, o)
  OBVIOUS
<1>2. /\ work[c] = << >> /\ orders' = Append(orders, NewOrder(type, slot, auto))
      /\ Goes(c, w) /\ UNCHANGED <<slots, sent>>
  BY <1>1 DEF CreateOrder, CreateSteps
<1>3. /\ orders \in Seq(OrderRow)
      /\ \A i \in DOMAIN sent : sent[i].order \in OrderIds
  BY DEF OrderInv, EdgeInv, EdgeTypes
<1>4. /\ o \in Nat /\ o \notin OrderIds /\ OrderIds' = OrderIds \cup {o}
      /\ orders'[o] = NewOrder(type, slot, auto)
      /\ \A p \in OrderIds \ {o} : orders'[p] = orders[p]
  BY <1>1, <1>2, <1>3 DEF OrderIds
<1>5. orders'[o].status = "pending"
  BY <1>4 DEF NewOrder
<1>6. \A p, kind : Said(p, kind)' <=> Said(p, kind)
  BY <1>2 DEF Said
<1>7. \A kind : ~Said(o, kind)
  BY <1>3, <1>4 DEF Said
<1>8. /\ Program(w, o) /\ w # << >>
      /\ \/ w[1] = Statement("enqueue", o, "request")
         \/ /\ w[1] = Statement("count", o, "none")
            /\ w[2] = Statement("check", o, "submitted")
  BY <1>1, <1>4, CreateBegins
<1>9. Free(c, o)
  BY <1>4 DEF Free, OrderInv, EdgeInv, WorkInv, GoodWork
<1>10. FitsAs(w, o, orders[o])'
  <2>1. CASE w[1] = Statement("enqueue", o, "request")
    <3>1. w[1].do = "enqueue" /\ w[1].arg = "request"
      BY <2>1, Fields
    <3>2. Calls(orders'[o].status, w[1].arg) /\ ~Said(o, w[1].arg)'
      BY <1>5, <1>6, <1>7, <3>1 DEF Calls
    <3>3. QED
      BY <3>1, <3>2 DEF FitsAs
  <2>2. CASE /\ w[1] = Statement("count", o, "none")
             /\ w[2] = Statement("check", o, "submitted")
    <3>1. w[1].do = "count"
      <4>1. w[1] = Statement("count", o, "none")
        BY <2>2
      <4>2. QED
        BY <4>1 DEF Statement
    <3>2. w[2].do = "check"
      <4>1. w[2] = Statement("check", o, "submitted")
        BY <2>2
      <4>2. QED
        BY <4>1 DEF Statement
    <3>3. QED
      BY <3>1, <3>2 DEF FitsAs
  <2>3. QED
    BY <1>8, <2>1, <2>2
<1>11. SaidFits(o)'
  <2>1. \A kind : ~Said(o, kind)'
    BY <1>6, <1>7
  <2>2. QED
    BY <1>5, <2>1 DEF SaidFits
<1>12. QED
  BY <1>2, <1>4, <1>6, <1>8, <1>9, <1>10, <1>11, OnlyHere

\* A command or an answer keeps it, if nobody else is at the order.
LEMMA BeginOrder ==
    ASSUME OrderInv, NEW c \in Callers, NEW o \in OrderIds, NEW w, Begins(w, o),
           work[c] = << >>, ~Busy(o), Goes(c, w), UNCHANGED <<orders, slots, sent>>
    PROVE  Exclusive' /\ FitsInv' /\ SaidInv'
<1>1. Free(c, o)
  BY IdleFree
<1>2. \A p, kind : Said(p, kind)' <=> Said(p, kind)
  BY DEF Said
<1>3. w # << >> => FitsAs(w, o, orders[o])'
  <2> SUFFICES ASSUME w # << >> PROVE FitsAs(w, o, orders[o])'
    OBVIOUS
  <2>1. \/ w[1].do \in {"unless_over", "if_delivered"}
        \/ w[1].do = "count" /\ ~(Len(w) > 1)
        \/ w[1].do = "check" /\ w[1].arg # "confirmed"
    <3>1. CASE w[1] \in {Statement("unless_over", o, "none"), Statement("if_delivered", o, "none")}
      BY <3>1 DEF Statement
    <3>2. CASE w[1] = Statement("count", o, "none") /\ Len(w) = 1
      BY <3>2 DEF Statement
    <3>3. ASSUME NEW s \in OrderStatus \ {"confirmed"}, w[1] = Statement("check", o, s)
          PROVE  w[1].do = "check" /\ w[1].arg # "confirmed"
      BY <3>3 DEF Statement
    <3>4. QED
      BY <3>1, <3>2, <3>3 DEF Begins
  <2>2. QED
    BY <2>1 DEF FitsAs
<1>4. SaidFits(o)'
  <2>1. ASSUME NEW d \in Callers, Confirming(work[d], o) PROVE FALSE
    BY <1>1, <2>1 DEF Free, Confirming, Owner
  <2>2. SaidFits(o)
    BY DEF OrderInv, SaidInv
  <2>3. QED
    BY <2>1, <2>2, SaidStays
<1>5. /\ OrderIds' \subseteq OrderIds \cup {o}
      /\ \A p \in OrderIds \ {o} : orders'[p] = orders[p]
  BY DEF OrderIds
<1>6. QED
  BY <1>1, <1>2, <1>3, <1>4, <1>5, OnlyHere DEF Begins

\* Where operations on one order do not overlap, what is at the head of every
\* goroutine's work fits its order, and what was said fits its status.
LEMMA OrderInvStep ==
    ASSUME OrderInv, "order" \notin Overlaps, NEW c \in Callers, EdgeAction(c)
    PROVE  OrderInv'
<1>1. EdgeInv'
  BY EdgeInvStep DEF OrderInv
<1>2. OrderIds \subseteq Nat
  BY DEF OrderInv, EdgeInv, EdgeTypes, OrderIds
<1>3. Exclusive' /\ FitsInv' /\ SaidInv'
  <2>1. CASE Statements(c)
    BY <2>1, DecideOrder, WriteOrder, CountOrder, EnqueueOrder, RefillOrder DEF Statements
  <2>2. CASE WebCreate(c)
    BY <2>2, CreateOrderOrder DEF WebCreate
  <2>3. CASE WebOperate(c)
    <3>1. PICK command \in {"submit", "abort", "redirect", "confirm", "count"},
               o \in OrderIds :
               /\ MayStart(c, o) /\ Goes(c, OrderSteps(command, o))
               /\ UNCHANGED <<orders, slots, sent>>
      BY <2>3 DEF WebOperate
    <3>2. PICK w : w = OrderSteps(command, o)
      OBVIOUS
    <3>3. Begins(w, o) /\ Goes(c, w) /\ work[c] = << >> /\ ~Busy(o)
      BY <1>2, <3>1, <3>2, CommandBegins DEF MayStart
    <3>4. QED
      BY <3>1, <3>3, BeginOrder
  <2>4. CASE /\ c = "reader"
             /\ \E o \in OrderIds,
                   reply \in {"ack", "waybill", "update", "delivered", "error", "cancelled"} :
                   HandleReply(o, reply)
    <3>1. PICK o \in OrderIds,
               reply \in {"ack", "waybill", "update", "delivered", "error", "cancelled"} :
               /\ MayStart(c, o) /\ Goes(c, HandleDispatchReply(o, reply))
               /\ UNCHANGED <<orders, slots, sent>>
      BY <2>4 DEF HandleReply
    <3>2. PICK w : w = HandleDispatchReply(o, reply)
      OBVIOUS
    <3>3. Begins(w, o) /\ Goes(c, w) /\ work[c] = << >> /\ ~Busy(o)
      BY <1>2, <3>1, <3>2, ReplyBegins DEF MayStart
    <3>4. QED
      BY <3>1, <3>3, BeginOrder
  <2>5. CASE \E s \in Slots, auto \in AutoConfirm : CreateOrder(c, "retrieve", s, auto)
    BY <2>5, CreateOrderOrder
  <2>6. QED
    BY <2>1, <2>2, <2>3, <2>4, <2>5 DEF EdgeAction
<1>4. QED
  BY <1>1, <1>3 DEF OrderInv

\* At the start nothing is at work and nothing was said.
LEMMA OrderInvInit ==
    ASSUME EdgeInit
    PROVE  OrderInv
<1>1. EdgeInv
  BY EdgeInvInit
<1>2. (\A c \in Callers : work[c] = << >>) /\ OrderIds = {}
  BY DEF EdgeInit, OrderIds
<1>3. QED
  BY <1>1, <1>2 DEF OrderInv, Exclusive, FitsInv, Fits, SaidInv
=============================================================================
