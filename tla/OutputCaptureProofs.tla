-------------------------- MODULE OutputCaptureProofs --------------------------
(***************************************************************************)
(* Theorems about OutputCapture, for any executions, any sizes of chunks,  *)
(* limit, queue and batch, and any number of batches that fail.            *)
(*                                                                         *)
(* The events of an execution move through four sequences: its task's      *)
(* outbox, its part of the queue, its part of the batch, and its log.      *)
(*                                                                         *)
(*   FlowInv    they are in order, and so is each before the next one      *)
(*   ExtentInv  none reaches past what was written, or past the limit      *)
(*   FlushInv   behind an answered barrier there is nothing                *)
(*   ClosedInv  a closed row has one "finished", last if it was flushed    *)
(*   WholeInv   together they hold all that was written, or a batch was    *)
(*              lost and a barrier has been refused or will be             *)
(***************************************************************************)
EXTENDS OutputCapture, SequenceTheorems, FiniteSetTheorems, TLAPS

Elems(s) == {s[i] : i \in 1 .. Len(s)}

\* What may come after what.  The other kinds may come anywhere.
Before(a, b) ==
    /\ a.kind = "output" /\ b.kind = "output" => a.at + a.len <= b.at
    /\ a.kind = "truncated" => b.kind \notin {"output", "truncated"}
    /\ a.kind = "barrier" => b.kind \notin {"output", "truncated", "barrier"}

InOrder(s) == \A i, j \in 1 .. Len(s) : i < j => Before(s[i], s[j])
AllBefore(A, B) == \A a \in A, b \in B : Before(a, b)

\* A log, a batch, a line in the queue and an outbox.
InFlow(l, r, q, o) ==
    /\ InOrder(l) /\ InOrder(r) /\ InOrder(q) /\ InOrder(o)
    /\ AllBefore(Elems(l), Elems(r)) /\ AllBefore(Elems(l), Elems(q))
    /\ AllBefore(Elems(l), Elems(o)) /\ AllBefore(Elems(r), Elems(q))
    /\ AllBefore(Elems(r), Elems(o)) /\ AllBefore(Elems(q), Elems(o))

PiecesOf(l, r, q, o) ==
    Captures \cap (Elems(l) \cup Elems(r) \cup Elems(q) \cup Elems(o))

\* The queue as one execution sees it.
Other == Mark("other")
Line(q, e) ==
    [i \in 1 .. Len(q) |-> IF q[i].of = e THEN q[i].event ELSE Other]

Anything == Events \cup {Mark("barrier"), Other}
Neutral  == {Mark("started"), Mark("finished"), Other}
Message  == Records \cup {Barrier(e) : e \in Executions}

Flow(e)   == InFlow(log[e], records[e], Line(queue, e), outbox[e])
Pieces(e) == PiecesOf(log[e], records[e], Line(queue, e), outbox[e])

FlowInv == \A e \in Executions : Flow(e)

ExtentInv ==
    \A e \in Executions :
        /\ cut[e] <=> wrote[e] > Limit
        /\ \A p \in Pieces(e) :
             /\ p.kind = "output" =>
                  p.at + p.len <= wrote[e] /\ p.at + p.len <= Limit
             /\ p.kind = "truncated" => cut[e]

\* Only a reading task has something to send, a task waits for its barrier, and
\* once it was answered there is nothing of the task's left to store.
Flushed(e) ==
    /\ pc[e] # "reading" => outbox[e] = <<>>
    /\ \A p \in Elems(Line(queue, e)) :
         p.kind = "barrier" => pc[e] = "waiting" /\ answer[e] = "none"
    /\ answer[e] # "none" =>
         /\ pc[e] \in {"waiting", "failed", "prune", "done"}
         /\ records[e] = <<>> /\ Elems(Line(queue, e)) \subseteq {Other}

\* A row that is queued has no events, and there is nothing to be stored.
Unstarted(e) ==
    row[e] = "queued" => pc[e] # "reading" /\ log[e] = <<>> /\ Pieces(e) = {}

FlushInv == \A e \in Executions : Flushed(e) /\ Unstarted(e)

\* Where a log has events of a kind.
At(s, kind) == {i \in 1 .. Len(s) : s[i].kind = kind}

\* What the log of a row in this state looks like.
Proper(s, state) ==
    /\ At(s, "started") \subseteq {1}
    /\ state \notin Terminal => At(s, "finished") = {}
    /\ state \in Terminal => \E i \in 1 .. Len(s) : At(s, "finished") = {i}
    /\ state = "finished" => At(s, "finished") = {Len(s)}

ClosedInv ==
    \A e \in Executions :
        Proper(log[e], row[e]) /\ (row[e] = "finished" => answer[e] = "ok")

\* The bytes of a set of pieces.
Bytes(S) ==
    UNION {p.at .. p.at + p.len - 1 : p \in {a \in S : a.kind = "output"}}

Whole(e) ==
    /\ Bytes(Pieces(e)) = {b \in 0 .. Limit - 1 : b < wrote[e]}
    /\ cut[e] => \E p \in Pieces(e) : p.kind = "truncated"

Refused(e) ==
    /\ fatal
    /\ \/ pending /\ answer[e] = "none"
       \/ \E x \in Executions : answer[x] = "error"

WholeInv == \A e \in Executions : Stored(e) => Whole(e) \/ Refused(e)

CaptureInv ==
    TypeOK /\ FlowInv /\ ExtentInv /\ FlushInv /\ ClosedInv /\ WholeInv

-----------------------------------------------------------------------------
(* Sequences: what they hold, and what keeps them in order.                *)

LEMMA ElemsEmpty == Elems(<<>>) = {} /\ InOrder(<<>>)
BY DEF Elems, InOrder

LEMMA ElemsOfSeq ==
    ASSUME NEW S, NEW s \in Seq(S)
    PROVE  /\ Elems(s) \subseteq S
           /\ \A i \in 1 .. Len(s) : s[i] \in Elems(s)
BY ElementOfSeq DEF Elems

LEMMA ElemsAppend ==
    ASSUME NEW S, NEW s \in Seq(S), NEW x \in S
    PROVE  Elems(Append(s, x)) = Elems(s) \cup {x}
<1> DEFINE t == Append(s, x)
<1>1. /\ Len(t) = Len(s) + 1 /\ Len(s) \in Nat /\ t[Len(s) + 1] = x
      /\ \A i \in 1 .. Len(s) : t[i] = s[i]
    BY AppendProperties, LenProperties
<1> HIDE DEF t
<1>2. ASSUME NEW i \in 1 .. Len(t) PROVE t[i] \in Elems(s) \cup {x}
    <2>1. i \in 1 .. Len(s) \/ i = Len(s) + 1
        BY <1>1
    <2> QED
        BY <1>1, <2>1 DEF Elems
<1>3. ASSUME NEW y \in Elems(s) \cup {x} PROVE y \in Elems(t)
    <2>1. CASE y = x
        <3>1. Len(s) + 1 \in 1 .. Len(t)
            BY <1>1
        <3> QED
            BY <1>1, <2>1, <3>1 DEF Elems
    <2>2. CASE y \in Elems(s)
        <3>1. PICK i \in 1 .. Len(s) : y = s[i]
            BY <2>2 DEF Elems
        <3>2. i \in 1 .. Len(t)
            BY <1>1
        <3> QED
            BY <1>1, <3>1, <3>2 DEF Elems
    <2> QED
        BY <2>1, <2>2
<1>4. Elems(t) = Elems(s) \cup {x}
    BY <1>2, <1>3 DEF Elems
<1> QED
    BY <1>4 DEF t

LEMMA ElemsConcat ==
    ASSUME NEW S, NEW s \in Seq(S), NEW t \in Seq(S)
    PROVE  Elems(s \o t) = Elems(s) \cup Elems(t)
<1> DEFINE u == s \o t
<1>1. /\ Len(u) = Len(s) + Len(t) /\ Len(s) \in Nat /\ Len(t) \in Nat
      /\ \A i \in 1 .. Len(s) + Len(t) :
           u[i] = IF i <= Len(s) THEN s[i] ELSE t[i - Len(s)]
    BY ConcatProperties, LenProperties
<1> HIDE DEF u
<1>2. ASSUME NEW i \in 1 .. Len(u) PROVE u[i] \in Elems(s) \cup Elems(t)
    <2>1. CASE i <= Len(s)
        <3>1. i \in 1 .. Len(s) /\ u[i] = s[i]
            BY <1>1, <2>1
        <3> QED
            BY <3>1 DEF Elems
    <2>2. CASE ~(i <= Len(s))
        <3>1. i - Len(s) \in 1 .. Len(t) /\ u[i] = t[i - Len(s)]
            BY <1>1, <2>2
        <3> QED
            BY <3>1 DEF Elems
    <2> QED
        BY <2>1, <2>2
<1>3. ASSUME NEW i \in 1 .. Len(s) PROVE s[i] \in Elems(u)
    <2>1. i \in 1 .. Len(u) /\ u[i] = s[i]
        BY <1>1
    <2> QED
        BY <2>1 DEF Elems
<1>4. ASSUME NEW i \in 1 .. Len(t) PROVE t[i] \in Elems(u)
    <2>1. i + Len(s) \in 1 .. Len(u) /\ u[i + Len(s)] = t[i]
        BY <1>1
    <2> QED
        BY <2>1 DEF Elems
<1>5. Elems(u) \subseteq Elems(s) \cup Elems(t)
    BY <1>2 DEF Elems
<1>6. Elems(s) \cup Elems(t) \subseteq Elems(u)
    BY <1>3, <1>4 DEF Elems
<1> QED
    BY <1>5, <1>6 DEF u

LEMMA ElemsTail ==
    ASSUME NEW S, NEW s \in Seq(S), s # <<>>
    PROVE  /\ Elems(s) = {Head(s)} \cup Elems(Tail(s))
           /\ Head(s) = s[1] /\ 1 \in 1 .. Len(s)
<1>1. /\ Len(Tail(s)) = Len(s) - 1 /\ Len(s) \in Nat /\ Len(s) # 0
      /\ \A i \in 1 .. Len(Tail(s)) : Tail(s)[i] = s[i + 1]
    BY HeadTailProperties, LenProperties, EmptySeq
<1>2. Head(s) = s[1] /\ 1 \in 1 .. Len(s)
    BY <1>1
<1>3. ASSUME NEW i \in 1 .. Len(s) PROVE s[i] \in {Head(s)} \cup Elems(Tail(s))
    <2>1. CASE i = 1
        BY <1>2, <2>1
    <2>2. CASE i # 1
        <3>1. i - 1 \in 1 .. Len(Tail(s)) /\ Tail(s)[i - 1] = s[i]
            BY <1>1, <2>2
        <3> QED
            BY <3>1 DEF Elems
    <2> QED
        BY <2>1, <2>2
<1>4. ASSUME NEW i \in 1 .. Len(Tail(s)) PROVE Tail(s)[i] \in Elems(s)
    <2>1. i + 1 \in 1 .. Len(s) /\ Tail(s)[i] = s[i + 1]
        BY <1>1
    <2> QED
        BY <2>1 DEF Elems
<1> QED
    BY <1>2, <1>3, <1>4 DEF Elems

LEMMA OrderAppend ==
    ASSUME NEW S, NEW s \in Seq(S), NEW x \in S,
           InOrder(s), AllBefore(Elems(s), {x})
    PROVE  InOrder(Append(s, x))
<1> DEFINE t == Append(s, x)
<1>1. /\ Len(t) = Len(s) + 1 /\ Len(s) \in Nat /\ t[Len(s) + 1] = x
      /\ \A i \in 1 .. Len(s) : t[i] = s[i]
    BY AppendProperties, LenProperties
<1> HIDE DEF t
<1>2. ASSUME NEW i \in 1 .. Len(t), NEW j \in 1 .. Len(t), i < j
      PROVE  Before(t[i], t[j])
    <2>1. i \in 1 .. Len(s) /\ (j \in 1 .. Len(s) \/ j = Len(s) + 1)
        BY <1>1, <1>2
    <2>2. CASE j \in 1 .. Len(s)
        <3>1. Before(s[i], s[j])
            BY <1>2, <2>1, <2>2 DEF InOrder
        <3> QED
            BY <1>1, <2>1, <2>2, <3>1
    <2>3. CASE j = Len(s) + 1
        <3>1. s[i] \in Elems(s)
            BY <2>1 DEF Elems
        <3>2. Before(s[i], x)
            BY <3>1 DEF AllBefore
        <3> QED
            BY <1>1, <2>1, <2>3, <3>2
    <2> QED
        BY <2>1, <2>2, <2>3
<1> QED
    BY <1>2 DEF InOrder, t

LEMMA OrderConcat ==
    ASSUME NEW S, NEW s \in Seq(S), NEW t \in Seq(S),
           InOrder(s), InOrder(t), AllBefore(Elems(s), Elems(t))
    PROVE  InOrder(s \o t)
<1> DEFINE u == s \o t
<1>1. /\ Len(u) = Len(s) + Len(t) /\ Len(s) \in Nat /\ Len(t) \in Nat
      /\ \A i \in 1 .. Len(s) + Len(t) :
           u[i] = IF i <= Len(s) THEN s[i] ELSE t[i - Len(s)]
    BY ConcatProperties, LenProperties
<1> HIDE DEF u
<1>2. ASSUME NEW i \in 1 .. Len(u), NEW j \in 1 .. Len(u), i < j
      PROVE  Before(u[i], u[j])
    <2>1. CASE j <= Len(s)
        <3>1. i \in 1 .. Len(s) /\ j \in 1 .. Len(s) /\ u[i] = s[i] /\ u[j] = s[j]
            BY <1>1, <1>2, <2>1
        <3> QED
            BY <1>2, <3>1 DEF InOrder
    <2>2. CASE ~(i <= Len(s))
        <3> DEFINE k == i - Len(s)
                   m == j - Len(s)
        <3>1. k \in 1 .. Len(t) /\ m \in 1 .. Len(t) /\ k < m
                /\ u[i] = t[k] /\ u[j] = t[m]
            BY <1>1, <1>2, <2>2
        <3> HIDE DEF k, m
        <3> QED
            BY <3>1 DEF InOrder
    <2>3. CASE i <= Len(s) /\ ~(j <= Len(s))
        <3> DEFINE m == j - Len(s)
        <3>1. i \in 1 .. Len(s) /\ m \in 1 .. Len(t) /\ u[i] = s[i] /\ u[j] = t[m]
            BY <1>1, <1>2, <2>3
        <3> HIDE DEF m
        <3>2. s[i] \in Elems(s) /\ t[m] \in Elems(t)
            BY <3>1 DEF Elems
        <3> QED
            BY <3>1, <3>2 DEF AllBefore
    <2> QED
        BY <2>1, <2>2, <2>3
<1> QED
    BY <1>2 DEF InOrder, u

LEMMA OrderTail ==
    ASSUME NEW S, NEW s \in Seq(S), s # <<>>, InOrder(s)
    PROVE  InOrder(Tail(s)) /\ AllBefore({Head(s)}, Elems(Tail(s)))
<1>1. /\ Len(Tail(s)) = Len(s) - 1 /\ Len(s) \in Nat
      /\ \A i \in 1 .. Len(Tail(s)) : Tail(s)[i] = s[i + 1]
    BY HeadTailProperties, LenProperties
<1>2. ASSUME NEW i \in 1 .. Len(Tail(s)), NEW j \in 1 .. Len(Tail(s)), i < j
      PROVE  Before(Tail(s)[i], Tail(s)[j])
    <2>1. i + 1 \in 1 .. Len(s) /\ j + 1 \in 1 .. Len(s) /\ i + 1 < j + 1
        BY <1>1, <1>2
    <2> QED
        BY <1>1, <2>1 DEF InOrder
<1>3. ASSUME NEW j \in 1 .. Len(Tail(s)) PROVE Before(s[1], Tail(s)[j])
    <2>1. 1 \in 1 .. Len(s) /\ j + 1 \in 1 .. Len(s) /\ 1 < j + 1
        BY <1>1
    <2> QED
        BY <1>1, <2>1 DEF InOrder
<1>4. Head(s) = s[1]
    BY ElemsTail
<1> QED
    BY <1>2, <1>3, <1>4 DEF InOrder, AllBefore, Elems

-----------------------------------------------------------------------------
(* What a step does to the flow of one execution.                          *)

LEMMA NeutralAnywhere ==
    ASSUME NEW x \in Neutral
    PROVE  /\ x \in Anything /\ x \notin Captures
           /\ \A a : Before(a, x) /\ Before(x, a)
BY DEF Neutral, Anything, Events, Captures, Before, Mark, Output, Other

LEMMA CaptureKinds ==
    ASSUME NEW p \in Captures
    PROVE  /\ p.kind \in {"output", "truncated"}
           /\ p.at \in 0 .. MaxBytes \/ p.kind = "truncated"
           /\ p.len \in 0 .. MaxBytes \/ p.kind = "truncated"
BY DEF Captures, Output, Mark

LEMMA FlowSend ==
    ASSUME NEW l \in Seq(Anything), NEW r \in Seq(Anything),
           NEW q \in Seq(Anything), NEW o \in Seq(Anything),
           o # <<>>, InFlow(l, r, q, o)
    PROVE  /\ InFlow(l, r, Append(q, Head(o)), Tail(o))
           /\ PiecesOf(l, r, Append(q, Head(o)), Tail(o)) = PiecesOf(l, r, q, o)
<1>1. Elems(o) = {Head(o)} \cup Elems(Tail(o)) /\ Head(o) \in Anything
    BY ElemsTail, HeadTailProperties
<1>2. Elems(Append(q, Head(o))) = Elems(q) \cup {Head(o)}
    BY <1>1, ElemsAppend
<1>3. InOrder(Tail(o)) /\ AllBefore({Head(o)}, Elems(Tail(o)))
    BY OrderTail DEF InFlow
<1>4. AllBefore(Elems(q), {Head(o)})
    BY <1>1 DEF InFlow, AllBefore
<1>5. InOrder(Append(q, Head(o)))
    BY <1>1, <1>4, OrderAppend DEF InFlow
<1>6. InFlow(l, r, Append(q, Head(o)), Tail(o))
    BY <1>1, <1>2, <1>3, <1>5 DEF InFlow, AllBefore
<1> QED
    BY <1>1, <1>2, <1>6 DEF PiecesOf

LEMMA FlowTake ==
    ASSUME NEW l \in Seq(Anything), NEW r \in Seq(Anything),
           NEW q \in Seq(Anything), NEW o \in Seq(Anything),
           q # <<>>, InFlow(l, r, q, o)
    PROVE  /\ InFlow(l, Append(r, Head(q)), Tail(q), o)
           /\ PiecesOf(l, Append(r, Head(q)), Tail(q), o) = PiecesOf(l, r, q, o)
<1>1. Elems(q) = {Head(q)} \cup Elems(Tail(q)) /\ Head(q) \in Anything
    BY ElemsTail, HeadTailProperties
<1>2. Elems(Append(r, Head(q))) = Elems(r) \cup {Head(q)}
    BY <1>1, ElemsAppend
<1>3. InOrder(Tail(q)) /\ AllBefore({Head(q)}, Elems(Tail(q)))
    BY OrderTail DEF InFlow
<1>4. AllBefore(Elems(r), {Head(q)})
    BY <1>1 DEF InFlow, AllBefore
<1>5. InOrder(Append(r, Head(q)))
    BY <1>1, <1>4, OrderAppend DEF InFlow
<1>6. InFlow(l, Append(r, Head(q)), Tail(q), o)
    BY <1>1, <1>2, <1>3, <1>5 DEF InFlow, AllBefore
<1> QED
    BY <1>1, <1>2, <1>6 DEF PiecesOf

\* The head of the queue is a barrier, or it is another execution's.
LEMMA FlowDrop ==
    ASSUME NEW l \in Seq(Anything), NEW r \in Seq(Anything),
           NEW q \in Seq(Anything), NEW o \in Seq(Anything),
           q # <<>>, Head(q) \notin Captures, InFlow(l, r, q, o)
    PROVE  /\ InFlow(l, r, Tail(q), o)
           /\ PiecesOf(l, r, Tail(q), o) = PiecesOf(l, r, q, o)
<1>1. Elems(q) = {Head(q)} \cup Elems(Tail(q))
    BY ElemsTail
<1>2. InOrder(Tail(q))
    BY OrderTail DEF InFlow
<1>3. InFlow(l, r, Tail(q), o)
    BY <1>1, <1>2 DEF InFlow, AllBefore
<1> QED
    BY <1>1, <1>3 DEF PiecesOf

\* Something joins the line that is no piece and may come there.
MayJoin(l, r, q, o, x) ==
    /\ x \in Anything /\ x \notin Captures
    /\ \A a \in Elems(l) \cup Elems(r) \cup Elems(q) : Before(a, x)
    /\ \A b \in Elems(o) : Before(x, b)

LEMMA FlowJoin ==
    ASSUME NEW l \in Seq(Anything), NEW r \in Seq(Anything),
           NEW q \in Seq(Anything), NEW o \in Seq(Anything),
           NEW x, InFlow(l, r, q, o), MayJoin(l, r, q, o, x)
    PROVE  /\ InFlow(l, r, Append(q, x), o)
           /\ PiecesOf(l, r, Append(q, x), o) = PiecesOf(l, r, q, o)
<1>1. Elems(Append(q, x)) = Elems(q) \cup {x}
    BY ElemsAppend DEF MayJoin
<1>2. AllBefore(Elems(q), {x})
    BY DEF AllBefore, MayJoin
<1>3. InOrder(Append(q, x))
    BY <1>2, OrderAppend DEF InFlow, MayJoin
<1>4. InFlow(l, r, Append(q, x), o)
    BY <1>1, <1>3 DEF InFlow, AllBefore, MayJoin
<1> QED
    BY <1>1, <1>4 DEF PiecesOf, MayJoin

LEMMA FlowWrite ==
    ASSUME NEW l \in Seq(Anything), NEW r \in Seq(Anything),
           NEW q \in Seq(Anything), NEW o \in Seq(Anything),
           InFlow(l, r, q, o)
    PROVE  /\ InFlow(l \o r, <<>>, q, o)
           /\ PiecesOf(l \o r, <<>>, q, o) = PiecesOf(l, r, q, o)
<1>1. Elems(l \o r) = Elems(l) \cup Elems(r)
    BY ElemsConcat
<1>2. InOrder(l \o r)
    BY OrderConcat DEF InFlow
<1>3. InFlow(l \o r, <<>>, q, o)
    BY <1>1, <1>2, ElemsEmpty DEF InFlow, AllBefore
<1> QED
    BY <1>1, <1>3, ElemsEmpty DEF PiecesOf

LEMMA FlowLose ==
    ASSUME NEW l, NEW r, NEW q, NEW o, InFlow(l, r, q, o)
    PROVE  /\ InFlow(l, <<>>, q, o)
           /\ PiecesOf(l, <<>>, q, o) \subseteq PiecesOf(l, r, q, o)
BY ElemsEmpty DEF InFlow, AllBefore, PiecesOf

LEMMA FlowForget ==
    ASSUME NEW l, NEW r, NEW q, NEW o, InFlow(l, r, q, o)
    PROVE  /\ InFlow(<<>>, r, q, o)
           /\ PiecesOf(<<>>, r, q, o) \subseteq PiecesOf(l, r, q, o)
BY ElemsEmpty DEF InFlow, AllBefore, PiecesOf

LEMMA FlowMark ==
    ASSUME NEW l \in Seq(Anything), NEW r \in Seq(Anything),
           NEW q \in Seq(Anything), NEW o \in Seq(Anything),
           NEW x \in Neutral, InFlow(l, r, q, o)
    PROVE  /\ InFlow(Append(l, x), r, q, o)
           /\ PiecesOf(Append(l, x), r, q, o) = PiecesOf(l, r, q, o)
<1>1. /\ x \in Anything /\ x \notin Captures
      /\ \A a : Before(a, x) /\ Before(x, a)
    BY NeutralAnywhere
<1>2. Elems(Append(l, x)) = Elems(l) \cup {x}
    BY <1>1, ElemsAppend
<1>3. AllBefore(Elems(l), {x})
    BY <1>1 DEF AllBefore
<1>4. InOrder(Append(l, x))
    BY <1>1, <1>3, OrderAppend DEF InFlow
<1>5. InFlow(Append(l, x), r, q, o)
    BY <1>1, <1>2, <1>4 DEF InFlow, AllBefore
<1> QED
    BY <1>1, <1>2, <1>5 DEF PiecesOf

\* An empty outbox is filled.
LEMMA FlowFill ==
    ASSUME NEW l, NEW r, NEW q, NEW o, InFlow(l, r, q, <<>>), InOrder(o),
           AllBefore(Elems(l) \cup Elems(r) \cup Elems(q), Elems(o))
    PROVE  /\ InFlow(l, r, q, o)
           /\ PiecesOf(l, r, q, o) =
                PiecesOf(l, r, q, <<>>) \cup (Captures \cap Elems(o))
BY ElemsEmpty DEF InFlow, AllBefore, PiecesOf

-----------------------------------------------------------------------------
(* The queue as one execution sees it.                                     *)

LEMMA LineType ==
    ASSUME NEW q \in Seq(Message), NEW e
    PROVE  /\ Line(q, e) \in Seq(Anything) /\ Len(Line(q, e)) = Len(q)
           /\ \A i \in 1 .. Len(q) :
                Line(q, e)[i] = IF q[i].of = e THEN q[i].event ELSE Other
<1>1. ASSUME NEW i \in 1 .. Len(q)
      PROVE  (IF q[i].of = e THEN q[i].event ELSE Other) \in Anything
    <2>1. q[i] \in Message
        BY ElementOfSeq
    <2> QED
        BY <2>1 DEF Message, Records, Barrier, Anything, Events
<1>2. Line(q, e) \in [1 .. Len(q) -> Anything] /\ Len(q) \in Nat
    BY <1>1, LenProperties DEF Line
<1> QED
    BY <1>2 DEF Line

LEMMA LineAppend ==
    ASSUME NEW q \in Seq(Message), NEW m \in Message, NEW e
    PROVE  Line(Append(q, m), e) =
             Append(Line(q, e), IF m.of = e THEN m.event ELSE Other)
<1> DEFINE x == IF m.of = e THEN m.event ELSE Other
           t == Append(q, m)
           u == Append(Line(q, e), x)
<1>1. x \in Anything
    BY DEF Message, Records, Barrier, Anything, Events
<1>2. /\ t \in Seq(Message) /\ Len(t) = Len(q) + 1 /\ t[Len(q) + 1] = m
      /\ \A i \in 1 .. Len(q) : t[i] = q[i]
      /\ Len(q) \in Nat
    BY AppendProperties, LenProperties
<1> HIDE DEF t
<1>3. /\ Line(q, e) \in Seq(Anything) /\ Len(Line(q, e)) = Len(q)
      /\ \A i \in 1 .. Len(q) :
           Line(q, e)[i] = IF q[i].of = e THEN q[i].event ELSE Other
    BY LineType
<1>4. /\ u \in Seq(Anything) /\ Len(u) = Len(q) + 1 /\ u[Len(q) + 1] = x
      /\ \A i \in 1 .. Len(q) : u[i] = Line(q, e)[i]
    BY <1>1, <1>3, AppendProperties
<1>5. /\ Line(t, e) \in Seq(Anything) /\ Len(Line(t, e)) = Len(t)
      /\ \A i \in 1 .. Len(t) :
           Line(t, e)[i] = IF t[i].of = e THEN t[i].event ELSE Other
    BY <1>2, LineType
<1> HIDE DEF u
<1>6. ASSUME NEW i \in 1 .. Len(t) PROVE Line(t, e)[i] = u[i]
    <2>1. i \in 1 .. Len(q) \/ i = Len(q) + 1
        BY <1>2
    <2>2. CASE i \in 1 .. Len(q)
        BY <1>2, <1>3, <1>4, <1>5, <2>2
    <2>3. CASE i = Len(q) + 1
        BY <1>2, <1>4, <1>5, <2>3
    <2> QED
        BY <2>1, <2>2, <2>3
<1>7. Len(Line(t, e)) = Len(u)
    BY <1>2, <1>4, <1>5
<1>8. Line(t, e) = u
    BY <1>4, <1>5, <1>6, <1>7, SeqEqual
<1> QED
    BY <1>8 DEF t, u

LEMMA LineTail ==
    ASSUME NEW q \in Seq(Message), q # <<>>, NEW e
    PROVE  /\ Line(Tail(q), e) = Tail(Line(q, e))
           /\ Line(q, e) # <<>>
           /\ Head(Line(q, e)) = IF Head(q).of = e THEN Head(q).event ELSE Other
<1> DEFINE t == Tail(q)
           u == Tail(Line(q, e))
<1>1. /\ t \in Seq(Message) /\ Len(t) = Len(q) - 1 /\ Len(q) \in Nat
      /\ Len(q) # 0 /\ \A i \in 1 .. Len(t) : t[i] = q[i + 1]
    BY HeadTailProperties, LenProperties, EmptySeq
<1> HIDE DEF t
<1>2. /\ Line(q, e) \in Seq(Anything) /\ Len(Line(q, e)) = Len(q)
      /\ \A i \in 1 .. Len(q) :
           Line(q, e)[i] = IF q[i].of = e THEN q[i].event ELSE Other
    BY LineType
<1>3. Line(q, e) # <<>>
    BY <1>1, <1>2, EmptySeq
<1>4. Head(Line(q, e)) = Line(q, e)[1] /\ Head(q) = q[1] /\ 1 \in 1 .. Len(q)
    BY <1>2, <1>3, ElemsTail
<1>5. /\ u \in Seq(Anything) /\ Len(u) = Len(q) - 1
      /\ \A i \in 1 .. Len(u) : u[i] = Line(q, e)[i + 1]
    BY <1>2, <1>3, HeadTailProperties
<1>6. /\ Line(t, e) \in Seq(Anything) /\ Len(Line(t, e)) = Len(t)
      /\ \A i \in 1 .. Len(t) :
           Line(t, e)[i] = IF t[i].of = e THEN t[i].event ELSE Other
    BY <1>1, LineType
<1> HIDE DEF u
<1>7. ASSUME NEW i \in 1 .. Len(t) PROVE Line(t, e)[i] = u[i]
    <2>1. i \in 1 .. Len(u) /\ i + 1 \in 1 .. Len(q)
        BY <1>1, <1>5
    <2> QED
        BY <1>1, <1>2, <1>5, <1>6, <2>1
<1>8. Len(Line(t, e)) = Len(u)
    BY <1>1, <1>5, <1>6
<1>9. Line(t, e) = u
    BY <1>5, <1>6, <1>7, <1>8, SeqEqual
<1> QED
    BY <1>2, <1>3, <1>4, <1>9 DEF t, u

-----------------------------------------------------------------------------
(* What a task records of a chunk.                                         *)

LEMMA PersistBounds ==
    ASSUME NEW previous \in Nat, NEW size \in Nat \ {0}
    PROVE  /\ Persist(previous, size) \in Nat
           /\ Persist(previous, size) <= size
           /\ Persist(previous, size) > 0 =>
                /\ previous < Limit
                /\ previous + Persist(previous, size) <= Limit
           /\ Persist(previous, size) < size <=> previous + size > Limit
           /\ previous < Limit => Persist(previous, size) > 0
           /\ Persist(previous, size) < size /\ previous < Limit =>
                previous + Persist(previous, size) = Limit
BY CaptureAssumption DEF Persist

LEMMA OneElement ==
    ASSUME NEW S, NEW x \in S
    PROVE  <<x>> \in Seq(S) /\ Elems(<<x>>) = {x} /\ InOrder(<<x>>)
BY DEF Elems, InOrder

\* What is kept of a chunk, and the marker.
Fresh(at, kept, mark) ==
    (IF kept > 0 THEN <<Output(at, kept)>> ELSE <<>>) \o
    (IF mark THEN <<Mark("truncated")>> ELSE <<>>)

LEMMA FreshOutbox ==
    ASSUME NEW at \in 0 .. MaxBytes, NEW kept \in 0 .. MaxBytes,
           NEW mark \in BOOLEAN
    PROVE  /\ Fresh(at, kept, mark) \in Seq(Captures)
           /\ Elems(Fresh(at, kept, mark)) =
                (IF kept > 0 THEN {Output(at, kept)} ELSE {}) \cup
                (IF mark THEN {Mark("truncated")} ELSE {})
           /\ InOrder(Fresh(at, kept, mark))
<1> DEFINE a == IF kept > 0 THEN <<Output(at, kept)>> ELSE <<>>
           b == IF mark THEN <<Mark("truncated")>> ELSE <<>>
           A == IF kept > 0 THEN {Output(at, kept)} ELSE {}
           B == IF mark THEN {Mark("truncated")} ELSE {}
<1>1. Output(at, kept) \in Captures /\ Mark("truncated") \in Captures
    BY DEF Captures
<1>2. a \in Seq(Captures) /\ Elems(a) = A /\ InOrder(a)
    BY <1>1, OneElement, ElemsEmpty, EmptySeq
<1>3. b \in Seq(Captures) /\ Elems(b) = B /\ InOrder(b)
    BY <1>1, OneElement, ElemsEmpty, EmptySeq
<1>4. AllBefore(A, B)
    BY DEF AllBefore, Before, Output, Mark
<1> HIDE DEF a, b, A, B
<1>5. /\ a \o b \in Seq(Captures) /\ Elems(a \o b) = A \cup B
      /\ InOrder(a \o b)
    BY <1>2, <1>3, <1>4, ConcatProperties, ElemsConcat, OrderConcat
<1> QED
    BY <1>5 DEF a, b, A, B, Fresh

\* CaptureOutput, with its chunk named.
LEMMA CaptureChunk ==
    ASSUME TypeOK, NEW e \in Executions, CaptureOutput(e)
    PROVE  \E size \in ChunkSizes :
             LET kept == Persist(wrote[e], size)
                 mark == kept < size /\ ~cut[e]
             IN  /\ size \in Nat \ {0} /\ kept \in 0 .. MaxBytes
                 /\ wrote[e] + size \in 0 .. MaxBytes
                 /\ wrote' = [wrote EXCEPT ![e] = @ + size]
                 /\ cut' = [cut EXCEPT ![e] = @ \/ kept < size]
                 /\ outbox' = [outbox EXCEPT ![e] = Fresh(wrote[e], kept, mark)]
<1>1. PICK size \in ChunkSizes :
        LET kept == Persist(wrote[e], size) IN
            /\ wrote[e] + size <= MaxBytes
            /\ wrote' = [wrote EXCEPT ![e] = @ + size]
            /\ cut' = [cut EXCEPT ![e] = @ \/ kept < size]
            /\ outbox' = [outbox EXCEPT ![e] =
                 Fresh(wrote[e], kept, kept < size /\ ~cut[e])]
    BY DEF CaptureOutput, Fresh
<1>2. size \in Nat \ {0} /\ wrote[e] \in Nat /\ MaxBytes \in Nat
    BY CaptureAssumption DEF TypeOK
<1>3. /\ Persist(wrote[e], size) \in Nat
      /\ Persist(wrote[e], size) <= size
    BY <1>2, PersistBounds
<1>4. wrote[e] + size <= MaxBytes
    BY <1>1
<1>5. Persist(wrote[e], size) \in 0 .. MaxBytes /\ wrote[e] + size \in 0 .. MaxBytes
    BY <1>2, <1>3, <1>4
<1> QED
    BY <1>1, <1>2, <1>5

-----------------------------------------------------------------------------
(* Types.                                                                  *)

LEMMA TypeInit == Init => TypeOK
<1> SUFFICES ASSUME Init PROVE TypeOK
    OBVIOUS
<1>1. /\ <<>> \in Seq(Events) /\ <<>> \in Seq(Captures)
      /\ <<>> \in Seq(Records \cup {Barrier(e) : e \in Executions})
      /\ Len(<<>>) = 0
    BY EmptySeq
<1>2. 0 \in 0 .. MaxBytes /\ 0 \in 0 .. BatchSize - 1 /\ 0 <= QueueDepth
        /\ 0 \in 0 .. MaxFaults
    BY CaptureAssumption
<1> QED
    BY <1>1, <1>2 DEF Init, TypeOK

LEMMA MarksAreEvents == Mark("started") \in Events /\ Mark("finished") \in Events
BY DEF Events

LEMMA TypeFinish ==
    ASSUME TypeOK, NEW e \in Executions, NEW state \in Terminal, Finish(e, state)
    PROVE  /\ row' \in [Executions -> {"queued", "running", "pruned"} \cup Terminal]
           /\ log' \in [Executions -> Seq(Events)]
<1>1. Append(log[e], Mark("finished")) \in Seq(Events)
    BY MarksAreEvents, AppendProperties DEF TypeOK
<1> QED
    BY <1>1 DEF Finish, TypeOK

\* A batch is what the writer holds, or that and one more record.
LEMMA TypeBatch ==
    ASSUME TypeOK, NEW batch \in [Executions -> Seq(Captures)],
           Written(batch) \/ Lost(batch)
    PROVE  /\ log' \in [Executions -> Seq(Events)]
           /\ fatal' \in BOOLEAN /\ faults' \in 0 .. MaxFaults
<1>1. ASSUME NEW e \in Executions PROVE log[e] \o batch[e] \in Seq(Events)
    <2>1. batch[e] \in Seq(Events) /\ log[e] \in Seq(Events)
        BY SeqMonotonic DEF TypeOK, Events
    <2> QED
        BY <2>1, ConcatProperties
<1>2. CASE Written(batch)
    BY <1>1, <1>2 DEF Written, TypeOK
<1>3. CASE Lost(batch)
    <2>1. \/ faults' = faults
          \/ faults < MaxFaults /\ faults' = faults + 1
        <3>1. CASE AllStored(batch)
            BY <1>3, <3>1 DEF Lost
        <3>2. CASE ~AllStored(batch)
            BY <1>3, <3>2 DEF Lost
        <3> QED
            BY <3>1, <3>2
    <2>2. faults \in 0 .. MaxFaults /\ MaxFaults \in Nat
        BY CaptureAssumption DEF TypeOK
    <2>3. faults' \in 0 .. MaxFaults
        BY <2>1, <2>2
    <2> QED
        BY <1>3, <2>3 DEF Lost, TypeOK
<1> QED
    BY <1>2, <1>3

LEMMA TypeFlush ==
    ASSUME TypeOK, NEW batch \in [Executions -> Seq(Captures)], Flush(batch)
    PROVE  /\ log' \in [Executions -> Seq(Events)]
           /\ pending' \in BOOLEAN /\ fatal' \in BOOLEAN
           /\ faults' \in 0 .. MaxFaults
BY TypeBatch DEF Flush, TypeOK

LEMMA QueueHead ==
    ASSUME TypeOK, queue # <<>>
    PROVE  /\ Head(queue) \in Message /\ Head(queue).of \in Executions
           /\ Tail(queue) \in Seq(Message) /\ Len(Tail(queue)) <= QueueDepth
           /\ NextIsRecord => Head(queue).event \in Captures
           /\ NextIsBarrier => Head(queue).event = Mark("barrier")
<1>1. queue \in Seq(Message) /\ Len(queue) <= QueueDepth
    BY DEF TypeOK, Message
<1>2. Head(queue) \in Message /\ Tail(queue) \in Seq(Message)
        /\ Len(Tail(queue)) = Len(queue) - 1 /\ Len(queue) \in Nat
    BY <1>1, HeadTailProperties, LenProperties
<1>3. QueueDepth \in Nat
    BY CaptureAssumption
<1>4. Len(Tail(queue)) <= QueueDepth
    BY <1>1, <1>2, <1>3
<1>5. Head(queue) \in Records \/ \E e \in Executions : Head(queue) = Barrier(e)
    BY <1>2 DEF Message
<1>6. CASE Head(queue) \in Records
    <2>1. Head(queue).of \in Executions /\ Head(queue).event \in Captures
        BY <1>6 DEF Records
    <2>2. Head(queue).event.kind # "barrier"
        BY <2>1, CaptureKinds
    <2> QED
        BY <1>2, <1>4, <2>1, <2>2 DEF NextIsBarrier
<1>7. CASE \E e \in Executions : Head(queue) = Barrier(e)
    <2>1. Head(queue).of \in Executions /\ Head(queue).event = Mark("barrier")
        BY <1>7 DEF Barrier
    <2>2. Head(queue).event.kind = "barrier"
        BY <2>1 DEF Mark
    <2> QED
        BY <1>2, <1>4, <2>1, <2>2 DEF NextIsRecord
<1> QED
    BY <1>5, <1>6, <1>7

LEMMA TypeStarted ==
    ASSUME TypeOK, NEW e \in Executions, HandleStarted(e) PROVE TypeOK'
<1>1. Append(log[e], Mark("started")) \in Seq(Events)
    BY MarksAreEvents, AppendProperties DEF TypeOK
<1>2. /\ row' \in [Executions -> {"queued", "running", "pruned"} \cup Terminal]
      /\ log' \in [Executions -> Seq(Events)]
    BY <1>1 DEF HandleStarted, TypeOK
<1> QED
    BY <1>2 DEF HandleStarted, Goto, TypeOK, writerVars

LEMMA TypeCapture ==
    ASSUME TypeOK, NEW e \in Executions, CaptureOutput(e) PROVE TypeOK'
<1>1. PICK size \in ChunkSizes :
        LET kept == Persist(wrote[e], size)
            mark == kept < size /\ ~cut[e]
        IN  /\ size \in Nat \ {0} /\ kept \in 0 .. MaxBytes
            /\ wrote[e] + size \in 0 .. MaxBytes
            /\ wrote' = [wrote EXCEPT ![e] = @ + size]
            /\ cut' = [cut EXCEPT ![e] = @ \/ kept < size]
            /\ outbox' = [outbox EXCEPT ![e] = Fresh(wrote[e], kept, mark)]
    BY CaptureChunk
<1> DEFINE kept == Persist(wrote[e], size)
           mark == kept < size /\ ~cut[e]
<1>2. wrote[e] \in 0 .. MaxBytes /\ kept \in 0 .. MaxBytes /\ mark \in BOOLEAN
    BY <1>1 DEF TypeOK
<1>3. Fresh(wrote[e], kept, mark) \in Seq(Captures)
    BY <1>2, FreshOutbox
<1>4. outbox' \in [Executions -> Seq(Captures)]
    BY <1>1, <1>3 DEF TypeOK
<1>5. wrote' \in [Executions -> 0 .. MaxBytes] /\ cut' \in [Executions -> BOOLEAN]
    BY <1>1 DEF TypeOK
<1> QED
    BY <1>4, <1>5 DEF CaptureOutput, TypeOK, writerVars

LEMMA TypeEnqueue ==
    ASSUME TypeOK, NEW m \in Message, Enqueue(m)
    PROVE  queue' \in Seq(Message) /\ Len(queue') <= QueueDepth
<1>1. /\ queue \in Seq(Message) /\ Len(queue) < QueueDepth
      /\ queue' = Append(queue, m)
    BY DEF TypeOK, Message, Enqueue
<1>2. /\ queue' \in Seq(Message) /\ Len(queue') = Len(queue) + 1
      /\ Len(queue) \in Nat
    BY <1>1, AppendProperties, LenProperties
<1>3. QueueDepth \in Nat
    BY CaptureAssumption
<1> QED
    BY <1>1, <1>2, <1>3

LEMMA TypeSend ==
    ASSUME TypeOK, NEW e \in Executions, SendRecord(e)
    PROVE  TypeOK' /\ [of |-> e, event |-> Head(outbox[e])] \in Message
<1>1. outbox[e] \in Seq(Captures) /\ outbox[e] # <<>>
    BY DEF TypeOK, SendRecord
<1>2. Head(outbox[e]) \in Captures /\ Tail(outbox[e]) \in Seq(Captures)
    BY <1>1, HeadTailProperties
<1>3. [of |-> e, event |-> Head(outbox[e])] \in Message
    BY <1>2 DEF Message, Records
<1>4. queue' \in Seq(Message) /\ Len(queue') <= QueueDepth
    BY <1>3, TypeEnqueue DEF SendRecord
<1> QED
    BY <1>2, <1>3, <1>4 DEF SendRecord, TypeOK, writerVars, Message

LEMMA TypeBarrier ==
    ASSUME TypeOK, NEW e \in Executions, SendBarrier(e)
    PROVE  TypeOK' /\ Barrier(e) \in Message
<1>1. Barrier(e) \in Message
    BY DEF Message
<1>2. queue' \in Seq(Message) /\ Len(queue') <= QueueDepth
    BY <1>1, TypeEnqueue DEF SendBarrier
<1> QED
    BY <1>1, <1>2 DEF SendBarrier, Goto, TypeOK, writerVars, Message

LEMMA TypeTask ==
    ASSUME TypeOK, NEW e \in Executions,
           StreamEnds(e) \/ TaskFails(e) \/ RecordOutcome(e) \/ RecordFailure(e)
             \/ Prune(e) \/ CloseQueued(e)
    PROVE  TypeOK'
<1>1. CASE StreamEnds(e) \/ TaskFails(e)
    BY <1>1 DEF StreamEnds, TaskFails, Goto, TypeOK, writerVars
<1>2. CASE RecordOutcome(e)
    <2>1. /\ row' \in [Executions -> {"queued", "running", "pruned"} \cup Terminal]
          /\ log' \in [Executions -> Seq(Events)]
        <3>1. \/ Finish(e, "finished")
              \/ UNCHANGED <<row, log>>
            BY <1>2 DEF RecordOutcome
        <3> QED
            BY <3>1, TypeFinish DEF TypeOK, Terminal
    <2> QED
        BY <1>2, <2>1 DEF RecordOutcome, Goto, TypeOK, writerVars
<1>3. CASE RecordFailure(e)
    <2>1. /\ row' \in [Executions -> {"queued", "running", "pruned"} \cup Terminal]
          /\ log' \in [Executions -> Seq(Events)]
        <3>1. \/ Finish(e, "interrupted")
              \/ UNCHANGED <<row, log>>
            BY <1>3 DEF RecordFailure
        <3> QED
            BY <3>1, TypeFinish DEF TypeOK, Terminal
    <2> QED
        BY <1>3, <2>1 DEF RecordFailure, Goto, TypeOK
<1>4. CASE Prune(e)
    <2>1. PICK S \in SUBSET {x \in Executions : Closed(x)} :
            /\ row' = [x \in Executions |-> IF x \in S THEN "pruned" ELSE row[x]]
            /\ log' = [x \in Executions |-> IF x \in S THEN <<>> ELSE log[x]]
        BY <1>4 DEF Prune
    <2>2. /\ row' \in [Executions -> {"queued", "running", "pruned"} \cup Terminal]
          /\ log' \in [Executions -> Seq(Events)]
        BY <2>1, EmptySeq DEF TypeOK
    <2> QED
        BY <1>4, <2>2 DEF Prune, Goto, TypeOK, writerVars
<1>5. CASE CloseQueued(e)
    <2>1. /\ row' \in [Executions -> {"queued", "running", "pruned"} \cup Terminal]
          /\ log' \in [Executions -> Seq(Events)]
        BY <1>5, TypeFinish DEF CloseQueued, Terminal
    <2> QED
        BY <1>5, <2>1 DEF CloseQueued, TypeOK, taskVars, writerVars
<1> QED
    BY <1>1, <1>2, <1>3, <1>4, <1>5

\* The writer's batch with the record at the head of the queue.
Taken == [records EXCEPT ![Head(queue).of] = Append(@, Head(queue).event)]

LEMMA TakenType ==
    ASSUME TypeOK, NextIsRecord
    PROVE  Taken \in [Executions -> Seq(Captures)]
<1>1. Head(queue).of \in Executions /\ Head(queue).event \in Captures
    BY QueueHead DEF NextIsRecord
<1>2. Append(records[Head(queue).of], Head(queue).event) \in Seq(Captures)
    BY <1>1, AppendProperties DEF TypeOK
<1> QED
    BY <1>2 DEF Taken, TypeOK

LEMMA TypeEmptied ==
    ASSUME Emptied
    PROVE  /\ records' \in [Executions -> Seq(Captures)]
           /\ batched' \in 0 .. BatchSize - 1
           /\ \A e \in Executions : records'[e] = <<>>
BY CaptureAssumption, EmptySeq DEF Emptied

LEMMA TypeWriter ==
    ASSUME TypeOK, WriterStep PROVE TypeOK'
<1>1. CASE WriterRecord
    <2>1. Tail(queue) \in Seq(Message) /\ Len(Tail(queue)) <= QueueDepth
        BY <1>1, QueueHead DEF WriterRecord, NextIsRecord
    <2>2. Taken \in [Executions -> Seq(Captures)]
        BY <1>1, TakenType DEF WriterRecord
    <2>3. CASE batched + 1 >= BatchSize
        <3>1. Flush(Taken) /\ Emptied
            BY <1>1, <2>3 DEF WriterRecord, Taken
        <3> QED
            BY <1>1, <2>1, <2>2, <3>1, TypeFlush, TypeEmptied
            DEF WriterRecord, TypeOK, taskVars, Message
    <2>4. CASE ~(batched + 1 >= BatchSize)
        <3>1. /\ records' = Taken /\ batched' = batched + 1
              /\ UNCHANGED <<log, pending, fatal, faults>>
            BY <1>1, <2>4 DEF WriterRecord, Taken
        <3>2. batched \in Nat /\ BatchSize \in Nat
            BY CaptureAssumption DEF TypeOK
        <3>3. batched + 1 \in 0 .. BatchSize - 1
            BY <2>4, <3>2
        <3> QED
            BY <1>1, <2>1, <2>2, <3>1, <3>3
            DEF WriterRecord, TypeOK, taskVars, Message
    <2> QED
        BY <2>3, <2>4
<1>2. CASE WriterIdle
    <2>1. records \in [Executions -> Seq(Captures)] /\ Flush(records) /\ Emptied
        BY <1>2 DEF WriterIdle, TypeOK
    <2> QED
        BY <1>2, <2>1, TypeFlush, TypeEmptied DEF WriterIdle, TypeOK, taskVars
<1>3. CASE WriterBarrier
    <2>1. Tail(queue) \in Seq(Message) /\ Len(Tail(queue)) <= QueueDepth
        BY <1>3, QueueHead DEF WriterBarrier, NextIsBarrier
    <2>2. PICK result \in {"ok", "error"} :
            /\ \/ Written(records) /\ (result = "error") = pending
               \/ Lost(records) /\ result = "error"
            /\ answer' = [answer EXCEPT ![Head(queue).of] = result]
        BY <1>3 DEF WriterBarrier
    <2>3. answer' \in [Executions -> {"none", "ok", "error"}]
        BY <2>2 DEF TypeOK
    <2>4. /\ log' \in [Executions -> Seq(Events)]
          /\ fatal' \in BOOLEAN /\ faults' \in 0 .. MaxFaults
        <3>1. records \in [Executions -> Seq(Captures)]
            BY DEF TypeOK
        <3> QED
            BY <2>2, <3>1, TypeBatch
    <2> QED
        BY <1>3, <2>1, <2>3, <2>4, TypeEmptied
        DEF WriterBarrier, TypeOK, taskVars, Message
<1> QED
    BY <1>1, <1>2, <1>3 DEF WriterStep

LEMMA TypeStep == TypeOK /\ [Next]_vars => TypeOK'
<1> SUFFICES ASSUME TypeOK, [Next]_vars PROVE TypeOK'
    OBVIOUS
<1>1. CASE UNCHANGED vars
    BY <1>1 DEF vars, taskVars, writerVars, TypeOK
<1>2. CASE WriterStep
    BY <1>2, TypeWriter
<1>3. ASSUME NEW e \in Executions, TaskStep(e) \/ Outside(e) PROVE TypeOK'
    BY <1>3, TypeStarted, TypeCapture, TypeSend, TypeBarrier, TypeTask
    DEF TaskStep, Outside
<1> QED
    BY <1>1, <1>2, <1>3 DEF Next

-----------------------------------------------------------------------------
(* What a step of the system does to the flow of an execution.             *)

Kept(x) == Flow(x)' /\ Pieces(x)' = Pieces(x)

LEMMA FlowTypes ==
    ASSUME TypeOK, NEW x \in Executions
    PROVE  /\ log[x] \in Seq(Anything) /\ records[x] \in Seq(Anything)
           /\ outbox[x] \in Seq(Anything)
           /\ queue \in Seq(Message) /\ Line(queue, x) \in Seq(Anything)
<1>1. /\ log[x] \in Seq(Events) /\ records[x] \in Seq(Captures)
      /\ outbox[x] \in Seq(Captures) /\ queue \in Seq(Message)
    BY DEF TypeOK, Message
<1>2. Captures \subseteq Anything /\ Events \subseteq Anything
    BY DEF Events, Anything
<1> QED
    BY <1>1, <1>2, SeqMonotonic, LineType

LEMMA FlowStill ==
    ASSUME FlowInv, UNCHANGED <<log, records, queue, outbox>>,
           NEW x \in Executions
    PROVE  Kept(x)
BY DEF FlowInv, Kept, Flow, Pieces

LEMMA FlowMarked ==
    ASSUME TypeOK, FlowInv, UNCHANGED <<records, queue, outbox>>,
           NEW e \in Executions, NEW mark \in Neutral,
           log' = [log EXCEPT ![e] = Append(@, mark)], NEW x \in Executions
    PROVE  Kept(x)
<1>1. CASE x = e
    <2>1. log'[x] = Append(log[x], mark)
        BY <1>1 DEF TypeOK
    <2>2. /\ InFlow(Append(log[x], mark), records[x], Line(queue, x), outbox[x])
          /\ PiecesOf(Append(log[x], mark), records[x], Line(queue, x), outbox[x])
               = PiecesOf(log[x], records[x], Line(queue, x), outbox[x])
        BY FlowTypes, FlowMark DEF FlowInv, Flow
    <2> QED
        BY <2>1, <2>2 DEF Kept, Flow, Pieces
<1>2. CASE x # e
    <2>1. log'[x] = log[x]
        BY <1>2 DEF TypeOK
    <2> QED
        BY <2>1 DEF Kept, FlowInv, Flow, Pieces
<1> QED
    BY <1>1, <1>2

LEMMA FlowSent ==
    ASSUME TypeOK, FlowInv, NEW e \in Executions, SendRecord(e),
           NEW x \in Executions
    PROVE  Kept(x)
<1> DEFINE m == [of |-> e, event |-> Head(outbox[e])]
<1>1. /\ m \in Message /\ queue' = Append(queue, m) /\ outbox[e] # <<>>
      /\ outbox' = [outbox EXCEPT ![e] = Tail(@)]
      /\ UNCHANGED <<log, records>>
    BY TypeSend DEF SendRecord, Enqueue, writerVars
<1>2. queue \in Seq(Message) /\ Line(queue, x) \in Seq(Anything)
        /\ log[x] \in Seq(Anything) /\ records[x] \in Seq(Anything)
        /\ outbox[x] \in Seq(Anything) /\ Flow(x)
    BY FlowTypes DEF FlowInv
<1>3. m.of = e /\ m.event = Head(outbox[e])
    OBVIOUS
<1> HIDE DEF m
<1>4. Line(queue', x) =
        Append(Line(queue, x), IF m.of = x THEN m.event ELSE Other)
    BY <1>1, <1>2, LineAppend
<1>5. CASE x = e
    <2>1. Line(queue', x) = Append(Line(queue, x), Head(outbox[x]))
        BY <1>3, <1>4, <1>5
    <2>2. outbox'[x] = Tail(outbox[x]) /\ outbox[x] # <<>>
        BY <1>1, <1>5 DEF TypeOK
    <2> QED
        BY <1>1, <1>2, <2>1, <2>2, FlowSend DEF Kept, Flow, Pieces
<1>6. CASE x # e
    <2>1. Line(queue', x) = Append(Line(queue, x), Other)
        BY <1>3, <1>4, <1>6
    <2>2. outbox'[x] = outbox[x]
        BY <1>1, <1>6 DEF TypeOK
    <2>3. /\ Other \in Anything /\ Other \notin Captures
          /\ \A a : Before(a, Other) /\ Before(Other, a)
        BY NeutralAnywhere DEF Neutral
    <2>4. MayJoin(log[x], records[x], Line(queue, x), outbox[x], Other)
        BY <2>3 DEF MayJoin
    <2>5. InFlow(log[x], records[x], Line(queue, x), outbox[x])
        BY <1>2 DEF Flow
    <2>6. /\ InFlow(log[x], records[x], Append(Line(queue, x), Other), outbox[x])
          /\ PiecesOf(log[x], records[x], Append(Line(queue, x), Other), outbox[x])
               = PiecesOf(log[x], records[x], Line(queue, x), outbox[x])
        BY <1>2, <2>4, <2>5, FlowJoin
    <2> QED
        BY <1>1, <2>1, <2>2, <2>6 DEF Kept, Flow, Pieces
<1> QED
    BY <1>5, <1>6

\* A barrier follows all of its execution's output, and there is one at most.
LEMMA FlowBarrier ==
    ASSUME TypeOK, FlowInv, FlushInv, NEW e \in Executions, SendBarrier(e),
           NEW x \in Executions
    PROVE  Kept(x)
<1> DEFINE y == IF e = x THEN Mark("barrier") ELSE Other
<1>1. /\ queue' = Append(queue, Barrier(e)) /\ Barrier(e) \in Message
      /\ UNCHANGED <<log, records, outbox>> /\ pc[e] = "flush"
    BY TypeBarrier DEF SendBarrier, Enqueue, writerVars
<1>2. queue \in Seq(Message) /\ Line(queue, x) \in Seq(Anything)
        /\ log[x] \in Seq(Events) /\ records[x] \in Seq(Captures)
        /\ log[x] \in Seq(Anything) /\ records[x] \in Seq(Anything)
        /\ outbox[x] \in Seq(Anything) /\ Flow(x)
    BY FlowTypes DEF FlowInv, TypeOK
<1>3. Line(queue', x) = Append(Line(queue, x), y)
    BY <1>1, <1>2, LineAppend DEF Barrier
<1>4. y \in Anything /\ y \notin Captures
    BY CaptureKinds, NeutralAnywhere DEF Anything, Neutral, Mark, Other
<1>5. ASSUME NEW a \in Elems(log[x]) \cup Elems(records[x])
      PROVE  a.kind # "barrier"
    <2>1. a \in Events
        BY <1>2, ElemsOfSeq DEF Events
    <2> QED
        BY <2>1, CaptureKinds DEF Events, Mark
<1>6. ASSUME NEW a \in Elems(Line(queue, x)), x = e PROVE a.kind # "barrier"
    BY <1>1, <1>6 DEF FlushInv, Flushed
<1>7. \A a \in Elems(log[x]) \cup Elems(records[x]) \cup Elems(Line(queue, x)) :
        Before(a, y)
    <2>1. CASE x = e
        BY <1>5, <1>6, <2>1 DEF Before, Mark
    <2>2. CASE x # e
        BY <2>2, NeutralAnywhere DEF Neutral
    <2> QED
        BY <2>1, <2>2
<1>8. \A b \in Elems(outbox[x]) : Before(y, b)
    <2>1. CASE x = e
        BY <1>1, <2>1, ElemsEmpty DEF FlushInv, Flushed
    <2>2. CASE x # e
        BY <2>2, NeutralAnywhere DEF Neutral
    <2> QED
        BY <2>1, <2>2
<1> HIDE DEF y
<1>9. InFlow(log[x], records[x], Line(queue, x), outbox[x])
    BY <1>2 DEF Flow
<1>10. MayJoin(log[x], records[x], Line(queue, x), outbox[x], y)
    BY <1>4, <1>7, <1>8 DEF MayJoin
<1>11. /\ InFlow(log[x], records[x], Append(Line(queue, x), y), outbox[x])
       /\ PiecesOf(log[x], records[x], Append(Line(queue, x), y), outbox[x])
            = PiecesOf(log[x], records[x], Line(queue, x), outbox[x])
    BY <1>2, <1>9, <1>10, FlowJoin
<1> QED
    BY <1>1, <1>3, <1>11 DEF Kept, Flow, Pieces

\* What is recorded of a chunk comes after all there is; nothing comes after
\* the marker.
LEMMA FlowCaptured ==
    ASSUME TypeOK, FlowInv, ExtentInv, FlushInv,
           NEW e \in Executions, CaptureOutput(e),
           NEW size \in Nat \ {0}, NEW kept \in 0 .. MaxBytes, NEW mark \in BOOLEAN,
           kept = Persist(wrote[e], size), mark = (kept < size /\ ~cut[e]),
           outbox' = [outbox EXCEPT ![e] = Fresh(wrote[e], kept, mark)],
           NEW x \in Executions
    PROVE  /\ Flow(x)'
           /\ x # e => Pieces(x)' = Pieces(x)
           /\ x = e =>
                Pieces(x)' = Pieces(x) \cup
                  (IF kept > 0 THEN {Output(wrote[e], kept)} ELSE {}) \cup
                  (IF mark THEN {Mark("truncated")} ELSE {})
<1> DEFINE new == Fresh(wrote[e], kept, mark)
           N == (IF kept > 0 THEN {Output(wrote[e], kept)} ELSE {}) \cup
                (IF mark THEN {Mark("truncated")} ELSE {})
<1>1. UNCHANGED <<log, records, queue>> /\ outbox[e] = <<>> /\ pc[e] = "reading"
    BY DEF CaptureOutput, writerVars
<1>2. CASE x # e
    <2>1. outbox'[x] = outbox[x]
        BY <1>2 DEF TypeOK
    <2> QED
        BY <1>1, <1>2, <2>1 DEF FlowInv, Flow, Pieces
<1>3. CASE x = e
    <2>1. wrote[e] \in 0 .. MaxBytes /\ wrote[e] \in Nat
        BY DEF TypeOK
    <2>2. new \in Seq(Captures) /\ Elems(new) = N /\ InOrder(new)
        BY <2>1, FreshOutbox
    <2>3. outbox'[x] = new
        BY <1>3 DEF TypeOK
    <2>4. /\ log[x] \in Seq(Events) /\ records[x] \in Seq(Captures)
          /\ queue \in Seq(Message) /\ Line(queue, x) \in Seq(Anything)
        BY FlowTypes DEF TypeOK
    <2>5. ASSUME NEW a \in Elems(log[x]) \cup Elems(records[x]) \cup
                           Elems(Line(queue, x)),
                 NEW b \in N
          PROVE  Before(a, b)
        <3>1. a \in Anything /\ a.kind # "barrier"
            <4>1. CASE a \in Elems(Line(queue, x))
                BY <1>1, <1>3, <2>4, <4>1, ElemsOfSeq DEF FlushInv, Flushed
            <4>2. CASE a \in Elems(log[x]) \cup Elems(records[x])
                <5>1. a \in Events
                    BY <2>4, <4>2, ElemsOfSeq DEF Events
                <5> QED
                    BY <5>1, CaptureKinds DEF Events, Anything, Mark
            <4> QED
                BY <4>1, <4>2
        <3>2. CASE a \notin Captures
            <4>1. a \in Neutral
                BY <3>1, <3>2 DEF Anything, Events, Neutral, Mark
            <4> QED
                BY <4>1, NeutralAnywhere
        <3>3. CASE a \in Captures
            <4>1. a \in Pieces(x)
                BY <3>3 DEF Pieces, PiecesOf
            <4>2. /\ a.kind = "output" => a.at + a.len <= wrote[e]
                  /\ a.kind = "truncated" => cut[e]
                BY <1>3, <4>1 DEF ExtentInv
            <4>3. CASE b = Output(wrote[e], kept) /\ kept > 0
                <5>1. wrote[e] < Limit /\ Limit \in Nat
                    BY <2>1, <4>3, PersistBounds, CaptureAssumption
                <5>2. ~cut[e]
                    BY <2>1, <5>1 DEF ExtentInv
                <5> QED
                    BY <3>1, <4>2, <4>3, <5>2 DEF Before, Output
            <4>4. CASE b = Mark("truncated") /\ mark
                BY <3>1, <4>2, <4>4 DEF Before, Mark
            <4> QED
                BY <4>3, <4>4
        <3> QED
            BY <3>2, <3>3
    <2>6. AllBefore(Elems(log[x]) \cup Elems(records[x]) \cup
                    Elems(Line(queue, x)), Elems(new))
        BY <2>2, <2>5 DEF AllBefore
    <2>7. InFlow(log[x], records[x], Line(queue, x), <<>>)
        BY <1>1, <1>3 DEF FlowInv, Flow
    <2>8. N \subseteq Captures
        BY <2>1 DEF Captures
    <2> HIDE DEF new, N
    <2>9. /\ InFlow(log[x], records[x], Line(queue, x), new)
          /\ PiecesOf(log[x], records[x], Line(queue, x), new) =
               PiecesOf(log[x], records[x], Line(queue, x), <<>>) \cup
               (Captures \cap Elems(new))
        BY <2>2, <2>6, <2>7, FlowFill
    <2>10. Captures \cap Elems(new) = N
        BY <2>2, <2>8
    <2>11. Flow(x)' /\ Pieces(x)' = Pieces(x) \cup N
        BY <1>1, <1>3, <2>3, <2>9, <2>10 DEF Flow, Pieces
    <2> QED
        BY <1>3, <2>11 DEF N
<1> QED
    BY <1>2, <1>3

LEMMA FlowPruned ==
    ASSUME FlowInv, NEW e \in Executions, Prune(e), NEW x \in Executions
    PROVE  /\ Flow(x)' /\ Pieces(x)' \subseteq Pieces(x)
           /\ Pieces(x)' = Pieces(x) \/ row'[x] = "pruned"
<1>1. PICK S \in SUBSET {y \in Executions : Closed(y)} :
        /\ row' = [y \in Executions |-> IF y \in S THEN "pruned" ELSE row[y]]
        /\ log' = [y \in Executions |-> IF y \in S THEN <<>> ELSE log[y]]
    BY DEF Prune
<1>2. UNCHANGED <<records, queue, outbox>>
    BY DEF Prune, writerVars
<1>3. InFlow(log[x], records[x], Line(queue, x), outbox[x])
    BY DEF FlowInv, Flow
<1>4. CASE x \in S
    <2>1. log'[x] = <<>> /\ row'[x] = "pruned"
        BY <1>1, <1>4
    <2> QED
        BY <1>2, <1>3, <2>1, FlowForget DEF Flow, Pieces
<1>5. CASE x \notin S
    <2>1. log'[x] = log[x]
        BY <1>1, <1>5
    <2> QED
        BY <1>2, <1>3, <2>1 DEF Flow, Pieces
<1> QED
    BY <1>4, <1>5

\* The writer takes a record: from the line into the batch.
LEMMA FlowTaken ==
    ASSUME TypeOK, FlowInv, FlushInv, NextIsRecord, NEW x \in Executions
    PROVE  /\ InFlow(log[x], Taken[x], Line(Tail(queue), x), outbox[x])
           /\ PiecesOf(log[x], Taken[x], Line(Tail(queue), x), outbox[x])
                = Pieces(x)
           /\ Taken[x] # <<>> => answer[x] = "none"
<1> DEFINE h == Head(queue)
<1>1. queue # <<>> /\ h.event \in Captures
    BY QueueHead DEF NextIsRecord
<1>2. /\ log[x] \in Seq(Anything) /\ records[x] \in Seq(Anything)
      /\ outbox[x] \in Seq(Anything)
      /\ queue \in Seq(Message) /\ Line(queue, x) \in Seq(Anything)
    BY FlowTypes
<1>3. /\ Line(Tail(queue), x) = Tail(Line(queue, x)) /\ Line(queue, x) # <<>>
      /\ Head(Line(queue, x)) = IF h.of = x THEN h.event ELSE Other
    BY <1>1, <1>2, LineTail
<1>4. InFlow(log[x], records[x], Line(queue, x), outbox[x])
    BY DEF FlowInv, Flow
<1>5. Head(Line(queue, x)) \in Elems(Line(queue, x))
    BY <1>2, <1>3, ElemsTail
<1>6. CASE h.of = x
    <2>1. Taken[x] = Append(records[x], Head(Line(queue, x)))
        BY <1>3, <1>6 DEF Taken, TypeOK
    <2>2. h.event # Other
        BY <1>1, NeutralAnywhere DEF Neutral
    <2>3. answer[x] = "none"
        BY <1>3, <1>5, <1>6, <2>2 DEF FlushInv, Flushed
    <2>4. /\ InFlow(log[x], Append(records[x], Head(Line(queue, x))),
                    Tail(Line(queue, x)), outbox[x])
          /\ PiecesOf(log[x], Append(records[x], Head(Line(queue, x))),
                      Tail(Line(queue, x)), outbox[x])
               = PiecesOf(log[x], records[x], Line(queue, x), outbox[x])
        BY <1>2, <1>3, <1>4, FlowTake
    <2> QED
        BY <1>3, <2>1, <2>3, <2>4 DEF Pieces
<1>7. CASE h.of # x
    <2>1. Taken[x] = records[x]
        BY <1>7 DEF Taken, TypeOK
    <2>2. Head(Line(queue, x)) \notin Captures
        BY <1>3, <1>7, NeutralAnywhere DEF Neutral
    <2>3. records[x] # <<>> => answer[x] = "none"
        BY DEF FlushInv, Flushed
    <2>4. /\ InFlow(log[x], records[x], Tail(Line(queue, x)), outbox[x])
          /\ PiecesOf(log[x], records[x], Tail(Line(queue, x)), outbox[x])
               = PiecesOf(log[x], records[x], Line(queue, x), outbox[x])
        BY <1>2, <1>3, <1>4, <2>2, FlowDrop
    <2> QED
        BY <1>3, <2>1, <2>3, <2>4 DEF Pieces
<1> QED
    BY <1>6, <1>7

\* The writer takes a barrier.
LEMMA FlowPassed ==
    ASSUME TypeOK, FlowInv, NextIsBarrier, NEW x \in Executions
    PROVE  /\ InFlow(log[x], records[x], Line(Tail(queue), x), outbox[x])
           /\ PiecesOf(log[x], records[x], Line(Tail(queue), x), outbox[x])
                = Pieces(x)
<1> DEFINE h == Head(queue)
<1>1. queue # <<>> /\ h.event = Mark("barrier")
    BY QueueHead DEF NextIsBarrier
<1>2. /\ log[x] \in Seq(Anything) /\ records[x] \in Seq(Anything)
      /\ outbox[x] \in Seq(Anything)
      /\ queue \in Seq(Message) /\ Line(queue, x) \in Seq(Anything)
    BY FlowTypes
<1>3. /\ Line(Tail(queue), x) = Tail(Line(queue, x)) /\ Line(queue, x) # <<>>
      /\ Head(Line(queue, x)) = IF h.of = x THEN h.event ELSE Other
    BY <1>1, <1>2, LineTail
<1>4. InFlow(log[x], records[x], Line(queue, x), outbox[x])
    BY DEF FlowInv, Flow
<1>5. Head(Line(queue, x)) \notin Captures
    BY <1>1, <1>3, CaptureKinds DEF Mark, Other
<1>6. /\ InFlow(log[x], records[x], Tail(Line(queue, x)), outbox[x])
      /\ PiecesOf(log[x], records[x], Tail(Line(queue, x)), outbox[x])
           = PiecesOf(log[x], records[x], Line(queue, x), outbox[x])
    BY <1>2, <1>3, <1>4, <1>5, FlowDrop
<1> QED
    BY <1>3, <1>6 DEF Pieces

\* A batch is written, or lost.
LEMMA FlowBatch ==
    ASSUME TypeOK, NEW batch \in [Executions -> Seq(Captures)],
           Written(batch) \/ Lost(batch), Emptied, UNCHANGED outbox,
           NEW x \in Executions,
           InFlow(log[x], batch[x], Line(queue', x), outbox[x]),
           PiecesOf(log[x], batch[x], Line(queue', x), outbox[x]) = Pieces(x),
           Line(queue', x) \in Seq(Anything)
    PROVE  /\ Flow(x)' /\ Pieces(x)' \subseteq Pieces(x)
           /\ Written(batch) \/ batch[x] = <<>> => Pieces(x)' = Pieces(x)
           /\ Lost(batch) => fatal' = TRUE
<1>0. Lost(batch) => fatal' = TRUE
    BY DEF Lost
<1>1. records'[x] = <<>>
    BY DEF Emptied
<1>2. log[x] \in Seq(Anything) /\ outbox[x] \in Seq(Anything)
    BY FlowTypes
<1>3. batch[x] \in Seq(Anything)
    <2>1. batch[x] \in Seq(Captures) /\ Captures \subseteq Anything
        BY DEF Anything, Events
    <2> QED
        BY <2>1, SeqMonotonic
<1>4. CASE Written(batch)
    <2>1. log'[x] = log[x] \o batch[x]
        BY <1>4 DEF Written
    <2> QED
        BY <1>0, <1>1, <1>2, <1>3, <2>1, FlowWrite DEF Flow, Pieces
<1>5. CASE Lost(batch) /\ ~Written(batch)
    <2>1. log' = log
        BY <1>5 DEF Lost
    <2>2. Flow(x)' /\ Pieces(x)' \subseteq Pieces(x)
        BY <1>1, <2>1, FlowLose DEF Flow, Pieces
    <2>3. batch[x] = <<>> => Pieces(x)' = Pieces(x)
        BY <1>1, <2>1 DEF Pieces
    <2> QED
        BY <1>0, <1>5, <2>2, <2>3
<1> QED
    BY <1>4, <1>5

LEMMA FlowWriter ==
    ASSUME TypeOK, FlowInv, FlushInv, WriterStep, NEW x \in Executions
    PROVE  /\ Flow(x)' /\ Pieces(x)' \subseteq Pieces(x)
           /\ Pieces(x)' = Pieces(x) \/ Refused(x)'
<1>1. records \in [Executions -> Seq(Captures)]
    BY DEF TypeOK
<1>2. CASE WriterRecord
    <2>1. /\ NextIsRecord /\ queue' = Tail(queue)
          /\ UNCHANGED <<outbox, answer>>
        BY <1>2 DEF WriterRecord, taskVars
    <2>2. /\ InFlow(log[x], Taken[x], Line(queue', x), outbox[x])
          /\ PiecesOf(log[x], Taken[x], Line(queue', x), outbox[x]) = Pieces(x)
          /\ Taken[x] # <<>> => answer[x] = "none"
        BY <2>1, FlowTaken
    <2>3. Taken \in [Executions -> Seq(Captures)]
        BY <2>1, TakenType
    <2>4. Line(queue', x) \in Seq(Anything)
        BY <2>1, QueueHead, LineType DEF NextIsRecord
    <2>5. CASE batched + 1 >= BatchSize
        <3>1. Flush(Taken) /\ Emptied
            BY <1>2, <2>5 DEF WriterRecord, Taken
        <3>2. Written(Taken) \/ Lost(Taken)
            BY <3>1 DEF Flush
        <3>3. /\ Flow(x)' /\ Pieces(x)' \subseteq Pieces(x)
              /\ Written(Taken) \/ Taken[x] = <<>> => Pieces(x)' = Pieces(x)
              /\ Lost(Taken) => fatal' = TRUE
            BY <2>1, <2>2, <2>3, <2>4, <3>1, <3>2, FlowBatch
        <3> QED
            BY <2>1, <2>2, <3>1, <3>3 DEF Refused, Flush
    <2>6. CASE ~(batched + 1 >= BatchSize)
        <3>1. records' = Taken /\ UNCHANGED log
            BY <1>2, <2>6 DEF WriterRecord, Taken
        <3> QED
            BY <2>1, <2>2, <3>1 DEF Flow, Pieces
    <2> QED
        BY <2>5, <2>6
<1>3. CASE WriterIdle
    <2>1. /\ Flush(records) /\ Emptied /\ queue' = queue
          /\ UNCHANGED <<outbox, answer>>
        BY <1>3 DEF WriterIdle, taskVars
    <2>2. /\ InFlow(log[x], records[x], Line(queue', x), outbox[x])
          /\ PiecesOf(log[x], records[x], Line(queue', x), outbox[x]) = Pieces(x)
          /\ records[x] # <<>> => answer[x] = "none"
          /\ Line(queue', x) \in Seq(Anything)
        BY <2>1, FlowTypes DEF FlowInv, Flow, Pieces, FlushInv, Flushed
    <2>3. Written(records) \/ Lost(records)
        BY <2>1 DEF Flush
    <2>4. /\ Flow(x)' /\ Pieces(x)' \subseteq Pieces(x)
          /\ Written(records) \/ records[x] = <<>> => Pieces(x)' = Pieces(x)
          /\ Lost(records) => fatal' = TRUE
        BY <1>1, <2>1, <2>2, <2>3, FlowBatch
    <2> QED
        BY <2>1, <2>2, <2>4 DEF Refused, Flush
<1>4. CASE WriterBarrier
    <2>1. /\ NextIsBarrier /\ queue' = Tail(queue) /\ Emptied
          /\ UNCHANGED outbox
        BY <1>4 DEF WriterBarrier, taskVars
    <2>2. PICK result \in {"ok", "error"} :
            /\ \/ Written(records) /\ (result = "error") = pending
               \/ Lost(records) /\ result = "error"
            /\ answer' = [answer EXCEPT ![Head(queue).of] = result]
        BY <1>4 DEF WriterBarrier
    <2>3. /\ InFlow(log[x], records[x], Line(queue', x), outbox[x])
          /\ PiecesOf(log[x], records[x], Line(queue', x), outbox[x]) = Pieces(x)
        BY <2>1, FlowPassed
    <2>4. Line(queue', x) \in Seq(Anything)
        BY <2>1, QueueHead, LineType DEF NextIsBarrier
    <2>5. Written(records) \/ Lost(records)
        BY <2>2
    <2>6. /\ Flow(x)' /\ Pieces(x)' \subseteq Pieces(x)
          /\ Written(records) \/ records[x] = <<>> => Pieces(x)' = Pieces(x)
          /\ Lost(records) => fatal' = TRUE
        BY <1>1, <2>1, <2>3, <2>4, <2>5, FlowBatch
    <2>7. CASE Lost(records) /\ result = "error"
        <3>1. Head(queue).of \in Executions
            BY <2>1, QueueHead DEF NextIsBarrier
        <3>2. answer'[Head(queue).of] = "error"
            BY <2>2, <2>7, <3>1 DEF TypeOK
        <3> QED
            BY <2>6, <2>7, <3>1, <3>2 DEF Refused
    <2> QED
        BY <2>2, <2>6, <2>7
<1> QED
    BY <1>2, <1>3, <1>4 DEF WriterStep

\* A task's step that may close its row, and moves no piece.
LEMMA FlowClosing ==
    ASSUME TypeOK, FlowInv, UNCHANGED <<records, queue, outbox>>,
           NEW e \in Executions,
           \/ \E state : Finish(e, state)
           \/ log' = [log EXCEPT ![e] = Append(@, Mark("started"))]
           \/ UNCHANGED log,
           NEW x \in Executions
    PROVE  Kept(x)
<1>1. Mark("finished") \in Neutral /\ Mark("started") \in Neutral
    BY DEF Neutral
<1> QED
    BY <1>1, FlowMarked, FlowStill DEF Finish

LEMMA FlowTask ==
    ASSUME TypeOK, FlowInv, ExtentInv, FlushInv, NEW e \in Executions,
           TaskStep(e) \/ Outside(e), NEW x \in Executions
    PROVE  /\ Flow(x)'
           /\ CaptureOutput(x) \/ Pieces(x)' \subseteq Pieces(x)
           /\ \/ CaptureOutput(x)
              \/ Pieces(x)' = Pieces(x)
              \/ row'[x] = "pruned"
<1>1. CASE HandleStarted(e)
    <2>1. /\ UNCHANGED <<records, queue, outbox>>
          /\ \/ log' = [log EXCEPT ![e] = Append(@, Mark("started"))]
             \/ UNCHANGED log
        BY <1>1 DEF HandleStarted, writerVars
    <2> QED
        BY <2>1, FlowClosing DEF Kept
<1>2. CASE SendRecord(e)
    BY <1>2, FlowSent DEF Kept
<1>3. CASE SendBarrier(e)
    BY <1>3, FlowBarrier DEF Kept
<1>4. CASE RecordOutcome(e)
    <2>1. /\ UNCHANGED <<records, queue, outbox>>
          /\ Finish(e, "finished") \/ UNCHANGED log
        BY <1>4 DEF RecordOutcome, writerVars
    <2> QED
        BY <2>1, FlowClosing DEF Kept
<1>5. CASE RecordFailure(e)
    <2>1. /\ UNCHANGED <<records, queue, outbox>>
          /\ Finish(e, "interrupted") \/ UNCHANGED log
        BY <1>5 DEF RecordFailure
    <2> QED
        BY <2>1, FlowClosing DEF Kept
<1>6. CASE Prune(e)
    BY <1>6, FlowPruned
<1>7. CASE CaptureOutput(e)
    <2>1. PICK size \in ChunkSizes :
            LET kept == Persist(wrote[e], size)
                mark == kept < size /\ ~cut[e]
            IN  /\ size \in Nat \ {0} /\ kept \in 0 .. MaxBytes
                /\ wrote[e] + size \in 0 .. MaxBytes
                /\ wrote' = [wrote EXCEPT ![e] = @ + size]
                /\ cut' = [cut EXCEPT ![e] = @ \/ kept < size]
                /\ outbox' = [outbox EXCEPT ![e] = Fresh(wrote[e], kept, mark)]
        BY <1>7, CaptureChunk
    <2> DEFINE kept == Persist(wrote[e], size)
               mark == kept < size /\ ~cut[e]
    <2>2. mark \in BOOLEAN
        OBVIOUS
    <2>3. /\ Flow(x)'
          /\ x # e => Pieces(x)' = Pieces(x)
        BY <1>7, <2>1, <2>2, FlowCaptured
    <2> QED
        BY <1>7, <2>3
<1>8. CASE StreamEnds(e) \/ TaskFails(e)
    <2>1. UNCHANGED <<records, queue, outbox, log>>
        BY <1>8 DEF StreamEnds, TaskFails, writerVars
    <2> QED
        BY <2>1, FlowStill DEF Kept
<1>9. CASE CloseQueued(e)
    <2>1. UNCHANGED <<records, queue, outbox>> /\ Finish(e, "cancelled")
        BY <1>9 DEF CloseQueued, taskVars, writerVars
    <2> QED
        BY <2>1, FlowClosing DEF Kept
<1> QED
    BY <1>1, <1>2, <1>3, <1>4, <1>5, <1>6, <1>7, <1>8, <1>9
    DEF TaskStep, Outside

LEMMA PiecesStep ==
    ASSUME TypeOK, FlowInv, ExtentInv, FlushInv, [Next]_vars, NEW x \in Executions
    PROVE  /\ Flow(x)'
           /\ CaptureOutput(x) \/ Pieces(x)' \subseteq Pieces(x)
           /\ \/ CaptureOutput(x)
              \/ Pieces(x)' = Pieces(x)
              \/ row'[x] = "pruned"
              \/ Refused(x)'
<1>1. CASE UNCHANGED vars
    BY <1>1, FlowStill DEF vars, taskVars, writerVars, Kept
<1>2. CASE WriterStep
    BY <1>2, FlowWriter
<1>3. CASE \E e \in Executions : TaskStep(e) \/ Outside(e)
    BY <1>3, FlowTask
<1> QED
    BY <1>1, <1>2, <1>3 DEF Next

LEMMA FlowStep ==
    TypeOK /\ FlowInv /\ ExtentInv /\ FlushInv /\ [Next]_vars => FlowInv'
BY PiecesStep DEF FlowInv

\* wrote and cut belong to CaptureOutput.
LEMMA WroteStep ==
    ASSUME TypeOK, [Next]_vars, NEW x \in Executions
    PROVE  CaptureOutput(x) \/ (wrote'[x] = wrote[x] /\ cut'[x] = cut[x])
<1>1. CASE UNCHANGED vars \/ WriterStep
    BY <1>1 DEF vars, taskVars, WriterStep, WriterRecord, WriterIdle,
       WriterBarrier
<1>2. ASSUME NEW e \in Executions, TaskStep(e) \/ Outside(e)
      PROVE  CaptureOutput(x) \/ (wrote'[x] = wrote[x] /\ cut'[x] = cut[x])
    <2>1. CASE CaptureOutput(e)
        <3>1. \E size : /\ wrote' = [wrote EXCEPT ![e] = @ + size]
                        /\ cut' = [cut EXCEPT ![e] =
                                     @ \/ Persist(wrote[e], size) < size]
            BY <2>1 DEF CaptureOutput
        <3> QED
            BY <2>1, <3>1 DEF TypeOK
    <2>2. CASE ~CaptureOutput(e)
        BY <1>2, <2>2 DEF TaskStep, Outside, HandleStarted, SendRecord,
           SendBarrier, RecordOutcome, RecordFailure, Prune, StreamEnds,
           TaskFails, CloseQueued, taskVars
    <2> QED
        BY <2>1, <2>2
<1> QED
    BY <1>1, <1>2 DEF Next

\* Everything FlowCaptured and PersistBounds say of a chunk, with numbers.
LEMMA CaptureStep ==
    ASSUME TypeOK, FlowInv, ExtentInv, FlushInv,
           NEW x \in Executions, CaptureOutput(x)
    PROVE  \E size \in Nat \ {0}, kept \in Nat :
             /\ wrote[x] \in Nat /\ wrote'[x] = wrote[x] + size /\ kept <= size
             /\ cut'[x] <=> wrote[x] + size > Limit
             /\ kept < size <=> wrote[x] + size > Limit
             /\ kept > 0 <=> wrote[x] < Limit
             /\ kept > 0 => wrote[x] + kept <= Limit
             /\ kept > 0 /\ kept < size => wrote[x] + kept = Limit
             /\ Pieces(x)' = Pieces(x) \cup
                  (IF kept > 0 THEN {Output(wrote[x], kept)} ELSE {}) \cup
                  (IF kept < size /\ ~cut[x] THEN {Mark("truncated")} ELSE {})
<1>1. PICK size \in ChunkSizes :
        LET kept == Persist(wrote[x], size)
            mark == kept < size /\ ~cut[x]
        IN  /\ size \in Nat \ {0} /\ kept \in 0 .. MaxBytes
            /\ wrote[x] + size \in 0 .. MaxBytes
            /\ wrote' = [wrote EXCEPT ![x] = @ + size]
            /\ cut' = [cut EXCEPT ![x] = @ \/ kept < size]
            /\ outbox' = [outbox EXCEPT ![x] = Fresh(wrote[x], kept, mark)]
    BY CaptureChunk
<1> DEFINE kept == Persist(wrote[x], size)
           mark == kept < size /\ ~cut[x]
<1>2. /\ size \in Nat \ {0} /\ kept \in 0 .. MaxBytes /\ mark \in BOOLEAN
      /\ kept = Persist(wrote[x], size) /\ mark = (kept < size /\ ~cut[x])
      /\ outbox' = [outbox EXCEPT ![x] = Fresh(wrote[x], kept, mark)]
    BY <1>1
<1> HIDE DEF kept, mark
<1>3. Pieces(x)' = Pieces(x) \cup
        (IF kept > 0 THEN {Output(wrote[x], kept)} ELSE {}) \cup
        (IF mark THEN {Mark("truncated")} ELSE {})
    BY <1>2, FlowCaptured, Zenon
<1>4. wrote[x] \in Nat /\ size \in Nat \ {0} /\ kept \in Nat /\ Limit \in Nat
    BY <1>2, CaptureAssumption DEF TypeOK
<1>5. /\ kept <= size
      /\ kept > 0 => wrote[x] < Limit /\ wrote[x] + kept <= Limit
      /\ kept < size <=> wrote[x] + size > Limit
      /\ wrote[x] < Limit => kept > 0
      /\ kept < size /\ wrote[x] < Limit => wrote[x] + kept = Limit
    BY <1>2, <1>4, PersistBounds
<1>6. wrote'[x] = wrote[x] + size /\ cut'[x] = (cut[x] \/ kept < size)
    BY <1>1, <1>2 DEF TypeOK
<1>7. cut[x] <=> wrote[x] > Limit
    BY DEF ExtentInv
<1>8. wrote[x] > Limit => wrote[x] + size > Limit
    BY <1>4
<1>9. cut'[x] <=> wrote[x] + size > Limit
    BY <1>5, <1>6, <1>7, <1>8
<1> QED
    BY <1>2, <1>3, <1>4, <1>5, <1>6, <1>9

LEMMA ExtentStep ==
    TypeOK /\ FlowInv /\ ExtentInv /\ FlushInv /\ [Next]_vars => ExtentInv'
<1> SUFFICES ASSUME TypeOK, FlowInv, ExtentInv, FlushInv, [Next]_vars,
                    NEW x \in Executions
             PROVE  /\ cut'[x] <=> wrote'[x] > Limit
                    /\ \A p \in Pieces(x)' :
                         /\ p.kind = "output" => /\ p.at + p.len <= wrote'[x]
                                                 /\ p.at + p.len <= Limit
                         /\ p.kind = "truncated" => cut'[x]
    BY DEF ExtentInv
<1>1. CASE CaptureOutput(x)
    <2>1. PICK size \in Nat \ {0}, kept \in Nat :
             /\ wrote[x] \in Nat /\ wrote'[x] = wrote[x] + size /\ kept <= size
             /\ cut'[x] <=> wrote[x] + size > Limit
             /\ kept < size <=> wrote[x] + size > Limit
             /\ kept > 0 <=> wrote[x] < Limit
             /\ kept > 0 => wrote[x] + kept <= Limit
             /\ kept > 0 /\ kept < size => wrote[x] + kept = Limit
             /\ Pieces(x)' = Pieces(x) \cup
                  (IF kept > 0 THEN {Output(wrote[x], kept)} ELSE {}) \cup
                  (IF kept < size /\ ~cut[x] THEN {Mark("truncated")} ELSE {})
        BY <1>1, CaptureStep
    <2>2. ASSUME NEW p \in Pieces(x)'
          PROVE  /\ p.kind = "output" => /\ p.at + p.len <= wrote'[x]
                                         /\ p.at + p.len <= Limit
                 /\ p.kind = "truncated" => cut'[x]
        <3>1. CASE p \in Pieces(x)
            <4>1. /\ p.kind = "output" => /\ p.at + p.len <= wrote[x]
                                          /\ p.at + p.len <= Limit
                  /\ p.kind = "truncated" => wrote[x] > Limit
                BY <3>1 DEF ExtentInv
            <4>2. p.kind = "output" => p.at \in Nat /\ p.len \in Nat
                BY <3>1, CaptureKinds DEF Pieces, PiecesOf
            <4>3. p.kind = "output" => p.at + p.len <= wrote'[x]
                BY <2>1, <4>1, <4>2
            <4>4. wrote[x] > Limit => wrote[x] + size > Limit
                BY <2>1, CaptureAssumption
            <4> QED
                BY <2>1, <4>1, <4>3, <4>4
        <3>2. CASE p = Output(wrote[x], kept) /\ kept > 0
            <4>1. p.kind = "output" /\ p.at = wrote[x] /\ p.len = kept
                BY <3>2 DEF Output
            <4>2. wrote[x] + kept <= wrote[x] + size
                BY <2>1
            <4> QED
                BY <2>1, <3>2, <4>1, <4>2
        <3>3. CASE p = Mark("truncated") /\ kept < size
            BY <2>1, <3>3 DEF Mark
        <3> QED
            BY <2>1, <3>1, <3>2, <3>3
    <2> QED
        BY <2>1, <2>2
<1>2. CASE ~CaptureOutput(x)
    BY <1>2, PiecesStep, WroteStep DEF ExtentInv
<1> QED
    BY <1>1, <1>2

\* Who sent the barrier at the head of the queue is not answered yet.
LEMMA BarrierAwaited ==
    ASSUME TypeOK, FlushInv, NextIsBarrier
    PROVE  Head(queue).of \in Executions /\ answer[Head(queue).of] = "none"
<1> DEFINE h == Head(queue).of
<1>1. queue # <<>> /\ Head(queue).event = Mark("barrier") /\ h \in Executions
    BY QueueHead DEF NextIsBarrier
<1>2. queue \in Seq(Message) /\ Line(queue, h) \in Seq(Anything)
    BY <1>1, FlowTypes
<1>3. Line(queue, h) # <<>> /\ Head(Line(queue, h)) = Mark("barrier")
    BY <1>1, <1>2, LineTail
<1>4. Mark("barrier") \in Elems(Line(queue, h))
    BY <1>2, <1>3, ElemsTail
<1> QED
    BY <1>1, <1>4 DEF FlushInv, Flushed, Mark

\* A lost batch is not forgotten before a barrier was refused for it.
LEMMA RefusedStays ==
    ASSUME TypeOK, FlushInv, [Next]_vars, NEW x \in Executions, Refused(x)
    PROVE  Refused(x)'
<1>1. CASE UNCHANGED vars
    BY <1>1 DEF vars, writerVars, Refused
<1>2. CASE WriterRecord \/ WriterIdle
    <2>1. /\ answer' = answer
          /\ \/ \E batch : Flush(batch)
             \/ UNCHANGED <<pending, fatal>>
        <3>1. CASE WriterIdle
            BY <3>1 DEF WriterIdle
        <3>2. CASE WriterRecord /\ batched + 1 >= BatchSize
            BY <3>2 DEF WriterRecord
        <3>3. CASE WriterRecord /\ ~(batched + 1 >= BatchSize)
            BY <3>3 DEF WriterRecord
        <3> QED
            BY <1>2, <3>1, <3>2, <3>3
    <2>2. CASE \E batch : Flush(batch)
        <3>1. PICK batch : Flush(batch)
            BY <2>2
        <3>2. CASE Written(batch) /\ UNCHANGED pending
            BY <2>1, <3>2 DEF Written, Refused
        <3>3. CASE Lost(batch) /\ pending' = TRUE
            <4>1. fatal' = TRUE /\ pending' = TRUE
                BY <3>3 DEF Lost
            <4> QED
                BY <2>1, <4>1 DEF Refused
        <3> QED
            BY <3>1, <3>2, <3>3 DEF Flush
    <2>3. CASE UNCHANGED <<pending, fatal>>
        BY <2>1, <2>3 DEF Refused
    <2> QED
        BY <2>1, <2>2, <2>3
<1>3. CASE WriterBarrier
    <2>1. PICK result \in {"ok", "error"} :
            /\ \/ Written(records) /\ (result = "error") = pending
               \/ Lost(records) /\ result = "error"
            /\ answer' = [answer EXCEPT ![Head(queue).of] = result]
        BY <1>3 DEF WriterBarrier
    <2>2. fatal'
        BY <2>1 DEF Written, Lost, Refused
    <2>3. Head(queue).of \in Executions /\ answer[Head(queue).of] = "none"
        BY <1>3, BarrierAwaited DEF WriterBarrier
    <2>4. CASE \E y \in Executions : answer[y] = "error"
        <3>1. PICK y \in Executions : answer[y] = "error"
            BY <2>4
        <3>2. answer'[y] = "error"
            BY <2>1, <2>3, <3>1 DEF TypeOK
        <3> QED
            BY <2>2, <3>2 DEF Refused
    <2>5. CASE pending
        <3>1. result = "error"
            BY <2>1, <2>5
        <3>2. answer'[Head(queue).of] = "error"
            BY <2>1, <2>3, <3>1 DEF TypeOK
        <3> QED
            BY <2>2, <2>3, <3>2 DEF Refused
    <2> QED
        BY <2>4, <2>5 DEF Refused
<1>4. ASSUME NEW e \in Executions, TaskStep(e) \/ Outside(e)
      PROVE  Refused(x)'
    <2>1. CASE RecordFailure(e)
        BY <2>1 DEF RecordFailure, Refused
    <2>2. CASE ~RecordFailure(e)
        <3>1. UNCHANGED writerVars
            BY <1>4, <2>2 DEF TaskStep, Outside, HandleStarted, SendRecord,
               SendBarrier, RecordOutcome, Prune, CaptureOutput, StreamEnds,
               TaskFails, CloseQueued
        <3> QED
            BY <3>1 DEF writerVars, Refused
    <2> QED
        BY <2>1, <2>2
<1> QED
    BY <1>1, <1>2, <1>3, <1>4 DEF Next, WriterStep

LEMMA RowStep ==
    ASSUME TypeOK, [Next]_vars, NEW x \in Executions
    PROVE  \/ row'[x] = row[x]
           \/ row'[x] = "pruned"
           \/ /\ row[x] \in {"queued", "running"}
              /\ row'[x] \in Terminal \cup {"running"}
<1>1. CASE UNCHANGED vars \/ WriterStep
    BY <1>1 DEF vars, WriterStep, WriterRecord, WriterIdle, WriterBarrier
<1>2. ASSUME NEW e \in Executions, TaskStep(e) \/ Outside(e)
      PROVE  \/ row'[x] = row[x]
             \/ row'[x] = "pruned"
             \/ /\ row[x] \in {"queued", "running"}
                /\ row'[x] \in Terminal \cup {"running"}
    <2>1. CASE HandleStarted(e)
        BY <2>1 DEF HandleStarted, TypeOK
    <2>2. CASE RecordOutcome(e)
        BY <2>2 DEF RecordOutcome, Finish, TypeOK, Terminal
    <2>3. CASE RecordFailure(e)
        BY <2>3 DEF RecordFailure, Finish, TypeOK, Terminal
    <2>4. CASE Prune(e)
        BY <2>4 DEF Prune
    <2>5. CASE CloseQueued(e)
        BY <2>5 DEF CloseQueued, Finish, TypeOK, Terminal
    <2>6. CASE SendRecord(e) \/ SendBarrier(e) \/ CaptureOutput(e)
                 \/ StreamEnds(e) \/ TaskFails(e)
        BY <2>6 DEF SendRecord, SendBarrier, CaptureOutput, StreamEnds, TaskFails
    <2> QED
        BY <1>2, <2>1, <2>2, <2>3, <2>4, <2>5, <2>6 DEF TaskStep, Outside
<1> QED
    BY <1>1, <1>2 DEF Next

LEMMA InBytes ==
    ASSUME NEW S, NEW b
    PROVE  b \in Bytes(S) <=>
             \E p \in S : p.kind = "output" /\ b \in p.at .. p.at + p.len - 1
BY DEF Bytes

LEMMA WholeCaptured ==
    ASSUME TypeOK, FlowInv, ExtentInv, FlushInv, NEW x \in Executions,
           CaptureOutput(x), Whole(x)
    PROVE  Whole(x)'
<1> DEFINE P == Pieces(x)
           w == wrote[x]
<1>1. PICK size \in Nat \ {0}, kept \in Nat :
         /\ w \in Nat /\ wrote'[x] = w + size /\ kept <= size
         /\ cut'[x] <=> w + size > Limit
         /\ kept < size <=> w + size > Limit
         /\ kept > 0 <=> w < Limit
         /\ kept > 0 => w + kept <= Limit
         /\ kept > 0 /\ kept < size => w + kept = Limit
         /\ Pieces(x)' = P \cup
              (IF kept > 0 THEN {Output(w, kept)} ELSE {}) \cup
              (IF kept < size /\ ~cut[x] THEN {Mark("truncated")} ELSE {})
    BY CaptureStep
<1>2. Bytes(P) = {b \in 0 .. Limit - 1 : b < w} /\ Limit \in Nat
        /\ (cut[x] => \E p \in P : p.kind = "truncated")
    BY CaptureAssumption DEF Whole
<1> DEFINE Q == P \cup
              (IF kept > 0 THEN {Output(w, kept)} ELSE {}) \cup
              (IF kept < size /\ ~cut[x] THEN {Mark("truncated")} ELSE {})
<1> HIDE DEF P, w
<1>3. ASSUME NEW b \in Bytes(Q) PROVE b \in 0 .. Limit - 1 /\ b < w + size
    <2>1. PICK p \in Q : p.kind = "output" /\ b \in p.at .. p.at + p.len - 1
        BY <1>3, InBytes
    <2>2. CASE p \in P
        <3>1. b \in Bytes(P)
            BY <2>1, <2>2, InBytes
        <3>2. b \in 0 .. Limit - 1 /\ b < w
            BY <1>2, <3>1
        <3> QED
            BY <1>1, <3>2
    <2>3. CASE p = Output(w, kept) /\ kept > 0
        <3>1. b \in w .. w + kept - 1
            BY <2>1, <2>3 DEF Output
        <3> QED
            BY <1>1, <1>2, <2>3, <3>1
    <2>4. CASE p = Mark("truncated")
        BY <2>1, <2>4 DEF Mark
    <2> QED
        BY <2>1, <2>2, <2>3, <2>4
<1>4. ASSUME NEW b \in 0 .. Limit - 1, b < w + size PROVE b \in Bytes(Q)
    <2>1. CASE b < w
        <3>1. b \in Bytes(P)
            BY <1>2, <2>1
        <3>2. PICK p \in P : p.kind = "output" /\ b \in p.at .. p.at + p.len - 1
            BY <3>1, InBytes
        <3> QED
            BY <3>2, InBytes
    <2>2. CASE ~(b < w)
        <3>1. kept > 0 /\ b \in w .. w + kept - 1
            <4>1. kept > 0
                BY <1>1, <1>2, <2>2
            <4>2. CASE kept < size
                BY <1>1, <1>2, <2>2, <4>1, <4>2
            <4>3. CASE ~(kept < size)
                BY <1>1, <1>2, <1>4, <2>2, <4>1, <4>3
            <4> QED
                BY <4>2, <4>3, <4>1
        <3>2. Output(w, kept) \in Q
            BY <3>1
        <3>3. /\ Output(w, kept).kind = "output" /\ Output(w, kept).at = w
              /\ Output(w, kept).len = kept
            BY DEF Output
        <3> QED
            BY <3>1, <3>2, <3>3, InBytes
    <2> QED
        BY <2>1, <2>2
<1>5. Bytes(Q) = {b \in 0 .. Limit - 1 : b < w + size}
    BY <1>3, <1>4
<1>6. cut'[x] => \E p \in Q : p.kind = "truncated"
    <2>1. cut'[x] => kept < size
        BY <1>1
    <2>2. Mark("truncated").kind = "truncated"
        BY DEF Mark
    <2> QED
        BY <1>2, <2>1, <2>2
<1>7. Pieces(x)' = Q /\ wrote'[x] = w + size
    BY <1>1
<1> HIDE DEF Q
<1> QED
    BY <1>5, <1>6, <1>7 DEF Whole

LEMMA WholeStep ==
    /\ TypeOK /\ FlowInv /\ ExtentInv /\ FlushInv /\ WholeInv /\ [Next]_vars
    => WholeInv'
<1> SUFFICES ASSUME TypeOK, FlowInv, ExtentInv, FlushInv, WholeInv, [Next]_vars,
                    NEW x \in Executions, Stored(x)'
             PROVE  Whole(x)' \/ Refused(x)'
    BY DEF WholeInv
<1>1. Stored(x)
    BY RowStep DEF Stored, Terminal
<1>2. Whole(x) \/ Refused(x)
    BY <1>1 DEF WholeInv
<1>3. CASE Refused(x)
    BY <1>3, RefusedStays
<1>4. CASE Whole(x) /\ CaptureOutput(x)
    BY <1>4, WholeCaptured
<1>5. CASE Whole(x) /\ ~CaptureOutput(x)
    <2>1. wrote'[x] = wrote[x] /\ cut'[x] = cut[x]
        BY <1>5, WroteStep
    <2>2. Pieces(x)' = Pieces(x) \/ Refused(x)'
        BY <1>5, PiecesStep DEF Stored
    <2> QED
        BY <1>5, <2>1, <2>2 DEF Whole
<1> QED
    BY <1>2, <1>3, <1>4, <1>5

-----------------------------------------------------------------------------
(* Behind an answered barrier there is nothing.                            *)

\* The line of x when someone sends, and when the writer takes a message.
LEMMA LineSent ==
    ASSUME TypeOK, NEW m \in Message, Enqueue(m), NEW x \in Executions
    PROVE  Elems(Line(queue', x)) = Elems(Line(queue, x)) \cup
             {IF m.of = x THEN m.event ELSE Other}
<1>1. queue \in Seq(Message) /\ Line(queue, x) \in Seq(Anything)
        /\ queue' = Append(queue, m)
    BY FlowTypes DEF Enqueue
<1> DEFINE y == IF m.of = x THEN m.event ELSE Other
<1>2. y \in Anything
    BY DEF Message, Records, Barrier, Anything, Events
<1>3. Line(queue', x) = Append(Line(queue, x), y)
    BY <1>1, LineAppend
<1> HIDE DEF y
<1>4. Elems(Line(queue', x)) = Elems(Line(queue, x)) \cup {y}
    BY <1>1, <1>2, <1>3, ElemsAppend
<1> QED
    BY <1>4 DEF y

LEMMA LineTaken ==
    ASSUME TypeOK, queue # <<>>, queue' = Tail(queue), NEW x \in Executions
    PROVE  /\ Elems(Line(queue, x)) = Elems(Line(queue', x)) \cup
                {IF Head(queue).of = x THEN Head(queue).event ELSE Other}
           /\ FlowInv => \A p \in Elems(Line(queue', x)) :
                Before(IF Head(queue).of = x THEN Head(queue).event ELSE Other, p)
<1>1. queue \in Seq(Message) /\ Line(queue, x) \in Seq(Anything)
    BY FlowTypes
<1>2. /\ Line(queue', x) = Tail(Line(queue, x)) /\ Line(queue, x) # <<>>
      /\ Head(Line(queue, x)) =
           IF Head(queue).of = x THEN Head(queue).event ELSE Other
    BY <1>1, LineTail
<1>3. Elems(Line(queue, x)) =
        {Head(Line(queue, x))} \cup Elems(Tail(Line(queue, x)))
    BY <1>1, <1>2, ElemsTail
<1>4. FlowInv => AllBefore({Head(Line(queue, x))}, Elems(Tail(Line(queue, x))))
    BY <1>1, <1>2, OrderTail DEF FlowInv, Flow, InFlow
<1> QED
    BY <1>2, <1>3, <1>4 DEF AllBefore

LEMMA FlushedSame ==
    ASSUME NEW x, Flushed(x), pc'[x] = pc[x], outbox'[x] = outbox[x],
           answer'[x] = answer[x], records'[x] = records[x],
           Elems(Line(queue', x)) \subseteq Elems(Line(queue, x)) \cup {Other}
    PROVE  Flushed(x)'
<1>1. Other.kind # "barrier"
    BY DEF Other, Mark
<1> QED
    BY <1>1 DEF Flushed

LEMMA FlushedTask ==
    ASSUME TypeOK, FlushInv, NEW e \in Executions, TaskStep(e) \/ Outside(e),
           NEW x \in Executions
    PROVE  Flushed(x)'
<1>1. Flushed(x) /\ Flushed(e)
    BY DEF FlushInv
<1>2. UNCHANGED <<answer, records>>
    BY DEF TaskStep, Outside, HandleStarted, SendRecord, SendBarrier,
       RecordOutcome, RecordFailure, Prune, CaptureOutput, StreamEnds,
       TaskFails, CloseQueued, writerVars
<1>3. CASE SendRecord(e)
    <2> DEFINE m == [of |-> e, event |-> Head(outbox[e])]
    <2>1. m \in Message /\ Enqueue(m) /\ UNCHANGED pc /\ pc[e] = "reading"
            /\ outbox' = [outbox EXCEPT ![e] = Tail(@)] /\ outbox[e] # <<>>
        BY <1>3, TypeSend DEF SendRecord
    <2>2. Elems(Line(queue', x)) = Elems(Line(queue, x)) \cup
            {IF m.of = x THEN m.event ELSE Other}
        BY <2>1, LineSent
    <2>3. CASE x # e
        <3>1. outbox'[x] = outbox[x]
            BY <2>1, <2>3 DEF TypeOK
        <3> QED
            BY <1>1, <1>2, <2>1, <2>2, <2>3, <3>1, FlushedSame
    <2>4. CASE x = e
        <3>1. Head(outbox[e]) \in Captures
            BY <2>1, HeadTailProperties DEF TypeOK
        <3>2. Head(outbox[e]).kind # "barrier"
            BY <3>1, CaptureKinds
        <3>3. Elems(Line(queue', x)) = Elems(Line(queue, x)) \cup {Head(outbox[e])}
            BY <2>2, <2>4
        <3> QED
            BY <1>1, <1>2, <2>1, <2>4, <3>2, <3>3 DEF Flushed
    <2> QED
        BY <2>3, <2>4
<1>4. CASE SendBarrier(e)
    <2>1. Barrier(e) \in Message /\ Enqueue(Barrier(e)) /\ pc[e] = "flush"
            /\ pc' = [pc EXCEPT ![e] = "waiting"] /\ UNCHANGED outbox
        BY <1>4, TypeBarrier DEF SendBarrier, Goto
    <2>2. Elems(Line(queue', x)) = Elems(Line(queue, x)) \cup
            {IF e = x THEN Mark("barrier") ELSE Other}
        BY <2>1, LineSent DEF Barrier
    <2>3. CASE x # e
        <3>1. pc'[x] = pc[x]
            BY <2>1, <2>3 DEF TypeOK
        <3> QED
            BY <1>1, <1>2, <2>1, <2>2, <2>3, <3>1, FlushedSame
    <2>4. CASE x = e
        <3>1. pc'[x] = "waiting"
            BY <2>1, <2>4 DEF TypeOK
        <3> QED
            BY <1>1, <1>2, <2>1, <2>2, <2>4, <3>1 DEF Flushed
    <2> QED
        BY <2>3, <2>4
<1>5. CASE CaptureOutput(e)
    <2>1. UNCHANGED <<pc, queue>> /\ pc[e] = "reading"
            /\ \E o : outbox' = [outbox EXCEPT ![e] = o]
        BY <1>5 DEF CaptureOutput
    <2>2. outbox'[x] = outbox[x] \/ x = e
        BY <2>1 DEF TypeOK
    <2> QED
        BY <1>1, <1>2, <2>1, <2>2 DEF Flushed
<1>6. CASE CloseQueued(e)
    BY <1>1, <1>2, <1>6 DEF CloseQueued, taskVars, Flushed
<1>7. CASE \/ HandleStarted(e) \/ RecordOutcome(e) \/ RecordFailure(e)
           \/ Prune(e) \/ StreamEnds(e) \/ TaskFails(e)
    <2>1. /\ UNCHANGED <<queue, outbox>>
          /\ \E state : pc' = [pc EXCEPT ![e] = state]
        BY <1>7 DEF HandleStarted, RecordOutcome, RecordFailure, Prune,
           StreamEnds, TaskFails, Goto
    <2>2. CASE x # e
        <3>1. pc'[x] = pc[x]
            BY <2>1, <2>2 DEF TypeOK
        <3> QED
            BY <1>1, <1>2, <2>1, <3>1, FlushedSame
    <2>3. CASE x = e
        <3>1. outbox[e] = <<>>
            BY <1>1, <1>7 DEF HandleStarted, RecordOutcome, RecordFailure,
               Prune, StreamEnds, TaskFails, Flushed
        <3>2. pc[e] = "waiting" => answer[e] # "none"
            BY <1>7 DEF HandleStarted, RecordOutcome, RecordFailure, Prune,
               StreamEnds, TaskFails
        <3>3. \A p \in Elems(Line(queue, e)) : p.kind # "barrier"
            BY <1>1, <3>2 DEF Flushed
        <3>4. answer[e] # "none" => pc'[e] \in {"waiting", "failed", "prune", "done"}
            BY <1>1, <1>7 DEF HandleStarted, RecordOutcome, RecordFailure, Prune,
               StreamEnds, TaskFails, Goto, TypeOK, Flushed
        <3> QED
            BY <1>1, <1>2, <2>1, <2>3, <3>1, <3>3, <3>4 DEF Flushed
    <2> QED
        BY <2>2, <2>3
<1> QED
    BY <1>3, <1>4, <1>5, <1>6, <1>7 DEF TaskStep, Outside

LEMMA LineElems ==
    ASSUME NEW q \in Seq(Message), NEW e
    PROVE  Elems(Line(q, e)) \subseteq Captures \cup {Mark("barrier"), Other}
<1>1. ASSUME NEW i \in 1 .. Len(q)
      PROVE  (IF q[i].of = e THEN q[i].event ELSE Other)
               \in Captures \cup {Mark("barrier"), Other}
    <2>1. q[i] \in Message
        BY ElementOfSeq
    <2> QED
        BY <2>1 DEF Message, Records, Barrier
<1> QED
    BY <1>1, LineType DEF Elems

LEMMA FlushedWriter ==
    ASSUME TypeOK, FlowInv, FlushInv, WriterStep, NEW x \in Executions
    PROVE  Flushed(x)'
<1>1. Flushed(x)
    BY DEF FlushInv
<1>2. UNCHANGED <<pc, outbox>>
    BY DEF WriterStep, WriterRecord, WriterIdle, WriterBarrier, taskVars
<1>3. CASE WriterRecord
    <2>1. NextIsRecord /\ queue # <<>> /\ queue' = Tail(queue) /\ answer' = answer
        BY <1>3 DEF WriterRecord, NextIsRecord
    <2>2. Elems(Line(queue', x)) \subseteq Elems(Line(queue, x))
        BY <2>1, LineTaken
    <2>3. records'[x] = <<>> \/ records'[x] = Taken[x]
        BY <1>3 DEF WriterRecord, Taken, Emptied
    <2>4. answer[x] # "none" => records'[x] = <<>>
        BY <2>1, <2>3, FlowTaken
    <2> QED
        BY <1>1, <1>2, <2>1, <2>2, <2>4 DEF Flushed
<1>4. CASE WriterIdle
    <2>1. queue' = queue /\ answer' = answer /\ records'[x] = <<>>
        BY <1>4 DEF WriterIdle, Emptied
    <2> QED
        BY <1>1, <1>2, <2>1 DEF Flushed
<1>5. CASE WriterBarrier
    <2> DEFINE h == Head(queue).of
    <2>1. /\ NextIsBarrier /\ queue # <<>> /\ queue' = Tail(queue)
          /\ records'[x] = <<>>
          /\ \E result \in {"ok", "error"} :
               answer' = [answer EXCEPT ![h] = result]
        BY <1>5 DEF WriterBarrier, NextIsBarrier, Emptied
    <2>2. Head(queue).event = Mark("barrier")
        BY <2>1, QueueHead
    <2>3. /\ Elems(Line(queue, x)) = Elems(Line(queue', x)) \cup
               {IF h = x THEN Mark("barrier") ELSE Other}
          /\ \A p \in Elems(Line(queue', x)) :
               Before(IF h = x THEN Mark("barrier") ELSE Other, p)
        BY <2>1, <2>2, LineTaken
    <2>4. CASE h # x
        <3>1. answer'[x] = answer[x]
            BY <2>1, <2>4 DEF TypeOK
        <3> QED
            BY <1>1, <1>2, <2>1, <2>3, <3>1 DEF Flushed
    <2>5. CASE h = x
        <3>1. pc[x] = "waiting"
            BY <1>1, <2>3, <2>5 DEF Flushed, Mark
        <3>2. Elems(Line(queue', x)) \subseteq {Other}
            <4>1. ASSUME NEW p \in Elems(Line(queue', x)) PROVE p = Other
                <5>1. p.kind \notin {"output", "truncated", "barrier"}
                    BY <2>3, <2>5, <4>1 DEF Before, Mark
                <5>2. p \in Captures \cup {Mark("barrier"), Other}
                    BY <2>1, <4>1, QueueHead, LineElems
                <5> QED
                    BY <5>1, <5>2, CaptureKinds DEF Mark
            <4> QED
                BY <4>1
        <3>3. Other.kind # "barrier"
            BY DEF Other, Mark
        <3> QED
            BY <1>1, <1>2, <2>1, <3>1, <3>2, <3>3 DEF Flushed
    <2> QED
        BY <2>4, <2>5
<1> QED
    BY <1>3, <1>4, <1>5 DEF WriterStep

\* What the writer appends to a log.
LEMMA LogWriter ==
    ASSUME TypeOK, FlowInv, FlushInv, WriterStep, NEW x \in Executions
    PROVE  \E b \in Seq(Captures) :
             /\ log'[x] = log[x] \o b
             /\ Elems(b) \subseteq Pieces(x)
             /\ b # <<>> => Stored(x) /\ answer[x] = "none"
<1>1. /\ log[x] \o <<>> = log[x] /\ <<>> \in Seq(Captures) /\ Elems(<<>>) = {}
    BY FlowTypes, ConcatEmptySeq, EmptySeq, ElemsEmpty
<1>2. CASE log'[x] = log[x]
    BY <1>1, <1>2
<1>3. ASSUME NEW batch \in [Executions -> Seq(Captures)], Written(batch),
             PiecesOf(log[x], batch[x], Line(queue', x), outbox[x]) = Pieces(x),
             batch[x] # <<>> => answer[x] = "none"
      PROVE  \E b \in Seq(Captures) :
               /\ log'[x] = log[x] \o b
               /\ Elems(b) \subseteq Pieces(x)
               /\ b # <<>> => Stored(x) /\ answer[x] = "none"
    <2>1. log'[x] = log[x] \o batch[x] /\ (batch[x] # <<>> => Stored(x))
        BY <1>3 DEF Written, AllStored
    <2>2. batch[x] \in Seq(Captures)
        OBVIOUS
    <2>3. Elems(batch[x]) \subseteq Pieces(x)
        BY <1>3, <2>2, ElemsOfSeq DEF PiecesOf
    <2> QED
        BY <1>3, <2>1, <2>2, <2>3
<1>4. records \in [Executions -> Seq(Captures)]
        /\ (records[x] # <<>> => answer[x] = "none")
    BY DEF TypeOK, FlushInv, Flushed
<1>5. CASE WriterRecord
    <2>1. NextIsRecord /\ queue' = Tail(queue)
            /\ (Flush(Taken) \/ UNCHANGED log)
        BY <1>5 DEF WriterRecord, Taken
    <2>2. Written(Taken) \/ log' = log
        BY <2>1 DEF Flush, Lost
    <2> QED
        BY <1>2, <1>3, <2>1, <2>2, FlowTaken, TakenType
<1>6. CASE WriterIdle
    <2>1. queue' = queue /\ Flush(records)
        BY <1>6 DEF WriterIdle
    <2>2. Written(records) \/ log' = log
        BY <2>1 DEF Flush, Lost
    <2> QED
        BY <1>2, <1>3, <1>4, <2>1, <2>2 DEF Pieces
<1>7. CASE WriterBarrier
    <2>1. NextIsBarrier /\ queue' = Tail(queue)
            /\ (Written(records) \/ Lost(records))
        BY <1>7 DEF WriterBarrier
    <2>2. Written(records) \/ log' = log
        BY <2>1 DEF Lost
    <2> QED
        BY <1>2, <1>3, <1>4, <2>1, <2>2, FlowPassed
<1> QED
    BY <1>5, <1>6, <1>7 DEF WriterStep

LEMMA NothingIn ==
    ASSUME NEW S, NEW s \in Seq(S), Elems(s) = {}
    PROVE  s = <<>>
<1>1. s # <<>> => 1 \in 1 .. Len(s)
    BY ElemsTail
<1> QED
    BY <1>1 DEF Elems

LEMMA UnstartedStep ==
    ASSUME TypeOK, FlowInv, ExtentInv, FlushInv, [Next]_vars, NEW x \in Executions
    PROVE  Unstarted(x)'
<1> SUFFICES ASSUME row'[x] = "queued"
             PROVE  pc'[x] # "reading" /\ log'[x] = <<>> /\ Pieces(x)' = {}
    BY DEF Unstarted
<1>1. row[x] = "queued"
    BY RowStep DEF Terminal
<1>2. pc[x] # "reading" /\ log[x] = <<>> /\ Pieces(x) = {}
    BY <1>1 DEF FlushInv, Unstarted
<1>3. Pieces(x)' = {}
    BY <1>2, PiecesStep DEF CaptureOutput
<1>4. CASE UNCHANGED vars
    BY <1>2, <1>3, <1>4 DEF vars, taskVars
<1>5. CASE WriterStep
    <2>1. pc' = pc
        BY <1>5 DEF WriterStep, WriterRecord, WriterIdle, WriterBarrier, taskVars
    <2>2. PICK b \in Seq(Captures) :
            log'[x] = log[x] \o b /\ Elems(b) \subseteq Pieces(x)
        BY <1>5, LogWriter
    <2>3. b = <<>>
        BY <1>2, <2>2, NothingIn
    <2>4. log'[x] = <<>>
        BY <1>2, <2>2, <2>3, EmptySeq, ConcatEmptySeq
    <2> QED
        BY <1>2, <1>3, <2>1, <2>4
<1>6. ASSUME NEW e \in Executions, TaskStep(e) \/ Outside(e)
      PROVE  pc'[x] # "reading" /\ log'[x] = <<>>
    <2>1. CASE HandleStarted(e)
        BY <1>1, <1>2, <2>1 DEF HandleStarted, Goto, TypeOK
    <2>2. CASE RecordOutcome(e)
        BY <1>1, <1>2, <2>2 DEF RecordOutcome, Finish, Goto, TypeOK
    <2>3. CASE RecordFailure(e)
        BY <1>1, <1>2, <2>3 DEF RecordFailure, Finish, Goto, TypeOK
    <2>4. CASE Prune(e)
        BY <1>2, <2>4 DEF Prune, Goto, TypeOK
    <2>5. CASE CloseQueued(e)
        BY <1>1, <1>2, <2>5 DEF CloseQueued, Finish, TypeOK, taskVars
    <2>6. CASE CaptureOutput(e) \/ SendRecord(e) \/ SendBarrier(e)
                 \/ StreamEnds(e) \/ TaskFails(e)
        BY <1>2, <2>6 DEF CaptureOutput, SendRecord, SendBarrier, StreamEnds,
           TaskFails, Goto, TypeOK
    <2> QED
        BY <1>6, <2>1, <2>2, <2>3, <2>4, <2>5, <2>6 DEF TaskStep, Outside
<1> QED
    BY <1>3, <1>4, <1>5, <1>6 DEF Next

LEMMA FlushStep ==
    TypeOK /\ FlowInv /\ ExtentInv /\ FlushInv /\ [Next]_vars => FlushInv'
<1> SUFFICES ASSUME TypeOK, FlowInv, ExtentInv, FlushInv, [Next]_vars,
                    NEW x \in Executions
             PROVE  Flushed(x)'
    BY UnstartedStep DEF FlushInv
<1>1. CASE UNCHANGED vars
    BY <1>1 DEF FlushInv, Flushed, vars, taskVars, writerVars
<1>2. CASE WriterStep
    BY <1>2, FlushedWriter
<1>3. CASE \E e \in Executions : TaskStep(e) \/ Outside(e)
    BY <1>3, FlushedTask
<1> QED
    BY <1>1, <1>2, <1>3 DEF Next

-----------------------------------------------------------------------------
(* A closed row has one "finished".                                        *)

LEMMA AtAppend ==
    ASSUME NEW s \in Seq(Events), NEW m \in Events, NEW kind
    PROVE  /\ m.kind = kind =>
                At(Append(s, m), kind) = At(s, kind) \cup {Len(s) + 1}
           /\ m.kind # kind => At(Append(s, m), kind) = At(s, kind)
<1> DEFINE t == Append(s, m)
<1>1. /\ Len(t) = Len(s) + 1 /\ Len(s) \in Nat /\ t[Len(s) + 1] = m
      /\ \A i \in 1 .. Len(s) : t[i] = s[i]
    BY AppendProperties, LenProperties
<1> HIDE DEF t
<1>2. 1 .. Len(t) = (1 .. Len(s)) \cup {Len(s) + 1}
    BY <1>1
<1>3. /\ m.kind = kind => At(t, kind) = At(s, kind) \cup {Len(s) + 1}
      /\ m.kind # kind => At(t, kind) = At(s, kind)
    BY <1>1, <1>2 DEF At
<1> QED
    BY <1>3 DEF t

\* A batch holds no "started" and no "finished".
LEMMA AtConcat ==
    ASSUME NEW s \in Seq(Events), NEW b \in Seq(Captures),
           NEW kind \in {"started", "finished"}
    PROVE  At(s \o b, kind) = At(s, kind)
<1> DEFINE t == s \o b
<1>1. b \in Seq(Events)
    BY SeqMonotonic DEF Events
<1>2. /\ Len(t) = Len(s) + Len(b) /\ Len(s) \in Nat /\ Len(b) \in Nat
      /\ \A i \in 1 .. Len(s) + Len(b) :
           t[i] = IF i <= Len(s) THEN s[i] ELSE b[i - Len(s)]
    BY <1>1, ConcatProperties, LenProperties
<1> HIDE DEF t
<1>3. ASSUME NEW i \in 1 .. Len(t), t[i].kind = kind
      PROVE  i \in 1 .. Len(s) /\ s[i].kind = kind
    <2>1. CASE i <= Len(s)
        <3>1. i \in 1 .. Len(s) /\ t[i] = s[i]
            BY <1>2, <2>1
        <3> QED
            BY <1>3, <3>1
    <2>2. CASE ~(i <= Len(s))
        <3>1. i - Len(s) \in 1 .. Len(b) /\ t[i] = b[i - Len(s)]
            BY <1>2, <2>2
        <3>2. t[i] \in Captures
            BY <3>1, ElementOfSeq
        <3> QED
            BY <1>3, <3>2, CaptureKinds
    <2> QED
        BY <2>1, <2>2
<1>4. ASSUME NEW i \in 1 .. Len(s) PROVE i \in 1 .. Len(t) /\ t[i] = s[i]
    BY <1>2
<1>5. At(t, kind) = At(s, kind)
    BY <1>3, <1>4 DEF At
<1> QED
    BY <1>5 DEF t

\* A row that is open is closed.
LEMMA ProperFinish ==
    ASSUME TypeOK, ClosedInv, NEW e \in Executions, NEW state \in Terminal,
           row[e] \in {"queued", "running"}, Finish(e, state),
           NEW x \in Executions
    PROVE  /\ Proper(log'[x], row'[x])
           /\ row'[x] = IF x = e THEN state ELSE row[x]
<1>1. row'[x] = IF x = e THEN state ELSE row[x]
    BY DEF Finish, TypeOK
<1>2. CASE x # e
    BY <1>1, <1>2 DEF Finish, TypeOK, ClosedInv
<1>3. CASE x = e
    <2> DEFINE s == log[x]
               t == Append(s, Mark("finished"))
    <2>1. log'[x] = t /\ s \in Seq(Events) /\ Mark("finished") \in Events
        BY <1>3, MarksAreEvents DEF Finish, TypeOK
    <2>0. Mark("finished").kind = "finished" /\ Mark("finished").kind # "started"
        BY DEF Mark
    <2>2. At(t, "started") = At(s, "started")
        BY <2>0, <2>1, AtAppend, Zenon
    <2>3. At(t, "finished") = At(s, "finished") \cup {Len(s) + 1}
        BY <2>0, <2>1, AtAppend, Zenon
    <2>4. At(s, "started") \subseteq {1} /\ At(s, "finished") = {}
        BY <1>3 DEF ClosedInv, Proper, Terminal
    <2>5. Len(t) = Len(s) + 1 /\ Len(s) \in Nat
        BY <2>1, AppendProperties, LenProperties
    <2> HIDE DEF t, s
    <2>6. Len(t) \in 1 .. Len(t)
        BY <2>5
    <2>7. At(t, "started") \subseteq {1} /\ At(t, "finished") = {Len(t)}
        BY <2>2, <2>3, <2>4, <2>5
    <2> QED
        BY <1>1, <1>3, <2>1, <2>6, <2>7 DEF Proper
<1> QED
    BY <1>2, <1>3

LEMMA ClosedWriter ==
    ASSUME TypeOK, FlowInv, FlushInv, ClosedInv, WriterStep, NEW x \in Executions
    PROVE  /\ Proper(log'[x], row'[x])
           /\ row'[x] = "finished" => answer'[x] = "ok"
<1>1. row'[x] = row[x] /\ Proper(log[x], row[x])
        /\ (row[x] = "finished" => answer[x] = "ok")
    BY DEF ClosedInv, WriterStep, WriterRecord, WriterIdle, WriterBarrier
<1>2. PICK b \in Seq(Captures) :
        log'[x] = log[x] \o b /\ (b # <<>> => answer[x] = "none")
    BY LogWriter
<1>3. log[x] \in Seq(Events) /\ b \in Seq(Events)
    BY SeqMonotonic DEF TypeOK, Events
<1>4. /\ At(log'[x], "started") = At(log[x], "started")
      /\ At(log'[x], "finished") = At(log[x], "finished")
    BY <1>2, <1>3, AtConcat
<1>5. Len(log'[x]) = Len(log[x]) + Len(b) /\ Len(log[x]) \in Nat /\ Len(b) \in Nat
    BY <1>2, <1>3, ConcatProperties, LenProperties
<1>6. \A i \in 1 .. Len(log[x]) : i \in 1 .. Len(log'[x])
    BY <1>5
<1>7. row[x] = "finished" => log'[x] = log[x]
    BY <1>1, <1>2, <1>3, ConcatEmptySeq
<1>8. Proper(log'[x], row'[x])
    BY <1>1, <1>4, <1>6, <1>7 DEF Proper
<1>9. answer[x] # "none" => answer'[x] = answer[x]
    <2>1. CASE WriterBarrier
        <3>1. NextIsBarrier /\ \E result : answer' =
                [answer EXCEPT ![Head(queue).of] = result]
            BY <2>1 DEF WriterBarrier
        <3>2. answer[Head(queue).of] = "none"
            BY <3>1, BarrierAwaited
        <3> QED
            BY <3>1, <3>2 DEF TypeOK
    <2>2. CASE WriterRecord \/ WriterIdle
        BY <2>2 DEF WriterRecord, WriterIdle
    <2> QED
        BY <2>1, <2>2 DEF WriterStep
<1> QED
    BY <1>1, <1>8, <1>9

LEMMA ClosedTask ==
    ASSUME TypeOK, FlushInv, ClosedInv, NEW e \in Executions,
           TaskStep(e) \/ Outside(e), NEW x \in Executions
    PROVE  /\ Proper(log'[x], row'[x])
           /\ row'[x] = "finished" => answer'[x] = "ok"
<1>1. Proper(log[x], row[x]) /\ (row[x] = "finished" => answer[x] = "ok")
    BY DEF ClosedInv
<1>2. UNCHANGED answer
    BY DEF TaskStep, Outside, HandleStarted, SendRecord, SendBarrier,
       RecordOutcome, RecordFailure, Prune, CaptureOutput, StreamEnds,
       TaskFails, CloseQueued, writerVars
<1>3. CASE UNCHANGED <<row, log>>
    BY <1>1, <1>2, <1>3
<1>4. CASE HandleStarted(e)
    <2>1. CASE row[e] = "queued" /\ x = e
        <3>1. log[x] = <<>>
            BY <2>1 DEF FlushInv, Unstarted
        <3>2. log'[x] = Append(log[x], Mark("started")) /\ row'[x] = "running"
            BY <1>4, <2>1 DEF HandleStarted, TypeOK
        <3>3. log[x] \in Seq(Events) /\ Mark("started") \in Events
            BY MarksAreEvents DEF TypeOK
        <3>4. At(log'[x], "started") = At(log[x], "started") \cup {Len(log[x]) + 1}
            <4>1. Mark("started").kind = "started"
                BY DEF Mark
            <4>2. At(Append(log[x], Mark("started")), "started") =
                    At(log[x], "started") \cup {Len(log[x]) + 1}
                BY <3>3, <4>1, AtAppend
            <4> QED
                BY <3>2, <4>2
        <3>5. At(log'[x], "finished") = At(log[x], "finished")
            BY <3>2, <3>3, AtAppend DEF Mark
        <3>6. Len(log[x]) = 0
            BY <3>1, EmptySeq
        <3>7. At(log[x], "started") \subseteq {} /\ At(log[x], "finished") = {}
            BY <3>6 DEF At
        <3>8. At(log'[x], "started") = {1} /\ At(log'[x], "finished") = {}
            BY <3>4, <3>5, <3>6, <3>7
        <3> QED
            BY <3>2, <3>8 DEF Proper, Terminal
    <2>2. CASE ~(row[e] = "queued" /\ x = e)
        <3>1. row'[x] = row[x] /\ log'[x] = log[x]
            BY <1>4, <2>2 DEF HandleStarted, TypeOK
        <3> QED
            BY <1>1, <1>2, <3>1
    <2> QED
        BY <2>1, <2>2
<1>5. CASE RecordOutcome(e)
    <2>1. CASE answer[e] = "ok" /\ row[e] \in {"queued", "running"}
        <3>1. Finish(e, "finished") /\ "finished" \in Terminal
            BY <1>5, <2>1 DEF RecordOutcome, Terminal
        <3> QED
            BY <1>1, <1>2, <2>1, <3>1, ProperFinish
    <2>2. CASE ~(answer[e] = "ok" /\ row[e] \in {"queued", "running"})
        BY <1>3, <1>5, <2>2 DEF RecordOutcome
    <2> QED
        BY <2>1, <2>2
<1>6. CASE RecordFailure(e)
    <2>1. CASE row[e] \in {"queued", "running"}
        <3>1. Finish(e, "interrupted") /\ "interrupted" \in Terminal
            BY <1>6, <2>1 DEF RecordFailure, Terminal
        <3> QED
            BY <1>1, <1>2, <2>1, <3>1, ProperFinish
    <2>2. CASE row[e] \notin {"queued", "running"}
        BY <1>3, <1>6, <2>2 DEF RecordFailure
    <2> QED
        BY <2>1, <2>2
<1>7. CASE CloseQueued(e)
    <2>1. Finish(e, "cancelled") /\ "cancelled" \in Terminal /\ row[e] = "queued"
        BY <1>7 DEF CloseQueued, Terminal
    <2> QED
        BY <1>1, <1>2, <2>1, ProperFinish
<1>8. CASE Prune(e)
    <2>1. \/ row'[x] = "pruned" /\ log'[x] = <<>>
          \/ row'[x] = row[x] /\ log'[x] = log[x]
        BY <1>8 DEF Prune
    <2>2. Len(<<>>) = 0
        BY EmptySeq
    <2>3. At(<<>>, "started") = {} /\ At(<<>>, "finished") = {}
        BY <2>2 DEF At
    <2> QED
        BY <1>1, <1>2, <2>1, <2>3 DEF Proper, Terminal
<1>9. CASE CaptureOutput(e) \/ SendRecord(e) \/ SendBarrier(e)
             \/ StreamEnds(e) \/ TaskFails(e)
    BY <1>3, <1>9 DEF CaptureOutput, SendRecord, SendBarrier, StreamEnds,
       TaskFails
<1> QED
    BY <1>4, <1>5, <1>6, <1>7, <1>8, <1>9 DEF TaskStep, Outside

LEMMA ClosedStep ==
    TypeOK /\ FlowInv /\ FlushInv /\ ClosedInv /\ [Next]_vars => ClosedInv'
<1> SUFFICES ASSUME TypeOK, FlowInv, FlushInv, ClosedInv, [Next]_vars,
                    NEW x \in Executions
             PROVE  /\ Proper(log'[x], row'[x])
                    /\ row'[x] = "finished" => answer'[x] = "ok"
    BY DEF ClosedInv
<1>1. CASE UNCHANGED vars
    BY <1>1 DEF ClosedInv, vars, writerVars
<1>2. CASE WriterStep
    BY <1>2, ClosedWriter
<1>3. CASE \E e \in Executions : TaskStep(e) \/ Outside(e)
    BY <1>3, ClosedTask
<1> QED
    BY <1>1, <1>2, <1>3 DEF Next

-----------------------------------------------------------------------------
(* The theorems.                                                           *)

LEMMA CaptureInit == Init => CaptureInv
<1> SUFFICES ASSUME Init PROVE CaptureInv
    OBVIOUS
<1>1. TypeOK
    BY TypeInit
<1>2. ASSUME NEW x \in Executions
      PROVE  /\ log[x] = <<>> /\ records[x] = <<>> /\ outbox[x] = <<>>
             /\ Elems(Line(queue, x)) = {} /\ InOrder(Line(queue, x))
    <2>1. queue = <<>> /\ queue \in Seq(Message) /\ Len(queue) = 0
        BY EmptySeq DEF Init
    <2>2. Len(Line(queue, x)) = 0
        BY <2>1, LineType
    <2> QED
        BY <2>2 DEF Init, Elems, InOrder
<1>3. ASSUME NEW x \in Executions PROVE Flow(x) /\ Pieces(x) = {}
    BY <1>2, ElemsEmpty DEF Flow, InFlow, AllBefore, Pieces, PiecesOf
<1>4. FlowInv
    BY <1>3 DEF FlowInv
<1>5. ExtentInv
    BY <1>3, CaptureAssumption DEF ExtentInv, Init
<1>6. FlushInv
    BY <1>2, <1>3 DEF FlushInv, Flushed, Unstarted, Init
<1>7. ClosedInv
    <2>1. Len(<<>>) = 0
        BY EmptySeq
    <2>2. At(<<>>, "started") = {} /\ At(<<>>, "finished") = {}
        BY <2>1 DEF At
    <2> QED
        BY <1>2, <2>2 DEF ClosedInv, Proper, Terminal, Init
<1>8. WholeInv
    <2>1. Bytes({}) = {}
        BY DEF Bytes
    <2>2. {b \in 0 .. Limit - 1 : b < 0} = {}
        BY CaptureAssumption
    <2> QED
        BY <1>3, <2>1, <2>2 DEF WholeInv, Whole, Init
<1> QED
    BY <1>1, <1>4, <1>5, <1>6, <1>7, <1>8 DEF CaptureInv

LEMMA CaptureInvStep == CaptureInv /\ [Next]_vars => CaptureInv'
BY TypeStep, FlowStep, ExtentStep, FlushStep, ClosedStep, WholeStep
DEF CaptureInv

LEMMA CaptureInvariant == Spec => []CaptureInv
BY CaptureInit, CaptureInvStep, PTL DEF Spec

\* The rows, the logs, the queue, the writer's batch and the tasks keep their
\* shapes: no more in the queue than its depth, no more in a batch than its size.
THEOREM TypeCorrectness == Spec => []TypeOK
<1>1. CaptureInv => TypeOK
    BY DEF CaptureInv
<1> QED
    BY <1>1, CaptureInvariant, PTL

\* Whoever closes a row, cancel, drain, the task with its outcome or the task
\* that failed, its log has one "finished", and nothing follows the one that was
\* recorded after a flush.
THEOREM RowsCloseOnce == Spec => []ClosedOnce
<1>1. CaptureInv => ClosedOnce
    <2> SUFFICES ASSUME CaptureInv, NEW e \in Executions
                 PROVE  /\ Cardinality(Position(e, "finished")) =
                             IF Closed(e) THEN 1 ELSE 0
                        /\ \A i \in Position(e, "finished") :
                             i < Len(log[e]) => row[e] \in {"cancelled", "interrupted"}
        BY DEF ClosedOnce
    <2>1. Proper(log[e], row[e]) /\ Position(e, "finished") = At(log[e], "finished")
        BY DEF CaptureInv, ClosedInv, Position, At
    <2>2. CASE Closed(e)
        <3>1. PICK i \in 1 .. Len(log[e]) : Position(e, "finished") = {i}
            BY <2>1, <2>2 DEF Closed, Proper
        <3>2. Cardinality(Position(e, "finished")) = 1
            BY <3>1, FS_Singleton
        <3>3. row[e] = "finished" => i = Len(log[e])
            BY <2>1, <3>1 DEF Proper
        <3>4. Len(log[e]) \in Nat
            BY LenProperties DEF CaptureInv, TypeOK
        <3>5. i < Len(log[e]) => row[e] # "finished"
            BY <3>3, <3>4
        <3> QED
            BY <2>2, <3>1, <3>2, <3>5 DEF Closed, Terminal
    <2>3. CASE ~Closed(e)
        <3>1. Position(e, "finished") = {}
            BY <2>1, <2>3 DEF Closed, Proper
        <3>2. Cardinality(Position(e, "finished")) = 0
            BY <3>1, FS_EmptySet
        <3> QED
            BY <2>3, <3>1, <3>2
    <2> QED
        BY <2>2, <2>3
<1> QED
    BY <1>1, CaptureInvariant, PTL

\* Output is never reordered or kept past the limit, and its marker comes once
\* and last, whatever batches are lost and whoever shares them.
THEOREM OutputStaysInOrder == Spec => []LogInOrder
<1>1. CaptureInv => LogInOrder
    <2> SUFFICES ASSUME CaptureInv, NEW e \in Executions
                 PROVE  /\ \A i, j \in Position(e, "output") :
                             i < j => log[e][i].at + log[e][i].len <= log[e][j].at
                        /\ Captured(e) \subseteq 0 .. Limit - 1
                        /\ Cardinality(Position(e, "truncated")) <= 1
                        /\ \A i \in Position(e, "output"),
                              j \in Position(e, "truncated") : i < j
                        /\ Position(e, "started") \subseteq {1}
        BY DEF LogInOrder
    <2>1. log[e] \in Seq(Events) /\ InOrder(log[e]) /\ Len(log[e]) \in Nat
        BY LenProperties DEF CaptureInv, TypeOK, FlowInv, Flow, InFlow
    <2>2. ASSUME NEW i \in Position(e, "output"), NEW j \in Position(e, "output"),
                 i < j
          PROVE  log[e][i].at + log[e][i].len <= log[e][j].at
        BY <2>1, <2>2 DEF Position, InOrder, Before
    <2>3. ASSUME NEW i \in Position(e, "output")
          PROVE  log[e][i].at .. log[e][i].at + log[e][i].len - 1
                   \subseteq 0 .. Limit - 1
        <3> DEFINE p == log[e][i]
        <3>1. i \in 1 .. Len(log[e]) /\ p.kind = "output" /\ p \in Events
            BY <2>1, ElementOfSeq DEF Position
        <3>2. p \in Captures
            BY <3>1 DEF Events, Mark
        <3>3. p \in Pieces(e)
            BY <3>1, <3>2 DEF Pieces, PiecesOf, Elems
        <3>4. p.at + p.len <= Limit
            BY <3>1, <3>3 DEF CaptureInv, ExtentInv
        <3>5. p.at \in Nat /\ p.len \in Nat /\ Limit \in Nat
            BY <3>1, <3>2, CaptureKinds, CaptureAssumption
        <3> HIDE DEF p
        <3>6. p.at .. p.at + p.len - 1 \subseteq 0 .. Limit - 1
            BY <3>4, <3>5
        <3> QED
            BY <3>6 DEF p
    <2>4. Captured(e) \subseteq 0 .. Limit - 1
        BY <2>3 DEF Captured
    <2>5. ASSUME NEW i \in Position(e, "output"), NEW j \in Position(e, "truncated")
          PROVE  i < j
        <3>1. i \in 1 .. Len(log[e]) /\ j \in 1 .. Len(log[e])
                /\ log[e][i].kind = "output" /\ log[e][j].kind = "truncated"
            BY DEF Position
        <3>2. ~(j < i)
            BY <2>1, <3>1 DEF InOrder, Before
        <3>3. i # j
            BY <3>1
        <3> QED
            BY <2>1, <3>1, <3>2, <3>3
    <2>6. Cardinality(Position(e, "truncated")) <= 1
        <3>1. ASSUME NEW i \in Position(e, "truncated"),
                     NEW j \in Position(e, "truncated")
              PROVE  i = j
            <4>1. i \in 1 .. Len(log[e]) /\ j \in 1 .. Len(log[e])
                    /\ log[e][i].kind = "truncated" /\ log[e][j].kind = "truncated"
                BY DEF Position
            <4>2. ~(j < i) /\ ~(i < j)
                BY <2>1, <4>1 DEF InOrder, Before
            <4> QED
                BY <2>1, <4>1, <4>2
        <3>2. CASE Position(e, "truncated") = {}
            <4>1. Cardinality(Position(e, "truncated")) = 0
                BY <3>2, FS_EmptySet
            <4> QED
                BY <4>1
        <3>3. CASE Position(e, "truncated") # {}
            <4>1. PICK i : i \in Position(e, "truncated")
                BY <3>3
            <4>2. Position(e, "truncated") = {i}
                BY <3>1, <4>1
            <4>3. Cardinality(Position(e, "truncated")) = 1
                BY <4>2, FS_Singleton
            <4> QED
                BY <4>3
        <3> QED
            BY <3>2, <3>3
    <2>7. Position(e, "started") \subseteq {1}
        BY DEF CaptureInv, ClosedInv, Proper, Position, At
    <2> QED
        BY <2>2, <2>4, <2>5, <2>6, <2>7
<1> QED
    BY <1>1, CaptureInvariant, PTL

\* An outcome recorded behind a barrier comes after all of the output, or a
\* batch was lost and the daemon was told to shut down: flush_capture before
\* store.finish, with the one pending_error taken by the barrier that meets it.
THEOREM OutcomesAreComplete == Spec => []OutcomeIsComplete
<1>1. CaptureInv => OutcomeIsComplete
    <2> SUFFICES ASSUME CaptureInv, NEW e \in Executions, row[e] = "finished"
                 PROVE  /\ Position(e, "finished") = {Len(log[e])}
                        /\ \/ Complete(e)
                           \/ fatal /\ \E x \in Executions \ {e} : answer[x] = "error"
        BY DEF OutcomeIsComplete
    <2>1. Position(e, "finished") = {Len(log[e])} /\ answer[e] = "ok"
        BY DEF CaptureInv, ClosedInv, Proper, Position, At
    <2>2. /\ records[e] = <<>> /\ Elems(Line(queue, e)) \subseteq {Other}
          /\ outbox[e] = <<>>
        BY <2>1 DEF CaptureInv, FlushInv, Flushed
    <2>3. Other \notin Captures
        BY NeutralAnywhere DEF Neutral
    <2>4. Pieces(e) = Captures \cap Elems(log[e])
        BY <2>2, <2>3, ElemsEmpty DEF Pieces, PiecesOf
    <2>5. log[e] \in Seq(Events)
        BY DEF CaptureInv, TypeOK
    <2>6. ASSUME NEW i \in 1 .. Len(log[e]), log[e][i].kind \in {"output", "truncated"}
          PROVE  log[e][i] \in Pieces(e)
        <3>1. log[e][i] \in Events
            BY <2>5, ElementOfSeq
        <3>2. log[e][i] \in Captures
            BY <2>6, <3>1 DEF Events, Mark
        <3> QED
            BY <2>4, <3>2 DEF Elems
    <2>7. ASSUME NEW p \in Pieces(e)
          PROVE  \E i \in 1 .. Len(log[e]) : p = log[e][i]
        BY <2>4 DEF Elems
    <2>8. CASE Whole(e)
        <3>1. Captured(e) = Bytes(Pieces(e))
            BY <2>6, <2>7 DEF Captured, Bytes, Position
        <3>2. Position(e, "truncated") # {} <=> cut[e]
            <4>1. ASSUME cut[e] PROVE Position(e, "truncated") # {}
                BY <2>7, <2>8, <4>1 DEF Whole, Position
            <4>2. ASSUME Position(e, "truncated") # {} PROVE cut[e]
                BY <2>6, <4>2 DEF Position, CaptureInv, ExtentInv
            <4> QED
                BY <4>1, <4>2
        <3>3. cut[e] <=> wrote[e] > Limit
            BY DEF CaptureInv, ExtentInv
        <3>4. Complete(e)
            BY <2>8, <3>1, <3>2, <3>3 DEF Complete, Whole
        <3> QED
            BY <2>1, <3>4
    <2>9. CASE Refused(e)
        BY <2>1, <2>9 DEF Refused
    <2> QED
        BY <2>8, <2>9 DEF CaptureInv, WholeInv, Stored
<1> QED
    BY <1>1, CaptureInvariant, PTL
================================================================================
