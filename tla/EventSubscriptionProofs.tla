------------------------ MODULE EventSubscriptionProofs ------------------------
(***************************************************************************)
(* Theorems about EventSubscription, for every depth of the broadcast      *)
(* channel, every size of pages and batches, and any number of events,     *)
(* lost connections and restarts.                                          *)
(*                                                                         *)
(* The invariant, in four parts, each inductive on those before it:        *)
(*   TypeInv    the variables' types: every seq anybody holds is in the log *)
(*   StreamInv  page and wire are the events that follow the cursor        *)
(*   EndInv     who says that it was all has passed a "finished"           *)
(*   WayInv     the newest event is on its way to whoever sleeps for it    *)
(* and LengthInv, which bounds the log for the type invariant of the runs. *)
(***************************************************************************)
EXTENDS EventSubscription, SequenceTheorems, FiniteSetTheorems, TLAPS

Kinds == {"started", "output", "finished"}

SourceType ==
    /\ log \in Seq(Kinds)
    /\ outbox \in [Producers -> Seq(1 .. Len(log))]
    /\ pc \in {"booting", "reading", "failed", "ended"}

BoundType ==
    /\ others \in 0 .. MaxOthers
    /\ boots \in 0 .. MaxBoots /\ losses \in 0 .. MaxLosses

HubType ==
    /\ mail \in [Receivers -> Seq(0 .. Len(log))]
    /\ \A r \in Receivers : Len(mail[r]) <= HubDepth
    /\ lagged \in [Receivers -> BOOLEAN]

HandlerType ==
    /\ handler \in {"none", "lookup", "replay", "sending", "live", "closed"}
    /\ cursor \in 0 .. Len(log)
    /\ page \in Seq(1 .. Len(log)) /\ Len(page) <= PageSize
    /\ atEnd \in {"more", "done", "live"}

ClientType ==
    /\ wire \in Seq(1 .. Len(log))
    /\ next \in 0 .. Len(log)
    /\ client \in {"following", "ended", "refused", "gap"}

WaiterType ==
    /\ waiter \in {"idle", "subscribed", "parked", "answering", "returned"}
    /\ after \in 0 .. Len(log)

TypeInv ==
    SourceType /\ BoundType /\ HubType /\ HandlerType /\ ClientType
        /\ WaiterType

\* What is on the wire follows what the subscriber has, up to the cursor; the
\* page the handler sends follows the cursor.
StreamInv ==
    /\ handler = "none" => wire = <<>>
    /\ handler # "none" => cursor = next + Len(wire)
    /\ \A i \in 1 .. Len(wire) : wire[i] = next + i
    /\ handler = "sending" =>
         /\ cursor + Len(page) <= Len(log)
         /\ \A i \in 1 .. Len(page) : page[i] = cursor + i
    /\ client \notin {"gap", "refused"}

\* A reader that is past position c has read the outcome.
Told(c) == \E i \in 1 .. Len(log) : log[i] = "finished" /\ i <= c

EndInv ==
    /\ handler = "closed" => Told(cursor)
    /\ handler = "sending" /\ atEnd = "done" => Told(cursor + Len(page))
    /\ client = "ended" => Told(next)

\* The newest event of all is still to come, or the receiver will say it lagged.
Coming(r) ==
    \/ lagged[r]
    \/ \E i \in 1 .. Len(mail[r]) : mail[r][i] = Len(log)
    \/ \E p \in Producers : \E i \in 1 .. Len(outbox[p]) :
         outbox[p][i] = Len(log)

\* Where the handler is when it has sent its page, and whether it then waits.
HandlerPosition == IF handler = "sending" THEN cursor + Len(page) ELSE cursor
HandlerWaits == handler = "live" \/ (handler = "sending" /\ atEnd = "live")

WayInv ==
    /\ HandlerWaits /\ HandlerPosition < Len(log) => Coming("subscriber")
    /\ waiter = "parked" /\ after < Len(log) => Coming("waiter")

\* One "started" by the task's first step, one "finished", and output.
LengthInv ==
    /\ Outputs <= MaxOutput
    /\ Len(log) <= Outputs + (IF pc = "booting" THEN 0 ELSE 1)
                           + (IF Terminal THEN 1 ELSE 0)

-----------------------------------------------------------------------------
(* Types.                                                                  *)

LEMMA Longer ==
    ASSUME NEW m \in Nat, NEW n \in Nat, m <= n
    PROVE  /\ \A s \in Seq(1 .. m) : s \in Seq(1 .. n)
           /\ \A s \in Seq(0 .. m) : s \in Seq(0 .. n)
           /\ 0 .. m \subseteq 0 .. n
<1>1. 1 .. m \subseteq 1 .. n /\ 0 .. m \subseteq 0 .. n
    OBVIOUS
<1> QED
    BY <1>1, SeqMonotonic

\* The log is only ever added to.
LogGrows ==
    /\ log' \in Seq(Kinds)
    /\ Len(log) <= Len(log')
    /\ \A i \in 1 .. Len(log) : log'[i] = log[i]

\* What a variable that is left alone says of the log stays true of a longer one.
LEMMA OutboxKept ==
    ASSUME TypeInv, LogGrows, UNCHANGED outbox
    PROVE  outbox' \in [Producers -> Seq(1 .. Len(log'))]
BY Longer, LenProperties DEF TypeInv, SourceType, LogGrows

LEMMA HubKept ==
    ASSUME TypeInv, LogGrows, UNCHANGED hubVars
    PROVE  HubType'
BY Longer, LenProperties DEF TypeInv, SourceType, LogGrows, HubType, hubVars

LEMMA HandlerKept ==
    ASSUME TypeInv, LogGrows, UNCHANGED handlerVars
    PROVE  HandlerType'
BY Longer, LenProperties
   DEF TypeInv, SourceType, LogGrows, HandlerType, handlerVars

LEMMA ClientKept ==
    ASSUME TypeInv, LogGrows, UNCHANGED clientVars
    PROVE  ClientType'
BY Longer, LenProperties
   DEF TypeInv, SourceType, LogGrows, ClientType, clientVars

LEMMA WaiterKept ==
    ASSUME TypeInv, LogGrows, UNCHANGED waiterVars
    PROVE  WaiterType'
BY Longer, LenProperties
   DEF TypeInv, SourceType, LogGrows, WaiterType, waiterVars

LEMMA LogKept == ASSUME TypeInv, UNCHANGED log PROVE LogGrows
BY LenProperties DEF TypeInv, SourceType, LogGrows

\* A producer's transaction.
LEMMA StoreGrows ==
    ASSUME TypeInv, NEW p \in Producers, NEW kinds \in Seq(Kinds),
           Store(p, kinds)
    PROVE  /\ LogGrows
           /\ Len(log') = Len(log) + Len(kinds)
           /\ \A i \in 1 .. Len(kinds) : log'[Len(log) + i] = kinds[i]
           /\ outbox[p] = <<>>
           /\ outbox'[p] = [i \in 1 .. Len(kinds) |-> Len(log) + i]
           /\ \A q \in Producers \ {p} : outbox'[q] = outbox[q]
           /\ outbox' \in [Producers -> Seq(1 .. Len(log'))]
<1>1. log \in Seq(Kinds) /\ log' = log \o kinds
    BY DEF TypeInv, SourceType, Store
<1>2. /\ log' \in Seq(Kinds)
      /\ Len(log') = Len(log) + Len(kinds)
      /\ \A i \in 1 .. Len(log) + Len(kinds) :
            log'[i] = IF i <= Len(log) THEN log[i] ELSE kinds[i - Len(log)]
    BY <1>1, ConcatProperties
<1>3. Len(log) \in Nat /\ Len(kinds) \in Nat
    BY <1>1, LenProperties
<1>4. LogGrows
    BY <1>2, <1>3 DEF LogGrows
<1>5. \A i \in 1 .. Len(kinds) : log'[Len(log) + i] = kinds[i]
    <2> SUFFICES ASSUME NEW i \in 1 .. Len(kinds)
                 PROVE  log'[Len(log) + i] = kinds[i]
        OBVIOUS
    <2>1. Len(log) + i \in 1 .. Len(log) + Len(kinds) /\ ~(Len(log) + i <= Len(log))
          /\ (Len(log) + i) - Len(log) = i
        BY <1>3
    <2> QED BY <2>1, <1>2
<1>6. [i \in 1 .. Len(kinds) |-> Len(log) + i] \in Seq(1 .. Len(log'))
    BY <1>2, <1>3
<1>7. \A q \in Producers : outbox[q] \in Seq(1 .. Len(log'))
    BY <1>2, <1>3, Longer DEF TypeInv, SourceType
<1>8. outbox \in [Producers -> Seq(1 .. Len(log))]
    BY DEF TypeInv, SourceType
<1>9. outbox' = [outbox EXCEPT ![p] = [i \in 1 .. Len(kinds) |-> Len(log) + i]]
      /\ outbox[p] = <<>>
    BY DEF Store
<1> QED
    BY <1>2, <1>4, <1>5, <1>6, <1>7, <1>8, <1>9

\* What the producers store.
LEMMA KindsStored ==
    /\ <<>> \in Seq(Kinds) /\ Len(<<>>) = 0
    /\ \A k \in Kinds : <<k>> \in Seq(Kinds) /\ Len(<<k>>) = 1 /\ <<k>>[1] = k
    /\ \A n \in Nat :
         /\ [i \in 1 .. n |-> "output"] \in Seq(Kinds)
         /\ Len([i \in 1 .. n |-> "output"]) = n
<1>1. "output" \in Kinds
    BY DEF Kinds
<1>2. \A n \in Nat : [i \in 1 .. n |-> "output"] \in Seq(Kinds)
                     /\ Len([i \in 1 .. n |-> "output"]) = n
    BY <1>1
<1> QED
    BY <1>2

\* A step of a producer stores what belongs to that step; none of them changes
\* anything but the log, one outbox and pc.
Stores(p, kinds) == kinds \in Seq(Kinds) /\ Store(p, kinds)

LEMMA SourceStores ==
    ASSUME TypeInv, TaskStarts \/ WriteBatch \/ TaskFinishes \/ TaskFails
                      \/ CloseQueued
    PROVE  \E p \in Producers, kinds \in Seq(Kinds) : Stores(p, kinds)
<1>1. CASE TaskStarts
    <2>1. (IF Terminal THEN <<>> ELSE <<"started">>) \in Seq(Kinds)
        BY KindsStored DEF Kinds
    <2> QED BY <1>1, <2>1 DEF TaskStarts, Stores, Producers
<1>2. CASE WriteBatch
    <2>1. PICK n \in 1 .. BatchSize : Store("writer", [i \in 1 .. n |-> "output"])
        BY <1>2 DEF WriteBatch
    <2>2. n \in Nat
        BY SubscriptionAssumption
    <2> QED BY <2>1, <2>2, KindsStored DEF Stores, Producers
<1>3. CASE TaskFinishes \/ TaskFails
    <2>1. (IF Terminal THEN <<>> ELSE <<"finished">>) \in Seq(Kinds)
        BY KindsStored DEF Kinds
    <2> QED BY <1>3, <2>1 DEF TaskFinishes, TaskFails, Stores, Producers
<1>4. CASE CloseQueued
    <2>1. <<"finished">> \in Seq(Kinds)
        BY KindsStored DEF Kinds
    <2> QED BY <1>4, <2>1 DEF CloseQueued, Stores, Producers
<1> QED
    BY <1>1, <1>2, <1>3, <1>4

LEMMA RestartGrows ==
    ASSUME TypeInv, Restart PROVE LogGrows
<1>1. log \in Seq(Kinds) /\ "finished" \in Kinds
    BY DEF TypeInv, SourceType, Kinds
<1>2. CASE Terminal
    BY <1>2, LogKept DEF Restart
<1>3. CASE ~Terminal
    <2>1. log' = Append(log, "finished")
        BY <1>3 DEF Restart
    <2> QED BY <1>1, <2>1, AppendProperties, LenProperties DEF LogGrows
<1> QED
    BY <1>2, <1>3

LEMMA LogStep ==
    ASSUME TypeInv, [Next]_vars PROVE LogGrows
<1>1. CASE TaskStarts \/ WriteBatch \/ TaskFinishes \/ TaskFails \/ CloseQueued
    BY <1>1, SourceStores, StoreGrows DEF Stores
<1>2. CASE Restart
    BY <1>2, RestartGrows
<1>3. CASE UNCHANGED log
    BY <1>3, LogKept
<1>4. ASSUME OtherExecution \/ HandlerStep \/ ClientStep \/ WaiterStep
               \/ (\E p \in Producers : Broadcast(p)) \/ WaitBegins
               \/ WaitTimeout \/ ConnectionLost \/ UNCHANGED vars
      PROVE  UNCHANGED log
    <2>1. CASE HandlerStep
        BY <2>1 DEF HandlerStep, LookUp, ReadPage, SendPage, PageSent,
           ReceiveLagged, Receive, Deliver, Handler, sourceVars
    <2>2. CASE ClientStep
        BY <2>2 DEF ClientStep, Subscribe, NextEvent, EndOfStream, Handler,
           sourceVars
    <2>3. CASE WaiterStep \/ WaitBegins \/ WaitTimeout
        BY <2>3 DEF WaiterStep, WaitReads, WaitReceives, WaitReturns,
           WaitBegins, WaitTimeout, Wait, sourceVars
    <2>4. CASE OtherExecution \/ (\E p \in Producers : Broadcast(p))
                 \/ ConnectionLost \/ UNCHANGED vars
        BY <2>4 DEF OtherExecution, Broadcast, ConnectionLost, vars, sourceVars
    <2> QED BY <1>4, <2>1, <2>2, <2>3, <2>4
<1> QED
    BY <1>1, <1>2, <1>3, <1>4 DEF Next, SourceStep

LEMMA TypeInit == Init => TypeInv
<1> SUFFICES ASSUME Init PROVE TypeInv
    OBVIOUS
<1>1. SourceType /\ BoundType
    BY SubscriptionAssumption DEF Init, SourceType, BoundType, Kinds
<1>2. HubType
    BY SubscriptionAssumption DEF Init, HubType
<1>3. HandlerType /\ ClientType /\ WaiterType
    BY SubscriptionAssumption DEF Init, HandlerType, ClientType, WaiterType
<1> QED
    BY <1>1, <1>2, <1>3 DEF TypeInv

\* A message to the receivers, and a fresh receiver.
LEMMA SendType ==
    ASSUME TypeInv, UNCHANGED log, NEW seq \in 0 .. Len(log), Send(seq)
    PROVE  HubType'
<1> DEFINE S == 0 .. Len(log)
<1>1. /\ mail \in [Receivers -> Seq(S)]
      /\ \A r \in Receivers : Len(mail[r]) \in Nat /\ Len(mail[r]) <= HubDepth
      /\ HubDepth \in Nat \ {0}
    BY SubscriptionAssumption DEF TypeInv, HubType
<1>2. \A r \in Receivers : Append(mail[r], seq) \in Seq(S)
                           /\ Len(Append(mail[r], seq)) = Len(mail[r]) + 1
    BY <1>1, AppendProperties
<1>3. \A r \in Receivers : mail[r] # <<>> =>
          /\ Append(Tail(mail[r]), seq) \in Seq(S)
          /\ Len(Append(Tail(mail[r]), seq)) = Len(mail[r])
    <2> SUFFICES ASSUME NEW r \in Receivers, mail[r] # <<>>
                 PROVE  /\ Append(Tail(mail[r]), seq) \in Seq(S)
                        /\ Len(Append(Tail(mail[r]), seq)) = Len(mail[r])
        OBVIOUS
    <2>1. Tail(mail[r]) \in Seq(S) /\ Len(Tail(mail[r])) = Len(mail[r]) - 1
        BY <1>1, HeadTailProperties
    <2> QED BY <1>1, <2>1, AppendProperties
<1>4. \A r \in Receivers : Len(mail[r]) >= HubDepth => mail[r] # <<>>
    BY <1>1, EmptySeq
<1>5. <<>> \in Seq(S) /\ Len(<<>>) = 0
    BY EmptySeq
<1> DEFINE M(r) == IF ~Listening(r) THEN <<>>
                   ELSE IF Len(mail[r]) < HubDepth THEN Append(mail[r], seq)
                   ELSE Append(Tail(mail[r]), seq)
<1>6. \A r \in Receivers : M(r) \in Seq(S) /\ Len(M(r)) <= HubDepth
    <2> HIDE DEF S
    <2> SUFFICES ASSUME NEW r \in Receivers
                 PROVE  M(r) \in Seq(S) /\ Len(M(r)) <= HubDepth
        OBVIOUS
    <2>1. CASE ~Listening(r)
        BY <2>1, <1>1, <1>5
    <2>2. CASE Listening(r) /\ Len(mail[r]) < HubDepth
        BY <2>2, <1>1, <1>2
    <2>3. CASE Listening(r) /\ ~(Len(mail[r]) < HubDepth)
        BY <2>3, <1>1, <1>3, <1>4
    <2> QED BY <2>1, <2>2, <2>3
<1>7. mail' = [r \in Receivers |-> M(r)]
    BY DEF Send
<1>8. lagged' \in [Receivers -> BOOLEAN]
    BY DEF Send, Listening, TypeInv, HubType
<1> HIDE DEF M
<1> QED
    BY <1>6, <1>7, <1>8 DEF HubType

LEMMA NewReceiverType ==
    ASSUME TypeInv, UNCHANGED log, NEW r \in Receivers, NewReceiver(r)
    PROVE  HubType'
BY SubscriptionAssumption, EmptySeq DEF TypeInv, HubType, NewReceiver

\* A receiver takes its oldest event.
LEMMA TakeType ==
    ASSUME TypeInv, UNCHANGED <<log, lagged>>, NEW r \in Receivers,
           mail[r] # <<>>, mail' = [mail EXCEPT ![r] = Tail(@)]
    PROVE  HubType' /\ Head(mail[r]) \in 0 .. Len(log)
<1>1. mail[r] \in Seq(0 .. Len(log)) /\ Len(mail[r]) <= HubDepth
    BY DEF TypeInv, HubType
<1>2. /\ Tail(mail[r]) \in Seq(0 .. Len(log))
      /\ Len(Tail(mail[r])) = Len(mail[r]) - 1
      /\ Head(mail[r]) \in 0 .. Len(log)
    BY <1>1, HeadTailProperties
<1>3. Len(mail[r]) \in Nat /\ HubDepth \in Nat
    BY <1>1, LenProperties, SubscriptionAssumption
<1>4. Len(Tail(mail[r])) <= HubDepth
    BY <1>1, <1>2, <1>3
<1> QED
    BY <1>2, <1>4 DEF TypeInv, HubType

\* An event sent to the subscriber.
LEMMA DeliverType ==
    ASSUME TypeInv, UNCHANGED log, NEW seq \in 1 .. Len(log),
           NEW otherwise \in {"sending", "live"}, Deliver(seq, otherwise)
    PROVE  /\ SourceType' /\ BoundType' /\ ClientType' /\ WaiterType'
           /\ handler' \in {otherwise, "closed"} /\ cursor' \in 0 .. Len(log')
<1>1. wire' \in Seq(1 .. Len(log'))
    BY AppendProperties DEF TypeInv, ClientType, Deliver
<1> QED
    BY <1>1 DEF TypeInv, ClientType, SourceType, BoundType, WaiterType,
       Deliver, Handler, sourceVars, boundVars, waiterVars

\* A transaction of a producer.
SourceStore == TaskStarts \/ WriteBatch \/ TaskFinishes \/ TaskFails \/ CloseQueued

LEMMA SourceFrame ==
    ASSUME SourceStore
    PROVE  /\ UNCHANGED <<boundVars, hubVars, handlerVars, clientVars, waiterVars>>
           /\ pc' \in {pc, "reading", "failed", "ended"}
BY DEF SourceStore, TaskStarts, WriteBatch, TaskFinishes, TaskFails,
   CloseQueued, Store

LEMMA SourceTypeStep ==
    ASSUME TypeInv, SourceStore
    PROVE  TypeInv'
<1>1. PICK p \in Producers, kinds \in Seq(Kinds) : Stores(p, kinds)
    BY SourceStores DEF SourceStore
<1>2. LogGrows /\ outbox' \in [Producers -> Seq(1 .. Len(log'))]
    BY <1>1, StoreGrows DEF Stores
<1>3. SourceType'
    BY <1>2, SourceFrame DEF TypeInv, SourceType, LogGrows
<1>4. BoundType'
    BY SourceFrame DEF TypeInv, BoundType, boundVars
<1> QED
    BY <1>2, <1>3, <1>4, SourceFrame, HubKept, HandlerKept, ClientKept,
       WaiterKept DEF TypeInv

LEMMA BroadcastTypeStep ==
    ASSUME TypeInv, NEW p \in Producers, Broadcast(p)
    PROVE  /\ TypeInv'
           /\ Head(outbox[p]) \in 1 .. Len(log)
<1>1. outbox[p] \in Seq(1 .. Len(log)) /\ outbox[p] # <<>> /\ UNCHANGED log
    BY DEF TypeInv, SourceType, Broadcast
<1>2. Head(outbox[p]) \in 1 .. Len(log) /\ Tail(outbox[p]) \in Seq(1 .. Len(log))
    BY <1>1, HeadTailProperties
<1>3. HubType'
    BY <1>1, <1>2, SendType DEF Broadcast
<1>4. SourceType'
    BY <1>1, <1>2 DEF TypeInv, SourceType, Broadcast
<1>5. LogGrows
    BY <1>1, LogKept
<1> QED
    BY <1>2, <1>3, <1>4, <1>5, HandlerKept, ClientKept, WaiterKept
    DEF TypeInv, Broadcast, BoundType, boundVars

LEMMA OtherTypeStep == ASSUME TypeInv, OtherExecution PROVE TypeInv'
<1>1. UNCHANGED log /\ UNCHANGED outbox /\ UNCHANGED pc
    BY DEF OtherExecution, sourceVars
<1>2. Len(log) \in Nat
    BY LenProperties DEF TypeInv, SourceType
<1>3. HubType'
    BY <1>1, <1>2, SendType DEF OtherExecution
<1>4. SourceType' /\ BoundType'
    BY <1>1, SubscriptionAssumption DEF TypeInv, SourceType, BoundType,
       OtherExecution
<1>5. LogGrows
    BY <1>1, LogKept
<1> QED
    BY <1>3, <1>4, <1>5, HandlerKept, ClientKept, WaiterKept
    DEF TypeInv, OtherExecution

\* The page that is read: what follows the cursor, as much as fits.
LEMMA PageRead ==
    ASSUME TypeInv, ReadPage
    PROVE  /\ page' \in Seq(1 .. Len(log)) /\ Len(page') <= PageSize
           /\ cursor + Len(page') <= Len(log)
           /\ \A i \in 1 .. Len(page') : page'[i] = cursor + i
           /\ atEnd' \in {"more", "done", "live"}
           /\ atEnd' \in {"done", "live"} => cursor + Len(page') = Len(log)
           /\ atEnd' = "done" => Terminal
           /\ UNCHANGED <<log, cursor>> /\ handler' = "sending"
<1> DEFINE last == IF cursor + PageSize < Len(log) THEN cursor + PageSize
                   ELSE Len(log)
           n == last - cursor
<1>1. Len(log) \in Nat /\ cursor \in Nat /\ cursor <= Len(log) /\ PageSize \in Nat
    BY LenProperties, SubscriptionAssumption DEF TypeInv, SourceType, HandlerType
<1>2. n \in Nat /\ n <= PageSize /\ cursor + n <= Len(log)
      /\ (~(last < Len(log)) => cursor + n = Len(log))
    BY <1>1
<1>3. page' = [i \in 1 .. n |-> cursor + i]
    BY DEF ReadPage
<1>4. /\ atEnd' = "more" \/ atEnd' = "done" \/ atEnd' = "live"
      /\ atEnd' \in {"done", "live"} => ~(last < Len(log))
      /\ atEnd' = "done" => Terminal
    BY DEF ReadPage
<1>5. UNCHANGED <<log, cursor>> /\ handler' = "sending"
    BY DEF ReadPage, Handler, sourceVars
<1> HIDE DEF n, last
<1>6. \A i \in 1 .. n : cursor + i \in 1 .. Len(log)
    BY <1>1, <1>2
<1>7. page' \in Seq(1 .. Len(log)) /\ Len(page') = n
      /\ \A i \in 1 .. n : page'[i] = cursor + i
    BY <1>2, <1>3, <1>6
<1> QED
    BY <1>2, <1>4, <1>5, <1>7

LEMMA HandlerTypeStep == ASSUME TypeInv, HandlerStep PROVE TypeInv'
<1>0. Len(log) \in Nat
    BY LenProperties DEF TypeInv, SourceType
<1>1. CASE LookUp
    <2>1. LogGrows
        BY <1>1, LogKept DEF LookUp, sourceVars
    <2>2. SourceType' /\ BoundType' /\ HandlerType' /\ ClientType'
        BY <1>1 DEF LookUp, TypeInv, SourceType, BoundType, HandlerType,
           ClientType, sourceVars, boundVars
    <2> QED BY <1>1, <2>1, <2>2, HubKept, WaiterKept DEF TypeInv, LookUp
<1>2. CASE ReadPage
    <2>1. LogGrows
        BY <1>2, LogKept, PageRead
    <2>2. HandlerType'
        BY <1>2, PageRead DEF TypeInv, HandlerType
    <2>3. SourceType' /\ BoundType' /\ ClientType'
        BY <1>2 DEF ReadPage, Handler, TypeInv, SourceType, BoundType,
           ClientType, sourceVars, boundVars
    <2> QED BY <1>2, <2>1, <2>2, <2>3, HubKept, WaiterKept
            DEF TypeInv, ReadPage, Handler
<1>3. CASE SendPage
    <2>1. page \in Seq(1 .. Len(log)) /\ page # <<>> /\ Len(page) <= PageSize
        BY <1>3 DEF SendPage, TypeInv, HandlerType
    <2>2. /\ Head(page) \in 1 .. Len(log) /\ Tail(page) \in Seq(1 .. Len(log))
          /\ Len(Tail(page)) = Len(page) - 1 /\ Len(page) \in Nat
        BY <2>1, HeadTailProperties, LenProperties
    <2>3. Len(Tail(page)) <= PageSize
        BY <2>1, <2>2, SubscriptionAssumption
    <2>4. UNCHANGED log /\ UNCHANGED hubVars /\ UNCHANGED atEnd
        BY <1>3 DEF SendPage, Deliver, Handler, sourceVars
    <2>5. /\ SourceType' /\ BoundType' /\ ClientType' /\ WaiterType'
          /\ handler' \in {"sending", "closed"} /\ cursor' \in 0 .. Len(log')
        BY <1>3, <2>2, <2>4, DeliverType DEF SendPage
    <2>6. HandlerType'
        BY <1>3, <2>2, <2>3, <2>4, <2>5 DEF SendPage, TypeInv, HandlerType
    <2> QED BY <2>4, <2>5, <2>6, LogKept, HubKept DEF TypeInv
<1>4. CASE PageSent
    <2>1. handler' \in {"replay", "closed", "live"}
        BY <1>4, Zenon DEF PageSent, Handler, TypeInv, HandlerType
    <2>2. UNCHANGED <<sourceVars, boundVars, waiterVars, next, client, hubVars,
                      cursor, page, atEnd, wire>>
        BY <1>4, Zenon DEF PageSent, Handler
    <2> QED BY <2>1, <2>2 DEF TypeInv, SourceType, BoundType, HubType,
               HandlerType, ClientType, WaiterType, sourceVars, boundVars,
               hubVars, waiterVars
<1>5. CASE ReceiveLagged
    BY <1>5 DEF ReceiveLagged, Handler, TypeInv, SourceType, BoundType, HubType,
       HandlerType, ClientType, WaiterType, sourceVars, boundVars, waiterVars
<1>6. CASE Receive
    <2> DEFINE seq == Head(mail["subscriber"])
    <2>1. HubType' /\ seq \in 0 .. Len(log) /\ UNCHANGED log
        <3>1. UNCHANGED <<log, lagged>> /\ mail["subscriber"] # <<>>
              /\ mail' = [mail EXCEPT !["subscriber"] = Tail(@)]
            BY <1>6 DEF Receive, Handler, Deliver, sourceVars
        <3> QED BY <3>1, TakeType DEF Receivers
    <2>2. CASE seq = cursor + 1 /\ Deliver(seq, "live")
        <3>1. seq \in 1 .. Len(log)
            BY <1>0, <2>1, <2>2 DEF TypeInv, HandlerType
        <3>2. /\ SourceType' /\ BoundType' /\ ClientType' /\ WaiterType'
              /\ handler' \in {"live", "closed"} /\ cursor' \in 0 .. Len(log')
            BY <2>1, <2>2, <3>1, DeliverType
        <3> QED BY <1>6, <2>1, <3>2 DEF Receive, TypeInv, HandlerType
    <2>3. CASE /\ Handler("live") \/ Handler("replay")
               /\ UNCHANGED <<cursor, wire>>
        BY <1>6, <2>1, <2>3 DEF Receive, Handler, TypeInv, SourceType, BoundType,
           HandlerType, ClientType, WaiterType, sourceVars, boundVars, waiterVars
    <2> QED BY <1>6, <2>2, <2>3 DEF Receive
<1> QED
    BY <1>1, <1>2, <1>3, <1>4, <1>5, <1>6 DEF HandlerStep

LEMMA ClientTypeStep == ASSUME TypeInv, ClientStep PROVE TypeInv'
<1>0. Len(log) \in Nat
    BY LenProperties DEF TypeInv, SourceType
<1>1. CASE Subscribe
    <2>1. UNCHANGED log
        BY <1>1 DEF Subscribe, Handler, sourceVars
    <2>2. HubType'
        BY <1>1, <2>1, NewReceiverType DEF Subscribe, Receivers
    <2> QED BY <1>1, <2>2 DEF Subscribe, Handler, TypeInv, SourceType, BoundType,
               HandlerType, ClientType, WaiterType, sourceVars, boundVars,
               waiterVars
<1>2. CASE NextEvent
    <2>1. /\ Head(wire) \in 1 .. Len(log) /\ Tail(wire) \in Seq(1 .. Len(log))
        BY <1>2, HeadTailProperties DEF NextEvent, TypeInv, ClientType
    <2>2. ClientType'
        BY <1>0, <1>2, <2>1 DEF NextEvent, TypeInv, ClientType, sourceVars
    <2> QED BY <1>2, <2>2 DEF NextEvent, TypeInv, SourceType, BoundType, HubType,
               HandlerType, WaiterType, sourceVars, boundVars, hubVars,
               handlerVars, waiterVars
<1>3. CASE EndOfStream
    BY <1>3 DEF EndOfStream, TypeInv, SourceType, BoundType, HubType, HandlerType,
       ClientType, WaiterType, sourceVars, boundVars, hubVars, handlerVars,
       waiterVars
<1> QED
    BY <1>1, <1>2, <1>3 DEF ClientStep

LEMMA WaitTypeStep ==
    ASSUME TypeInv, WaiterStep \/ WaitBegins \/ WaitTimeout PROVE TypeInv'
<1>0. Len(log) \in Nat /\ "waiter" \in Receivers
    BY LenProperties DEF TypeInv, SourceType, Receivers
<1>1. /\ UNCHANGED <<sourceVars, boundVars, handlerVars, clientVars>>
      /\ waiter' \in {"subscribed", "parked", "answering", "returned"}
    BY DEF WaiterStep, WaitReads, WaitReceives, WaitReturns, WaitBegins,
       WaitTimeout, Wait
<1>2. after' \in 0 .. Len(log)
    BY <1>0 DEF WaiterStep, WaitReads, WaitReceives, WaitReturns, WaitBegins,
       WaitTimeout, TypeInv, WaiterType
<1>3. WaitReceives => HubType'
    BY <1>0, TakeType DEF WaitReceives, Wait, sourceVars
<1>4. HubType'
    BY <1>0, <1>1, <1>3, NewReceiverType, HubKept, LogKept
    DEF WaiterStep, WaitReads, WaitReceives, WaitReturns, WaitBegins,
        WaitTimeout, sourceVars
<1> QED
    BY <1>1, <1>2, <1>4 DEF TypeInv, SourceType, BoundType, HandlerType,
       ClientType, WaiterType, sourceVars, boundVars, handlerVars, clientVars

LEMMA LossTypeStep == ASSUME TypeInv, ConnectionLost \/ Restart PROVE TypeInv'
<1>0. Len(log) \in Nat /\ <<>> \in Seq(1 .. Len(log)) /\ Len(<<>>) = 0
    BY LenProperties DEF TypeInv, SourceType
<1>1. CASE ConnectionLost
    <2>1. HandlerType' /\ ClientType' /\ BoundType'
        BY <1>0, <1>1, SubscriptionAssumption DEF ConnectionLost, Disconnect,
           TypeInv, HandlerType, ClientType, BoundType, sourceVars
    <2> QED BY <1>1, <2>1 DEF ConnectionLost, TypeInv, SourceType, HubType,
               WaiterType, sourceVars, hubVars, waiterVars
<1>2. CASE Restart
    <2>1. LogGrows
        BY <1>2, RestartGrows
    <2>2. Len(log') \in Nat /\ Len(log) <= Len(log')
        BY <2>1, LenProperties DEF LogGrows
    <2>3. SourceType' /\ BoundType'
        BY <1>2, <2>1, SubscriptionAssumption DEF Restart, LogGrows, SourceType,
           TypeInv, BoundType
    <2>4. HubType'
        BY <1>2, SubscriptionAssumption DEF Restart, HubType
    <2>5. HandlerType' /\ WaiterType'
        BY <1>2, <2>2, SubscriptionAssumption DEF Restart, Disconnect, TypeInv,
           HandlerType, WaiterType
    <2>6. ClientType'
        BY <1>0, <1>2, <2>2 DEF Restart, Disconnect, TypeInv, ClientType
    <2> QED BY <2>3, <2>4, <2>5, <2>6 DEF TypeInv
<1> QED
    BY <1>1, <1>2

LEMMA TypeStep == ASSUME TypeInv, [Next]_vars PROVE TypeInv'
<1>1. CASE UNCHANGED vars
    BY <1>1 DEF vars, sourceVars, boundVars, hubVars, handlerVars, clientVars,
       waiterVars, TypeInv, SourceType, BoundType, HubType, HandlerType,
       ClientType, WaiterType
<1> QED
    BY <1>1, SourceTypeStep, BroadcastTypeStep, OtherTypeStep, HandlerTypeStep,
       ClientTypeStep, WaitTypeStep, LossTypeStep DEF Next, SourceStep, SourceStore

LEMMA TypeInvariance == Spec => []TypeInv
<1> QED BY TypeInit, TypeStep, PTL DEF Spec

-----------------------------------------------------------------------------
(* Page and wire.                                                          *)

\* A step that sends nothing to the subscriber and reads nothing.
StreamFrame == UNCHANGED <<wire, next, client, handler, cursor, page>>

LEMMA StreamKept ==
    ASSUME TypeInv, StreamInv, LogGrows, StreamFrame
    PROVE  StreamInv'
<1>1. Len(log) \in Nat /\ Len(log') \in Nat /\ Len(log) <= Len(log')
    BY LenProperties DEF TypeInv, SourceType, LogGrows
<1>2. cursor \in Nat /\ Len(page) \in Nat
    BY LenProperties DEF TypeInv, HandlerType
<1> QED
    BY <1>1, <1>2 DEF StreamInv, StreamFrame

\* The next event is sent: the wire is one event longer, and so is the cursor.
LEMMA DeliverStream ==
    ASSUME TypeInv, StreamInv, handler # "none", NEW otherwise,
           cursor + 1 \in 1 .. Len(log), Deliver(cursor + 1, otherwise)
    PROVE  /\ cursor' = next' + Len(wire')
           /\ \A i \in 1 .. Len(wire') : wire'[i] = next' + i
           /\ UNCHANGED <<next, client>> /\ cursor' = cursor + 1
<1>1. wire \in Seq(1 .. Len(log)) /\ Len(wire) \in Nat /\ next \in Nat /\ cursor \in Nat
    BY LenProperties DEF TypeInv, ClientType, HandlerType
<1>2. /\ Len(wire') = Len(wire) + 1
      /\ \A i \in 1 .. Len(wire) : wire'[i] = wire[i]
      /\ wire'[Len(wire) + 1] = cursor + 1
      /\ UNCHANGED <<next, client>> /\ cursor' = cursor + 1
    BY <1>1, AppendProperties DEF Deliver, Handler
<1>3. /\ cursor = next + Len(wire)
      /\ \A i \in 1 .. Len(wire) : wire[i] = next + i
    BY DEF StreamInv
<1>4. ASSUME NEW i \in 1 .. Len(wire') PROVE wire'[i] = next' + i
    <2>1. CASE i \in 1 .. Len(wire)
        BY <1>2, <1>3, <2>1
    <2>2. CASE i = Len(wire) + 1
        BY <1>1, <1>2, <1>3, <2>2
    <2> QED BY <1>1, <1>2, <2>1, <2>2
<1> QED
    BY <1>1, <1>2, <1>3, <1>4

LEMMA StreamStep ==
    ASSUME TypeInv, StreamInv, [Next]_vars PROVE StreamInv'
<1>0. /\ LogGrows /\ TypeInv'
      /\ Len(log) \in Nat /\ Len(page) \in Nat /\ Len(wire) \in Nat
      /\ cursor \in Nat /\ next \in Nat
    BY LogStep, TypeStep, LenProperties
    DEF TypeInv, SourceType, HandlerType, ClientType
<1>1. CASE SourceStore \/ OtherExecution \/ (\E p \in Producers : Broadcast(p))
    <2>1. StreamFrame
        BY <1>1, SourceFrame DEF OtherExecution, Broadcast, StreamFrame,
           handlerVars, clientVars
    <2> QED BY <1>0, <2>1, StreamKept
<1>2. CASE WaiterStep \/ WaitBegins \/ WaitTimeout
    <2>1. StreamFrame
        BY <1>2 DEF WaiterStep, WaitReads, WaitReceives, WaitReturns, WaitBegins,
           WaitTimeout, Wait, StreamFrame, handlerVars, clientVars
    <2> QED BY <1>0, <2>1, StreamKept
<1>3. CASE LookUp
    BY <1>0, <1>3 DEF LookUp, StreamInv, TypeInv, HandlerType, sourceVars
<1>4. CASE ReadPage
    <2>1. /\ cursor + Len(page') <= Len(log)
          /\ \A i \in 1 .. Len(page') : page'[i] = cursor + i
          /\ UNCHANGED <<log, cursor>> /\ handler' = "sending"
        BY <1>4, PageRead
    <2>2. UNCHANGED <<wire, next, client>> /\ handler = "replay"
        BY <1>4 DEF ReadPage, Handler
    <2> QED BY <2>1, <2>2 DEF StreamInv
<1>5. CASE SendPage
    <2>1. page \in Seq(1 .. Len(log)) /\ page # <<>> /\ handler = "sending"
        BY <1>5 DEF SendPage, TypeInv, HandlerType
    <2>2. /\ Len(Tail(page)) = Len(page) - 1 /\ Head(page) = page[1]
          /\ \A i \in 1 .. Len(Tail(page)) : Tail(page)[i] = page[i + 1]
          /\ Len(page) > 0
        BY <1>0, <2>1, HeadTailProperties, EmptySeq
    <2>3. Head(page) = cursor + 1 /\ cursor + 1 \in 1 .. Len(log)
        BY <1>0, <2>1, <2>2 DEF StreamInv
    <2>4. /\ cursor' = next' + Len(wire')
          /\ \A i \in 1 .. Len(wire') : wire'[i] = next' + i
          /\ UNCHANGED <<next, client>> /\ cursor' = cursor + 1
        BY <1>5, <2>1, <2>3, DeliverStream DEF SendPage
    <2>5. page' = Tail(page) /\ UNCHANGED log /\ handler' \in {"closed", "sending"}
        BY <1>5 DEF SendPage, Deliver, Handler, sourceVars
    <2>6. cursor' + Len(page') <= Len(log')
        BY <1>0, <2>1, <2>2, <2>4, <2>5 DEF StreamInv
    <2>7. \A i \in 1 .. Len(page') : page'[i] = cursor' + i
        <3> SUFFICES ASSUME NEW i \in 1 .. Len(page') PROVE page'[i] = cursor' + i
            OBVIOUS
        <3>1. i + 1 \in 1 .. Len(page) /\ page'[i] = page[i + 1]
            BY <1>0, <2>2, <2>5
        <3>2. page[i + 1] = cursor + (i + 1)
            BY <2>1, <3>1 DEF StreamInv
        <3> QED BY <1>0, <2>4, <3>1, <3>2
    <2> QED BY <2>4, <2>5, <2>6, <2>7 DEF StreamInv
<1>6. CASE PageSent
    <2>1. UNCHANGED <<log, next, client, cursor, page, wire>>
          /\ handler' \in {"replay", "closed", "live"} /\ handler = "sending"
        BY <1>6, Zenon DEF PageSent, Handler, sourceVars, TypeInv, HandlerType
    <2> QED BY <2>1 DEF StreamInv
<1>7. CASE ReceiveLagged
    BY <1>7 DEF ReceiveLagged, Handler, StreamInv, sourceVars
<1>8. CASE Receive
    <2> DEFINE seq == Head(mail["subscriber"])
    <2>1. handler = "live" /\ UNCHANGED <<log, page>> /\ seq \in 0 .. Len(log)
        BY <1>8, HeadTailProperties DEF Receive, Handler, Deliver, sourceVars,
           TypeInv, HubType, Receivers
    <2>2. CASE seq = cursor + 1 /\ Deliver(seq, "live")
        <3>1. /\ cursor' = next' + Len(wire')
              /\ \A i \in 1 .. Len(wire') : wire'[i] = next' + i
              /\ UNCHANGED <<next, client>>
            BY <1>0, <2>1, <2>2, DeliverStream
        <3>2. handler' \in {"closed", "live"}
            BY <2>2 DEF Deliver, Handler
        <3> QED BY <2>1, <3>1, <3>2 DEF StreamInv
    <2>3. CASE /\ Handler("live") \/ Handler("replay")
               /\ UNCHANGED <<cursor, wire>>
        BY <2>1, <2>3 DEF Handler, StreamInv
    <2> QED BY <1>8, <2>2, <2>3 DEF Receive
<1>9. CASE Subscribe
    BY <1>0, <1>9 DEF Subscribe, Handler, StreamInv, sourceVars
<1>10. CASE NextEvent
    <2>1. wire \in Seq(1 .. Len(log)) /\ wire # <<>>
        BY <1>10 DEF NextEvent, TypeInv, ClientType
    <2>2. /\ Len(Tail(wire)) = Len(wire) - 1 /\ Head(wire) = wire[1]
          /\ \A i \in 1 .. Len(Tail(wire)) : Tail(wire)[i] = wire[i + 1]
          /\ Len(wire) > 0
        BY <1>0, <2>1, HeadTailProperties, EmptySeq
    <2>3. Head(wire) = next + 1 /\ handler # "none"
        BY <1>0, <2>1, <2>2 DEF StreamInv
    <2>4. wire' = Tail(wire) /\ next' = next + 1
          /\ UNCHANGED <<client, handler, cursor, page, log>>
        BY <1>10, <2>3 DEF NextEvent, handlerVars, sourceVars
    <2>5. \A i \in 1 .. Len(wire') : wire'[i] = next' + i
        <3> SUFFICES ASSUME NEW i \in 1 .. Len(wire') PROVE wire'[i] = next' + i
            OBVIOUS
        <3>1. i + 1 \in 1 .. Len(wire) /\ wire'[i] = wire[i + 1]
            BY <1>0, <2>2, <2>4
        <3>2. wire[i + 1] = next + (i + 1)
            BY <3>1 DEF StreamInv
        <3> QED BY <1>0, <2>4, <3>1, <3>2
    <2>6. cursor' = next' + Len(wire')
        <3>1. cursor = next + Len(wire) /\ Len(wire') = Len(wire) - 1
            BY <2>2, <2>3, <2>4 DEF StreamInv
        <3>2. next' = next + 1 /\ cursor' = cursor
            BY <2>4
        <3>3. next \in Nat /\ Len(wire) \in Nat
            BY <1>0
        <3> QED BY <3>1, <3>2, <3>3
    <2>7. handler' = "sending" =>
             /\ cursor' + Len(page') <= Len(log')
             /\ \A i \in 1 .. Len(page') : page'[i] = cursor' + i
        BY <2>4 DEF StreamInv
    <2>8. handler' # "none" /\ client' \notin {"gap", "refused"}
        BY <2>3, <2>4 DEF StreamInv
    <2> QED BY <2>5, <2>6, <2>7, <2>8 DEF StreamInv
<1>11. CASE EndOfStream
    BY <1>11 DEF EndOfStream, StreamInv, sourceVars, handlerVars
<1>12. CASE ConnectionLost \/ Restart
    BY <1>12 DEF ConnectionLost, Restart, Disconnect, StreamInv
<1>13. CASE UNCHANGED vars
    BY <1>13 DEF vars, sourceVars, handlerVars, clientVars, StreamInv
<1> QED
    BY <1>1, <1>2, <1>3, <1>4, <1>5, <1>6, <1>7, <1>8, <1>9, <1>10, <1>11, <1>12,
       <1>13 DEF Next, SourceStep, SourceStore, HandlerStep, ClientStep

LEMMA StreamInvariance == Spec => [](TypeInv /\ StreamInv)
<1>1. Init => StreamInv
    BY DEF Init, StreamInv
<1> QED
    BY <1>1, StreamStep, TypeInvariance, PTL DEF Spec

-----------------------------------------------------------------------------
(* The end of a stream.                                                    *)

\* What is in the log stays there; so what has been told stays told.
LEMMA LogStays ==
    ASSUME TypeInv, LogGrows, NEW i \in 1 .. Len(log)
    PROVE  i \in 1 .. Len(log') /\ log'[i] = log[i]
BY LenProperties DEF TypeInv, SourceType, LogGrows

LEMMA ToldKept ==
    ASSUME TypeInv, LogGrows
    PROVE  /\ UNCHANGED next /\ Told(next) => Told(next)'
           /\ UNCHANGED cursor /\ Told(cursor) => Told(cursor)'
           /\ UNCHANGED <<cursor, page>> /\ Told(cursor + Len(page))
                => Told(cursor + Len(page))'
BY LogStays DEF Told

LEMMA EndKept ==
    ASSUME TypeInv, EndInv, LogGrows,
           UNCHANGED <<handler, cursor, page, atEnd, next, client>>
    PROVE  EndInv'
BY ToldKept DEF EndInv

\* An event is sent: if it is the outcome, the stream is closed behind it.
LEMMA DeliverEnd ==
    ASSUME TypeInv, UNCHANGED log, cursor + 1 \in 1 .. Len(log),
           NEW otherwise \in {"sending", "live"}, Deliver(cursor + 1, otherwise)
    PROVE  /\ handler' = "closed" => Told(cursor)'
           /\ handler' \in {"closed", otherwise}
<1>1. cursor' = cursor + 1 /\ cursor \in Nat
    BY DEF Deliver, TypeInv, HandlerType
<1>2. handler' = "closed" => log'[cursor + 1] = "finished"
    BY DEF Deliver, Handler
<1>3. handler' \in {"closed", otherwise}
    BY DEF Deliver, Handler
<1> QED
    BY <1>1, <1>2, <1>3 DEF Told

LEMMA EndStep ==
    ASSUME TypeInv, StreamInv, EndInv, [Next]_vars PROVE EndInv'
<1>0. /\ LogGrows /\ TypeInv' /\ StreamInv'
      /\ Len(log) \in Nat /\ Len(page) \in Nat /\ Len(wire) \in Nat
      /\ cursor \in Nat /\ next \in Nat
    BY LogStep, TypeStep, StreamStep, LenProperties
    DEF TypeInv, SourceType, HandlerType, ClientType
<1>1. CASE SourceStore \/ OtherExecution \/ (\E p \in Producers : Broadcast(p))
    <2>1. UNCHANGED <<handlerVars, clientVars>>
        BY <1>1, SourceFrame DEF OtherExecution, Broadcast
    <2> QED BY <1>0, <2>1, EndKept DEF handlerVars, clientVars
<1>2. CASE WaiterStep \/ WaitBegins \/ WaitTimeout
    <2>1. UNCHANGED <<handlerVars, clientVars>>
        BY <1>2 DEF WaiterStep, WaitReads, WaitReceives, WaitReturns, WaitBegins,
           WaitTimeout, Wait
    <2> QED BY <1>0, <2>1, EndKept DEF handlerVars, clientVars
<1>3. CASE LookUp
    <2>2. handler' = "closed" => client' = "refused"
        BY <1>3 DEF LookUp
    <2>3. handler' \in {"closed", "replay"} /\ UNCHANGED next
        BY <1>3 DEF LookUp
    <2>4. client' = "ended" => client = "ended"
        BY <1>3 DEF LookUp
    <2>5. Told(next) => Told(next)'
        BY <1>0, <2>3, ToldKept
    <2> QED BY <1>0, <2>2, <2>3, <2>4, <2>5 DEF EndInv, StreamInv
<1>4. CASE ReadPage
    <2>1. /\ cursor + Len(page') <= Len(log)
          /\ atEnd' = "done" => cursor + Len(page') = Len(log) /\ Terminal
          /\ UNCHANGED <<log, cursor>> /\ handler' = "sending"
        BY <1>4, PageRead
    <2>2. UNCHANGED <<next, client>>
        BY <1>4 DEF ReadPage, Handler
    <2>3. Terminal => Told(Len(log))
        BY DEF Terminal, Positions, Told
    <2>4. Told(next) => Told(next)'
        BY <1>0, <2>2, ToldKept
    <2>5. atEnd' = "done" => Told(cursor + Len(page))'
        BY <2>1, <2>3 DEF Told
    <2> QED BY <2>1, <2>2, <2>4, <2>5 DEF EndInv
<1>5. CASE SendPage
    <2>1. page \in Seq(1 .. Len(log)) /\ page # <<>> /\ handler = "sending"
        BY <1>5 DEF SendPage, TypeInv, HandlerType
    <2>2. Len(Tail(page)) = Len(page) - 1 /\ Head(page) = page[1] /\ Len(page) > 0
        BY <1>0, <2>1, HeadTailProperties, EmptySeq
    <2>3. Head(page) = cursor + 1 /\ cursor + 1 \in 1 .. Len(log)
        BY <1>0, <2>1, <2>2 DEF StreamInv
    <2>4. /\ page' = Tail(page) /\ UNCHANGED <<log, atEnd, next, client>>
          /\ cursor' = cursor + 1
        BY <1>5, <2>3 DEF SendPage, Deliver, Handler, sourceVars
    <2>5. cursor' + Len(page') = cursor + Len(page)
        <3>1. Len(page') = Len(page) - 1
            BY <2>2, <2>4
        <3>2. cursor' = cursor + 1
            BY <2>4
        <3>3. cursor \in Nat /\ Len(page) \in Nat
            BY <1>0
        <3> QED BY <3>1, <3>2, <3>3
    <2>6. handler' = "closed" => Told(cursor)'
        BY <1>5, <2>3, <2>4, DeliverEnd DEF SendPage
    <2>7. Told(cursor + Len(page)) => Told(cursor + Len(page))'
        BY <2>4, <2>5 DEF Told
    <2>8. Told(next) => Told(next)'
        BY <2>4 DEF Told
    <2> QED BY <2>1, <2>4, <2>6, <2>7, <2>8 DEF EndInv
<1>6. CASE PageSent
    <2>1. UNCHANGED <<log, next, client, cursor, page, wire, atEnd>>
          /\ handler = "sending" /\ page = <<>>
          /\ handler' \in {"replay", "closed", "live"}
        BY <1>6, Zenon DEF PageSent, Handler, sourceVars, TypeInv, HandlerType
    <2>2. handler' = "closed" => atEnd = "done"
        <3>1. CASE atEnd = "more"
            BY <1>6, <3>1 DEF PageSent, Handler
        <3>2. CASE atEnd = "live"
            BY <1>6, <3>2 DEF PageSent, Handler
        <3>3. CASE atEnd = "done"
            BY <3>3
        <3> QED BY <3>1, <3>2, <3>3 DEF TypeInv, HandlerType
    <2>3. cursor + Len(page) = cursor
        BY <1>0, <2>1, EmptySeq
    <2>4. /\ Told(cursor) => Told(cursor)'
          /\ Told(next) => Told(next)'
        BY <2>1 DEF Told
    <2>5. handler' = "closed" => Told(cursor)
        BY <2>1, <2>2, <2>3 DEF EndInv
    <2> QED BY <2>1, <2>4, <2>5 DEF EndInv
<1>7. CASE ReceiveLagged
    BY <1>0, <1>7, ToldKept DEF ReceiveLagged, Handler, EndInv, Told, sourceVars
<1>8. CASE Receive
    <2> DEFINE seq == Head(mail["subscriber"])
    <2>1. handler = "live" /\ UNCHANGED <<log, page, next, client>>
          /\ seq \in 0 .. Len(log)
        BY <1>8, HeadTailProperties DEF Receive, Handler, Deliver, sourceVars,
           TypeInv, HubType, Receivers
    <2>2. CASE seq = cursor + 1 /\ Deliver(seq, "live")
        <3>1. /\ handler' = "closed" => Told(cursor)'
              /\ handler' \in {"closed", "live"}
            BY <1>0, <2>1, <2>2, DeliverEnd
        <3> QED BY <2>1, <3>1 DEF EndInv, Told
    <2>3. CASE /\ Handler("live") \/ Handler("replay")
               /\ UNCHANGED <<cursor, wire>>
        BY <2>1, <2>3 DEF Handler, EndInv, Told
    <2> QED BY <1>8, <2>2, <2>3 DEF Receive
<1>9. CASE Subscribe
    <2>1. UNCHANGED <<log, next, client>> /\ handler' = "lookup"
        BY <1>9 DEF Subscribe, Handler, sourceVars
    <2> QED BY <2>1 DEF EndInv, Told
<1>10. CASE NextEvent
    <2>1. UNCHANGED <<log, handler, cursor, page, atEnd>> /\ client' # "ended"
        BY <1>10 DEF NextEvent, handlerVars, sourceVars
    <2> QED BY <2>1 DEF EndInv, Told
<1>11. CASE EndOfStream
    <2>1. UNCHANGED <<log, handler, cursor, page, atEnd, next>>
          /\ handler = "closed" /\ wire = <<>>
        BY <1>11 DEF EndOfStream, handlerVars, sourceVars
    <2>2. cursor = next
        BY <1>0, <2>1, EmptySeq DEF StreamInv
    <2> QED BY <2>1, <2>2 DEF EndInv, Told
<1>12. CASE ConnectionLost \/ Restart
    <2>1. UNCHANGED <<next, client>> /\ handler' = "none"
        BY <1>12 DEF ConnectionLost, Restart, Disconnect
    <2>2. Told(next) => Told(next)'
        BY <1>0, <2>1, ToldKept
    <2> QED BY <2>1, <2>2 DEF EndInv
<1>13. CASE UNCHANGED vars
    BY <1>13 DEF vars, sourceVars, handlerVars, clientVars, EndInv, Told
<1> QED
    BY <1>1, <1>2, <1>3, <1>4, <1>5, <1>6, <1>7, <1>8, <1>9, <1>10, <1>11, <1>12,
       <1>13 DEF Next, SourceStep, SourceStore, HandlerStep, ClientStep

-----------------------------------------------------------------------------
(* The newest event.                                                       *)

\* A transaction puts its last event, now the newest, into an outbox; one that
\* stores nothing changes nothing.
LEMMA StoreComes ==
    ASSUME TypeInv, SourceStore
    PROVE  \A r \in Receivers : (Len(log') = Len(log) /\ Coming(r)) \/ Len(log') > Len(log)
                                  => Coming(r)'
<1>1. PICK p \in Producers, kinds \in Seq(Kinds) : Store(p, kinds)
    BY SourceStores DEF SourceStore, Stores
<1>2. /\ Len(log') = Len(log) + Len(kinds)
      /\ outbox[p] = <<>>
      /\ outbox'[p] = [i \in 1 .. Len(kinds) |-> Len(log) + i]
      /\ \A q \in Producers \ {p} : outbox'[q] = outbox[q]
    BY <1>1, StoreGrows
<1>3. Len(log) \in Nat /\ Len(kinds) \in Nat
    BY LenProperties DEF TypeInv, SourceType
<1>4. UNCHANGED <<mail, lagged>>
    BY SourceFrame DEF hubVars
<1>5. ASSUME Len(log') > Len(log), NEW r \in Receivers PROVE Coming(r)'
    <2>1. Len(kinds) \in 1 .. Len(outbox'[p])
          /\ outbox'[p][Len(kinds)] = Len(log')
        BY <1>2, <1>3, <1>5
    <2> QED BY <2>1 DEF Coming
<1>6. ASSUME Len(log') = Len(log), NEW r \in Receivers, Coming(r) PROVE Coming(r)'
    <2>1. \A q \in Producers : Len(outbox[q]) > 0 => outbox'[q] = outbox[q]
        BY <1>2
    <2>2. CASE lagged[r] \/ \E i \in 1 .. Len(mail[r]) : mail[r][i] = Len(log)
        BY <2>2, <1>4, <1>6 DEF Coming
    <2>3. ASSUME NEW q \in Producers, NEW i \in 1 .. Len(outbox[q]),
                 outbox[q][i] = Len(log)
          PROVE  Coming(r)'
        <3>1. outbox[q] \in Seq(1 .. Len(log)) /\ Len(outbox[q]) > 0
            BY LenProperties DEF TypeInv, SourceType
        <3> QED BY <2>1, <2>3, <3>1, <1>6 DEF Coming
    <2> QED BY <1>6, <2>2, <2>3 DEF Coming
<1> QED
    BY <1>5, <1>6

\* A message moves from an outbox into the mail of those that listen; what it
\* pushes out of a full channel is remembered as a lag.
LEMMA SendComes ==
    ASSUME TypeInv, UNCHANGED log, NEW seq \in 0 .. Len(log), Send(seq),
           NEW r \in Receivers, Listening(r)
    PROVE  /\ lagged[r] => lagged'[r]
           /\ (\E i \in 1 .. Len(mail[r]) : mail[r][i] = Len(log)) =>
                lagged'[r] \/ \E i \in 1 .. Len(mail'[r]) : mail'[r][i] = Len(log')
           /\ \E i \in 1 .. Len(mail'[r]) : mail'[r][i] = seq
<1> DEFINE S == 0 .. Len(log)
           old == mail[r]
<1>1. old \in Seq(S) /\ Len(old) \in Nat /\ Len(old) <= HubDepth /\ HubDepth \in Nat \ {0}
    BY LenProperties, SubscriptionAssumption DEF TypeInv, HubType
<1>2. /\ mail'[r] = IF Len(old) < HubDepth THEN Append(old, seq)
                    ELSE Append(Tail(old), seq)
      /\ lagged'[r] <=> lagged[r] \/ Len(old) = HubDepth
    BY DEF Send, TypeInv, HubType
<1> HIDE DEF S, old
<1>3. CASE Len(old) < HubDepth
    <2>1. /\ Len(mail'[r]) = Len(old) + 1
          /\ \A i \in 1 .. Len(old) : mail'[r][i] = old[i]
          /\ mail'[r][Len(old) + 1] = seq
        BY <1>1, <1>2, <1>3, AppendProperties DEF S
    <2>2. \A i \in 1 .. Len(old) : i \in 1 .. Len(mail'[r])
        BY <1>1, <2>1
    <2>3. Len(old) + 1 \in 1 .. Len(mail'[r])
        BY <1>1, <2>1
    <2> QED BY <1>2, <2>1, <2>2, <2>3 DEF old
<1>4. CASE ~(Len(old) < HubDepth)
    <2>1. Len(old) = HubDepth /\ old # <<>>
        BY <1>1, <1>4, EmptySeq
    <2>2. Tail(old) \in Seq(S) /\ mail'[r] = Append(Tail(old), seq)
        BY <1>1, <1>2, <1>4, <2>1, HeadTailProperties
    <2>3. Len(mail'[r]) = Len(Tail(old)) + 1 /\ Len(Tail(old)) \in Nat
          /\ mail'[r][Len(Tail(old)) + 1] = seq
        BY <2>2, AppendProperties, LenProperties DEF S
    <2>4. Len(Tail(old)) + 1 \in 1 .. Len(mail'[r])
        BY <2>3
    <2> QED BY <1>2, <2>1, <2>3, <2>4
<1> QED
    BY <1>3, <1>4

LEMMA BroadcastComes ==
    ASSUME TypeInv, NEW p \in Producers, Broadcast(p),
           NEW r \in Receivers, Listening(r), Coming(r)
    PROVE  Coming(r)'
<1> DEFINE seq == Head(outbox[p])
<1>1. /\ outbox[p] \in Seq(1 .. Len(log)) /\ outbox[p] # <<>>
      /\ UNCHANGED log /\ Send(seq) /\ seq \in 1 .. Len(log)
      /\ outbox' = [outbox EXCEPT ![p] = Tail(@)]
      /\ outbox \in [Producers -> Seq(1 .. Len(log))]
    BY BroadcastTypeStep DEF TypeInv, SourceType, Broadcast
<1>2. seq \in 0 .. Len(log) /\ Len(log) \in Nat
    BY <1>1, LenProperties DEF TypeInv, SourceType
<1>3. /\ lagged[r] => lagged'[r]
      /\ (\E i \in 1 .. Len(mail[r]) : mail[r][i] = Len(log)) =>
           lagged'[r] \/ \E i \in 1 .. Len(mail'[r]) : mail'[r][i] = Len(log')
      /\ \E i \in 1 .. Len(mail'[r]) : mail'[r][i] = seq
    BY <1>1, <1>2, SendComes
<1>4. CASE lagged[r] \/ \E i \in 1 .. Len(mail[r]) : mail[r][i] = Len(log)
    BY <1>3, <1>4 DEF Coming
<1>5. ASSUME NEW q \in Producers \ {p}, NEW i \in 1 .. Len(outbox[q]),
             outbox[q][i] = Len(log)
      PROVE  Coming(r)'
    <2>1. outbox'[q] = outbox[q]
        BY <1>1
    <2> QED BY <1>1, <1>5, <2>1 DEF Coming
<1>6. ASSUME NEW i \in 1 .. Len(outbox[p]), outbox[p][i] = Len(log)
      PROVE  Coming(r)'
    <2>1. /\ Len(Tail(outbox[p])) = Len(outbox[p]) - 1 /\ seq = outbox[p][1]
          /\ \A j \in 1 .. Len(Tail(outbox[p])) :
               Tail(outbox[p])[j] = outbox[p][j + 1]
          /\ Len(outbox[p]) \in Nat /\ outbox'[p] = Tail(outbox[p])
        BY <1>1, HeadTailProperties, LenProperties
    <2>2. CASE i = 1
        BY <1>1, <1>3, <1>6, <2>1, <2>2 DEF Coming
    <2>3. CASE i # 1
        <3>1. i - 1 \in 1 .. Len(outbox'[p]) /\ outbox'[p][i - 1] = Len(log')
            BY <1>1, <1>6, <2>1, <2>3
        <3> QED BY <3>1 DEF Coming
    <2> QED BY <2>2, <2>3
<1> QED
    BY <1>4, <1>5, <1>6 DEF Coming

LEMMA OtherComes ==
    ASSUME TypeInv, OtherExecution, NEW r \in Receivers, Listening(r), Coming(r)
    PROVE  Coming(r)'
<1>1. UNCHANGED <<log, outbox>> /\ Send(0) /\ 0 \in 0 .. Len(log)
    BY LenProperties DEF OtherExecution, sourceVars, TypeInv, SourceType
<1>2. /\ lagged[r] => lagged'[r]
      /\ (\E i \in 1 .. Len(mail[r]) : mail[r][i] = Len(log)) =>
           lagged'[r] \/ \E i \in 1 .. Len(mail'[r]) : mail'[r][i] = Len(log')
    BY <1>1, SendComes
<1> QED
    BY <1>1, <1>2 DEF Coming

\* A receiver that takes an event which is not the newest still has that coming.
LEMMA TakeComes ==
    ASSUME TypeInv, NEW r \in Receivers, mail[r] # <<>>,
           mail' = [mail EXCEPT ![r] = Tail(@)],
           UNCHANGED <<log, outbox, lagged>>,
           Head(mail[r]) # Len(log), Coming(r)
    PROVE  Coming(r)'
<1>1. mail[r] \in Seq(0 .. Len(log)) /\ mail'[r] = Tail(mail[r])
    BY DEF TypeInv, HubType
<1>2. /\ Len(Tail(mail[r])) = Len(mail[r]) - 1 /\ Head(mail[r]) = mail[r][1]
      /\ \A j \in 1 .. Len(Tail(mail[r])) : Tail(mail[r])[j] = mail[r][j + 1]
      /\ Len(mail[r]) \in Nat
    BY <1>1, HeadTailProperties, LenProperties
<1>3. ASSUME NEW i \in 1 .. Len(mail[r]), mail[r][i] = Len(log)
      PROVE  Coming(r)'
    <2>1. i # 1
        BY <1>2, <1>3
    <2>2. i - 1 \in 1 .. Len(Tail(mail[r]))
        BY <1>2, <2>1
    <2>3. Tail(mail[r])[i - 1] = mail[r][i]
        BY <1>2, <2>2
    <2> QED BY <1>1, <1>3, <2>2, <2>3 DEF Coming
<1> QED
    BY <1>3 DEF Coming

\* A step that changes no receiver, no log and nobody's position.
LEMMA WayKept ==
    ASSUME WayInv, UNCHANGED <<log, outbox, mail, lagged, handler, cursor, page,
                               atEnd, waiter, after>>
    PROVE  WayInv'
BY DEF WayInv, HandlerWaits, HandlerPosition, Coming

\* The handler's half is kept by the steps of the waiter, and the other way round.
LEMMA ComingKept ==
    ASSUME NEW r \in Receivers, Coming(r), UNCHANGED <<log, outbox>>,
           mail'[r] = mail[r], lagged'[r] = lagged[r]
    PROVE  Coming(r)'
BY DEF Coming

LEMMA ListensWhoWaits ==
    /\ HandlerWaits => Listening("subscriber")
    /\ waiter = "parked" => Listening("waiter")
BY DEF HandlerWaits, Listening

LEMMA ProducersWay ==
    ASSUME TypeInv, TypeInv', WayInv,
           SourceStore \/ OtherExecution \/ (\E p \in Producers : Broadcast(p))
    PROVE  WayInv'
<1>1. UNCHANGED <<handlerVars, waiterVars>>
    BY SourceFrame DEF OtherExecution, Broadcast
<1>2. UNCHANGED <<HandlerWaits, HandlerPosition, waiter, after>>
    BY <1>1 DEF handlerVars, waiterVars, HandlerWaits, HandlerPosition
<1>3. /\ HandlerPosition \in Nat /\ after \in Nat /\ Len(log) \in Nat /\ Len(log') \in Nat
      /\ "subscriber" \in Receivers /\ "waiter" \in Receivers
    BY LenProperties DEF TypeInv, SourceType, HandlerType, WaiterType,
       HandlerPosition, Receivers
<1>4. /\ HandlerWaits /\ HandlerPosition < Len(log) => Coming("subscriber")
      /\ waiter = "parked" /\ after < Len(log) => Coming("waiter")
    BY DEF WayInv
<1>5. CASE SourceStore
    <2>1. LogGrows
        BY <1>5, SourceStores, StoreGrows DEF SourceStore, Stores
    <2>2. Len(log') = Len(log) \/ Len(log') > Len(log)
        BY <1>3, <2>1 DEF LogGrows
    <2>3. \A r \in Receivers :
             (Len(log') = Len(log) /\ Coming(r)) \/ Len(log') > Len(log) => Coming(r)'
        BY <1>5, StoreComes
    <2>4. HandlerWaits /\ HandlerPosition < Len(log') => Coming("subscriber")'
        BY <1>3, <1>4, <2>2, <2>3
    <2>5. waiter = "parked" /\ after < Len(log') => Coming("waiter")'
        BY <1>3, <1>4, <2>2, <2>3
    <2> QED BY <1>2, <2>4, <2>5 DEF WayInv
<1>6. CASE OtherExecution \/ (\E p \in Producers : Broadcast(p))
    <2>1. UNCHANGED log
        BY <1>6 DEF OtherExecution, Broadcast, sourceVars
    <2>2. \A r \in Receivers : Listening(r) /\ Coming(r) => Coming(r)'
        BY <1>6, BroadcastComes, OtherComes
    <2> QED BY <1>2, <1>3, <1>4, <2>1, <2>2, ListensWhoWaits DEF WayInv
<1> QED
    BY <1>5, <1>6

LEMMA HandlerWay ==
    ASSUME TypeInv, TypeInv', StreamInv, WayInv, HandlerStep \/ ClientStep
    PROVE  WayInv'
<1>0. /\ Len(log) \in Nat /\ Len(page) \in Nat /\ cursor \in Nat
      /\ cursor <= Len(log)
      /\ "subscriber" \in Receivers /\ "waiter" \in Receivers
      /\ "subscriber" # "waiter"
    BY LenProperties DEF TypeInv, SourceType, HandlerType, Receivers
<1>1. UNCHANGED <<log, outbox, waiter, after>> /\ mail'["waiter"] = mail["waiter"]
      /\ lagged'["waiter"] = lagged["waiter"]
    <2>1. UNCHANGED <<sourceVars, waiterVars>>
        <3>1. CASE HandlerStep
            BY <3>1 DEF HandlerStep, LookUp, ReadPage, SendPage, PageSent,
               ReceiveLagged, Receive, Deliver, Handler
        <3>2. CASE ClientStep
            BY <3>2 DEF ClientStep, Subscribe, NextEvent, EndOfStream, Handler
        <3> QED BY <3>1, <3>2
    <2>2. /\ mail' = mail \/ \E v : mail' = [mail EXCEPT !["subscriber"] = v]
          /\ lagged' = lagged \/ lagged' = [lagged EXCEPT !["subscriber"] = FALSE]
        <3>1. CASE Subscribe \/ ReceiveLagged \/ Receive
            BY <3>1 DEF Subscribe, NewReceiver, ReceiveLagged, Receive
        <3>2. CASE LookUp \/ ReadPage \/ SendPage \/ PageSent \/ NextEvent
                     \/ EndOfStream
            BY <3>2 DEF LookUp, ReadPage, SendPage, PageSent, NextEvent,
               EndOfStream, hubVars
        <3> QED BY <3>1, <3>2 DEF HandlerStep, ClientStep
    <2>3. mail \in [Receivers -> Seq(0 .. Len(log))]
          /\ lagged \in [Receivers -> BOOLEAN]
        BY DEF TypeInv, HubType
    <2> QED BY <1>0, <2>1, <2>2, <2>3 DEF sourceVars, waiterVars
<1>2. waiter' = "parked" /\ after' < Len(log') => Coming("waiter")'
    BY <1>0, <1>1, ComingKept DEF WayInv
<1>3. HandlerWaits /\ HandlerPosition < Len(log) => Coming("subscriber")
    BY DEF WayInv
<1> SUFFICES HandlerWaits' /\ HandlerPosition' < Len(log') => Coming("subscriber")'
    BY <1>2 DEF WayInv
<1>4. CASE LookUp \/ ReceiveLagged \/ Subscribe
    BY <1>4 DEF LookUp, ReceiveLagged, Subscribe, Handler, HandlerWaits
<1>5. CASE ReadPage
    <2>1. /\ atEnd' \in {"done", "live"} => cursor + Len(page') = Len(log)
          /\ UNCHANGED <<log, cursor>> /\ handler' = "sending"
        BY <1>5, PageRead
    <2> QED BY <1>0, <2>1 DEF HandlerWaits, HandlerPosition
<1>6. CASE SendPage
    <2>1. page \in Seq(1 .. Len(log)) /\ page # <<>> /\ handler = "sending"
        BY <1>6 DEF SendPage, TypeInv, HandlerType
    <2>2. Len(Tail(page)) = Len(page) - 1 /\ Head(page) = page[1] /\ Len(page) > 0
        BY <1>0, <2>1, HeadTailProperties, EmptySeq
    <2>3. Head(page) = cursor + 1
        BY <1>0, <2>1, <2>2 DEF StreamInv
    <2>4. /\ page' = Tail(page) /\ UNCHANGED <<mail, lagged, atEnd>>
          /\ cursor' = cursor + 1 /\ handler' \in {"closed", "sending"}
        BY <1>6, <2>3 DEF SendPage, Deliver, Handler, hubVars
    <2>5. cursor' + Len(page') = cursor + Len(page)
        <3>1. Len(page') = Len(page) - 1
            BY <2>2, <2>4
        <3>2. cursor' = cursor + 1
            BY <2>4
        <3> QED BY <1>0, <3>1, <3>2
    <2>6. Coming("subscriber") => Coming("subscriber")'
        BY <1>0, <1>1, <2>4, ComingKept
    <2> QED BY <1>1, <1>3, <2>1, <2>4, <2>5, <2>6 DEF HandlerWaits, HandlerPosition
<1>7. CASE PageSent
    <2>1. UNCHANGED <<mail, lagged, cursor, page, atEnd>>
          /\ handler = "sending" /\ page = <<>>
          /\ handler' \in {"replay", "closed", "live"}
        BY <1>7, Zenon DEF PageSent, Handler, hubVars, TypeInv, HandlerType
    <2>2. handler' = "live" => atEnd = "live"
        <3>1. CASE atEnd = "more"
            BY <1>7, <3>1 DEF PageSent, Handler
        <3>2. CASE atEnd = "done"
            BY <1>7, <3>2 DEF PageSent, Handler
        <3>3. CASE atEnd = "live"
            BY <3>3
        <3> QED BY <3>1, <3>2, <3>3 DEF TypeInv, HandlerType
    <2>3. Coming("subscriber") => Coming("subscriber")'
        BY <1>0, <1>1, <2>1, ComingKept
    <2>4. cursor + Len(page) = cursor
        BY <1>0, <2>1, EmptySeq
    <2> QED BY <1>1, <1>3, <2>1, <2>2, <2>3, <2>4 DEF HandlerWaits, HandlerPosition
<1>8. CASE Receive
    <2> DEFINE seq == Head(mail["subscriber"])
    <2>1. /\ handler = "live" /\ mail["subscriber"] # <<>>
          /\ mail' = [mail EXCEPT !["subscriber"] = Tail(@)]
          /\ UNCHANGED <<log, outbox, lagged>>
        BY <1>8 DEF Receive, Handler, Deliver, sourceVars
    <2>2. seq \in 0 .. Len(log)
        BY <1>0, <2>1, HeadTailProperties DEF TypeInv, HubType
    <2>3. Coming("subscriber") /\ seq # Len(log) => Coming("subscriber")'
        BY <1>0, <2>1, TakeComes
    <2>7. handler = "live" /\ UNCHANGED log
        BY <2>1
    <2>4. CASE seq = cursor + 1 /\ Deliver(seq, "live")
        <3>1. cursor' = seq /\ handler' \in {"closed", "live"}
            BY <2>4 DEF Deliver, Handler
        <3>2. HandlerPosition = cursor /\ HandlerPosition' = cursor'
            BY <2>1, <3>1 DEF HandlerPosition
        <3>3. cursor' < Len(log) => cursor < Len(log) /\ seq # Len(log)
            BY <1>0, <2>2, <2>4, <3>1
        <3>4. HandlerWaits /\ Len(log') = Len(log)
            BY <2>7 DEF HandlerWaits
        <3>5. HandlerPosition' < Len(log') => Coming("subscriber") /\ seq # Len(log)
            BY <1>3, <3>2, <3>3, <3>4
        <3> QED BY <2>3, <3>5
    <2>5. CASE Handler("live") /\ seq <= cursor /\ UNCHANGED <<cursor, wire>>
        <3>1. HandlerPosition = cursor /\ HandlerPosition' = cursor
            BY <2>1, <2>5 DEF HandlerPosition, Handler
        <3>2. cursor < Len(log) => seq # Len(log)
            BY <1>0, <2>2, <2>5
        <3>3. HandlerWaits /\ Len(log') = Len(log)
            BY <2>7 DEF HandlerWaits
        <3>4. HandlerPosition' < Len(log') => Coming("subscriber") /\ seq # Len(log)
            BY <1>3, <3>1, <3>2, <3>3
        <3> QED BY <2>3, <3>4
    <2>6. CASE Handler("replay")
        BY <2>6 DEF Handler, HandlerWaits
    <2> QED BY <1>8, <2>4, <2>5, <2>6 DEF Receive
<1>9. CASE NextEvent \/ EndOfStream
    <2>1. UNCHANGED <<handler, cursor, page, atEnd, mail, lagged>>
        BY <1>9 DEF NextEvent, EndOfStream, handlerVars, hubVars
    <2>2. Coming("subscriber") => Coming("subscriber")'
        BY <1>0, <1>1, <2>1, ComingKept
    <2> QED BY <1>1, <1>3, <2>1, <2>2 DEF HandlerWaits, HandlerPosition
<1> QED
    BY <1>4, <1>5, <1>6, <1>7, <1>8, <1>9 DEF HandlerStep, ClientStep

LEMMA WaiterWay ==
    ASSUME TypeInv, TypeInv', WayInv, WaiterStep \/ WaitBegins \/ WaitTimeout
    PROVE  WayInv'
<1>0. /\ Len(log) \in Nat /\ after \in Nat
      /\ "subscriber" \in Receivers /\ "waiter" \in Receivers
      /\ "subscriber" # "waiter"
    BY LenProperties DEF TypeInv, SourceType, WaiterType, Receivers
<1>1. UNCHANGED <<log, outbox, handler, cursor, page, atEnd>>
      /\ mail'["subscriber"] = mail["subscriber"]
      /\ lagged'["subscriber"] = lagged["subscriber"]
    <2>1. UNCHANGED <<sourceVars, handlerVars>>
        BY DEF WaiterStep, WaitReads, WaitReceives, WaitReturns, WaitBegins,
           WaitTimeout, Wait
    <2>2. /\ mail' = mail \/ \E v : mail' = [mail EXCEPT !["waiter"] = v]
          /\ lagged' = lagged \/ lagged' = [lagged EXCEPT !["waiter"] = FALSE]
        BY DEF WaiterStep, WaitReads, WaitReceives, WaitReturns, WaitBegins,
           WaitTimeout, NewReceiver, hubVars
    <2>3. mail \in [Receivers -> Seq(0 .. Len(log))]
          /\ lagged \in [Receivers -> BOOLEAN]
        BY DEF TypeInv, HubType
    <2> QED BY <1>0, <2>1, <2>2, <2>3 DEF sourceVars, handlerVars
<1>2. Coming("subscriber") => Coming("subscriber")'
    BY <1>0, <1>1, ComingKept
<1>3. HandlerWaits' /\ HandlerPosition' < Len(log') => Coming("subscriber")'
    BY <1>1, <1>2 DEF WayInv, HandlerWaits, HandlerPosition
<1> SUFFICES waiter' = "parked" /\ after' < Len(log') => Coming("waiter")'
    BY <1>3 DEF WayInv
<1>4. CASE WaitReads
    <2>1. waiter' = "parked" => ~(Len(log) > after) /\ UNCHANGED <<log, after>>
        BY <1>4 DEF WaitReads, Wait, sourceVars
    <2> QED BY <1>0, <2>1
<1>5. CASE WaitReceives
    <2> DEFINE seq == Head(mail["waiter"])
    <2>1. /\ waiter = "parked" /\ mail["waiter"] # <<>>
          /\ mail' = [mail EXCEPT !["waiter"] = Tail(@)]
          /\ UNCHANGED <<log, outbox, lagged, after>>
          /\ waiter' = "parked" => ~(seq > after)
        BY <1>5 DEF WaitReceives, Wait, sourceVars
    <2>2. seq \in 0 .. Len(log)
        BY <1>0, <2>1, HeadTailProperties DEF TypeInv, HubType
    <2>3. Coming("waiter") /\ seq # Len(log) => Coming("waiter")'
        BY <1>0, <2>1, TakeComes
    <2>4. waiter' = "parked" /\ after < Len(log) => seq # Len(log)
        BY <1>0, <2>1, <2>2
    <2> QED BY <2>1, <2>3, <2>4 DEF WayInv
<1>6. CASE WaitReturns \/ WaitBegins \/ WaitTimeout
    BY <1>6 DEF WaitReturns, WaitBegins, WaitTimeout, Wait
<1> QED
    BY <1>4, <1>5, <1>6 DEF WaiterStep

LEMMA WayStep ==
    ASSUME TypeInv, StreamInv, WayInv, [Next]_vars PROVE WayInv'
<1>1. TypeInv'
    BY TypeStep
<1>2. CASE ConnectionLost
    <2>1. UNCHANGED <<log, outbox, mail, lagged, waiter, after>> /\ handler' = "none"
        BY <1>2 DEF ConnectionLost, Disconnect, sourceVars, hubVars, waiterVars
    <2> QED BY <2>1 DEF WayInv, HandlerWaits, Coming
<1>3. CASE Restart
    <2>1. handler' = "none" /\ waiter' # "parked"
        BY <1>3 DEF Restart, Disconnect
    <2> QED BY <2>1 DEF WayInv, HandlerWaits
<1>4. CASE UNCHANGED vars
    BY <1>4, WayKept DEF vars, sourceVars, hubVars, handlerVars, waiterVars
<1> QED
    BY <1>1, <1>2, <1>3, <1>4, ProducersWay, HandlerWay, WaiterWay
    DEF Next, SourceStep, SourceStore

-----------------------------------------------------------------------------
(* The length of the log.                                                  *)

LEMMA OutputsFinite ==
    ASSUME TypeInv
    PROVE  /\ Len(log) \in Nat /\ IsFiniteSet(Positions("output"))
           /\ Outputs \in Nat
<1>1. Len(log) \in Nat
    BY LenProperties DEF TypeInv, SourceType
<1>2. IsFiniteSet(1 .. Len(log)) /\ Positions("output") \in SUBSET (1 .. Len(log))
    BY <1>1, FS_Interval DEF Positions
<1>3. IsFiniteSet(Positions("output"))
    BY <1>2, FS_Subset
<1> QED
    BY <1>1, <1>3, FS_CardinalityType DEF Outputs

\* What is appended to the log counts as output or it does not.
LEMMA OutputsGrow ==
    ASSUME TypeInv, LogGrows
    PROVE  /\ (\A i \in Len(log) + 1 .. Len(log') : log'[i] # "output")
                => Outputs' = Outputs
           /\ (\A i \in Len(log) + 1 .. Len(log') : log'[i] = "output")
                => Outputs' = Outputs + (Len(log') - Len(log))
           /\ Terminal => Terminal'
<1> DEFINE old == Positions("output")
           new == Len(log) + 1 .. Len(log')
<1>1. /\ Len(log) \in Nat /\ Len(log') \in Nat /\ Len(log) <= Len(log')
      /\ \A i \in 1 .. Len(log) : log'[i] = log[i]
    BY OutputsFinite, LenProperties DEF LogGrows
<1>2. ASSUME \A i \in new : log'[i] # "output" PROVE Outputs' = Outputs
    <2>1. Positions("output")' = Positions("output")
        BY <1>1, <1>2 DEF Positions
    <2> QED BY <2>1 DEF Outputs
<1>3. ASSUME \A i \in new : log'[i] = "output"
      PROVE  Outputs' = Outputs + (Len(log') - Len(log))
    <2>1. Positions("output")' = old \cup new
        BY <1>1, <1>3 DEF Positions
    <2>2. old \cap new = {}
        BY <1>1 DEF Positions
    <2>3. IsFiniteSet(new) /\ Cardinality(new) = Len(log') - Len(log)
        <3>1. /\ IsFiniteSet(new)
              /\ Cardinality(new) = IF Len(log) + 1 > Len(log') THEN 0
                                    ELSE Len(log') - (Len(log) + 1) + 1
            <4>1. Len(log) + 1 \in Int /\ Len(log') \in Int
                BY <1>1
            <4> QED BY <4>1, FS_Interval
        <3>2. Len(log) + 1 > Len(log') => Len(log') - Len(log) = 0
            BY <1>1
        <3>3. Len(log') - (Len(log) + 1) + 1 = Len(log') - Len(log)
            BY <1>1
        <3> HIDE DEF new
        <3> QED BY <3>1, <3>2, <3>3
    <2>4. IsFiniteSet(old) /\ Cardinality(old) \in Nat /\ Cardinality(old \cap new) = 0
        BY <2>2, OutputsFinite, FS_EmptySet DEF Outputs
    <2> HIDE DEF old, new
    <2>5. Cardinality(old \cup new) =
            Cardinality(old) + Cardinality(new) - Cardinality(old \cap new)
        BY <2>3, <2>4, FS_Union
    <2>6. Cardinality(old \cup new) = Cardinality(old) + (Len(log') - Len(log))
        BY <1>1, <2>3, <2>4, <2>5
    <2> QED BY <2>1, <2>6 DEF Outputs, old
<1>4. Terminal => Terminal'
    <2>1. ASSUME NEW i \in 1 .. Len(log), log[i] = "finished" PROVE Terminal'
        BY <1>1, <2>1, LogStays DEF Terminal, Positions
    <2> QED BY <2>1 DEF Terminal, Positions
<1> QED
    BY <1>2, <1>3, <1>4

\* One event that is not output, or none.
LEMMA OneMore ==
    ASSUME TypeInv, LogGrows, NEW kind \in {"started", "finished"},
           Len(log') = Len(log) + 1, log'[Len(log) + 1] = kind
    PROVE  /\ Outputs' = Outputs /\ (Terminal => Terminal')
           /\ kind = "finished" => Terminal'
<1>1. Len(log) \in Nat
    BY OutputsFinite
<1>2. \A i \in Len(log) + 1 .. Len(log') : log'[i] # "output"
    BY <1>1
<1>3. kind = "finished" => Terminal'
    <2>1. Len(log) + 1 \in 1 .. Len(log')
        BY <1>1
    <2> QED BY <2>1 DEF Terminal, Positions
<1> QED
    BY <1>2, <1>3, OutputsGrow

LEMMA LogSame ==
    ASSUME UNCHANGED log PROVE Outputs' = Outputs /\ (Terminal' <=> Terminal)
BY DEF Outputs, Positions, Terminal

LEMMA StoresOne ==
    ASSUME TypeInv, NEW p \in Producers, NEW kind \in {"started", "finished"},
           Store(p, IF Terminal THEN <<>> ELSE <<kind>>)
    PROVE  /\ Outputs' = Outputs /\ (Terminal => Terminal')
           /\ Len(log') = Len(log) + (IF Terminal THEN 0 ELSE 1)
           /\ kind = "finished" => Terminal'
<1>0. Len(log) \in Nat
    BY OutputsFinite
<1>1. CASE Terminal
    <2>1. log' = log \o <<>> /\ log \in Seq(Kinds)
        BY <1>1 DEF Store, TypeInv, SourceType
    <2>2. UNCHANGED log
        BY <2>1, ConcatEmptySeq
    <2> QED BY <1>0, <1>1, <2>2, LogSame
<1>2. CASE ~Terminal
    <2> DEFINE kinds == <<kind>>
    <2>1. Store(p, kinds)
        BY <1>2
    <2>2. kinds \in Seq(Kinds) /\ Len(kinds) = 1 /\ kinds[1] = kind
        BY KindsStored DEF Kinds
    <2> HIDE DEF kinds
    <2>3. /\ LogGrows /\ Len(log') = Len(log) + 1
          /\ log'[Len(log) + 1] = kind
        <3>1. /\ LogGrows /\ Len(log') = Len(log) + Len(kinds)
              /\ \A i \in 1 .. Len(kinds) : log'[Len(log) + i] = kinds[i]
            BY <2>1, <2>2, StoreGrows
        <3>2. 1 \in 1 .. Len(kinds)
            BY <2>2
        <3> QED BY <2>2, <3>1, <3>2
    <2>4. /\ Outputs' = Outputs /\ (Terminal => Terminal')
          /\ kind = "finished" => Terminal'
        BY <2>3, OneMore
    <2> QED BY <1>2, <2>3, <2>4
<1> QED
    BY <1>1, <1>2

LEMMA LengthInit == Init => LengthInv
<1> SUFFICES ASSUME Init PROVE LengthInv
    OBVIOUS
<1>1. log = <<>> /\ Positions("output") = {}
    BY DEF Init, Positions
<1>2. Outputs = 0
    BY <1>1, FS_EmptySet DEF Outputs
<1> QED
    BY <1>1, <1>2, SubscriptionAssumption DEF Init, LengthInv

LEMMA LengthStep ==
    ASSUME TypeInv, LengthInv, [Next]_vars PROVE LengthInv'
<1>0. /\ Len(log) \in Nat /\ Outputs \in Nat /\ MaxOutput \in Nat
      /\ pc \in {"booting", "reading", "failed", "ended"}
    BY OutputsFinite, SubscriptionAssumption DEF TypeInv, SourceType
<1>1. CASE TaskStarts
    <2>1. /\ Outputs' = Outputs /\ (Terminal => Terminal')
          /\ Len(log') = Len(log) + (IF Terminal THEN 0 ELSE 1)
        BY <1>1, StoresOne DEF TaskStarts, Producers
    <2>2. pc = "booting" /\ pc' = "reading"
        BY <1>1 DEF TaskStarts
    <2> QED BY <1>0, <2>1, <2>2 DEF LengthInv
<1>2. CASE TaskFinishes \/ TaskFails
    <2>1. /\ Outputs' = Outputs /\ Terminal'
          /\ Len(log') = Len(log) + (IF Terminal THEN 0 ELSE 1)
        BY <1>2, StoresOne DEF TaskFinishes, TaskFails, Producers
    <2>2. pc' # "booting"
        BY <1>2 DEF TaskFinishes, TaskFails
    <2> QED BY <1>0, <2>1, <2>2 DEF LengthInv
<1>3. CASE WriteBatch
    <2>1. PICK n \in 1 .. BatchSize :
             /\ Outputs + n <= MaxOutput
             /\ Store("writer", [i \in 1 .. n |-> "output"])
        BY <1>3 DEF WriteBatch
    <2>2. n \in Nat
        BY SubscriptionAssumption
    <2> DEFINE kinds == [i \in 1 .. n |-> "output"]
    <2>3. /\ kinds \in Seq(Kinds) /\ Len(kinds) = n
          /\ \A i \in 1 .. n : kinds[i] = "output"
        BY <2>2, KindsStored
    <2> HIDE DEF kinds
    <2>4. /\ LogGrows /\ Len(log') = Len(log) + n
          /\ \A i \in 1 .. n : log'[Len(log) + i] = "output"
        <3>1. Store("writer", kinds) /\ "writer" \in Producers
            BY <2>1 DEF kinds, Producers
        <3>2. /\ LogGrows /\ Len(log') = Len(log) + Len(kinds)
              /\ \A i \in 1 .. Len(kinds) : log'[Len(log) + i] = kinds[i]
            BY <2>3, <3>1, StoreGrows, Zenon
        <3> QED BY <2>3, <3>2, Zenon
    <2>5. ASSUME NEW i \in Len(log) + 1 .. Len(log') PROVE log'[i] = "output"
        <3>1. i - Len(log) \in 1 .. n /\ Len(log) + (i - Len(log)) = i
            BY <1>0, <2>2, <2>4
        <3> QED BY <2>4, <3>1
    <2>6. /\ Outputs' = Outputs + (Len(log') - Len(log)) /\ (Terminal => Terminal')
        BY <2>4, <2>5, OutputsGrow
    <2>7. Outputs' = Outputs + n
        BY <1>0, <2>2, <2>4, <2>6
    <2>8. UNCHANGED pc
        BY <1>3 DEF WriteBatch
    <2> QED BY <1>0, <2>1, <2>2, <2>4, <2>6, <2>7, <2>8 DEF LengthInv
<1>4. CASE CloseQueued
    <2>1. log = <<>> /\ Store("closer", <<"finished">>) /\ UNCHANGED pc
        BY <1>4 DEF CloseQueued
    <2>2. ~Terminal
        BY <2>1 DEF Terminal, Positions
    <2>3. Store("closer", IF Terminal THEN <<>> ELSE <<"finished">>)
        BY <2>1, <2>2
    <2>4. /\ Outputs' = Outputs /\ Terminal'
          /\ Len(log') = Len(log) + (IF Terminal THEN 0 ELSE 1)
        BY <2>3, StoresOne DEF Producers
    <2> QED BY <1>0, <2>1, <2>2, <2>4 DEF LengthInv
<1>5. CASE Restart
    <2>1. pc' = "ended"
        BY <1>5 DEF Restart
    <2>2. CASE Terminal
        <3>1. Outputs' = Outputs /\ Terminal' /\ Len(log') = Len(log)
            BY <1>5, <2>2, LogSame DEF Restart
        <3> QED BY <1>0, <2>1, <2>2, <3>1 DEF LengthInv
    <2>3. CASE ~Terminal
        <3>1. log' = Append(log, "finished") /\ log \in Seq(Kinds) /\ "finished" \in Kinds
            BY <1>5, <2>3 DEF Restart, TypeInv, SourceType, Kinds
        <3>2. Len(log') = Len(log) + 1 /\ log'[Len(log) + 1] = "finished"
            BY <3>1, AppendProperties
        <3>3. Outputs' = Outputs /\ Terminal'
            BY <1>5, <3>2, RestartGrows, OneMore
        <3> QED BY <1>0, <2>1, <2>3, <3>2, <3>3 DEF LengthInv
    <2> QED BY <2>2, <2>3
<1>6. CASE UNCHANGED <<log, pc>>
    <2>1. Outputs' = Outputs /\ (Terminal' <=> Terminal)
        BY <1>6, LogSame
    <2> QED BY <1>6, <2>1 DEF LengthInv
<1>7. ASSUME OtherExecution \/ HandlerStep \/ ClientStep \/ WaiterStep
               \/ (\E p \in Producers : Broadcast(p)) \/ WaitBegins
               \/ WaitTimeout \/ ConnectionLost \/ UNCHANGED vars
      PROVE  UNCHANGED <<log, pc>>
    <2>1. CASE HandlerStep
        BY <2>1 DEF HandlerStep, LookUp, ReadPage, SendPage, PageSent,
           ReceiveLagged, Receive, Deliver, Handler, sourceVars
    <2>2. CASE ClientStep
        BY <2>2 DEF ClientStep, Subscribe, NextEvent, EndOfStream, Handler,
           sourceVars
    <2>3. CASE WaiterStep \/ WaitBegins \/ WaitTimeout
        BY <2>3 DEF WaiterStep, WaitReads, WaitReceives, WaitReturns,
           WaitBegins, WaitTimeout, Wait, sourceVars
    <2>4. CASE OtherExecution \/ (\E p \in Producers : Broadcast(p))
                 \/ ConnectionLost \/ UNCHANGED vars
        BY <2>4 DEF OtherExecution, Broadcast, ConnectionLost, vars, sourceVars
    <2> QED BY <1>7, <2>1, <2>2, <2>3, <2>4
<1> QED
    BY <1>1, <1>2, <1>3, <1>4, <1>5, <1>6, <1>7 DEF Next, SourceStep

LEMMA TypeAndLength == TypeInv /\ LengthInv => TypeOK
<1> SUFFICES ASSUME TypeInv, LengthInv PROVE TypeOK
    OBVIOUS
<1>1. Len(log) \in Nat /\ Outputs \in Nat /\ MaxOutput \in Nat
    BY OutputsFinite, SubscriptionAssumption
<1>2. Len(log) <= MaxOutput + 3 /\ MaxOutput + 3 \in Nat
    BY <1>1 DEF LengthInv
<1>3. /\ \A q \in Seq(1 .. Len(log)) : q \in Seq(Seqs \ {0})
      /\ \A q \in Seq(0 .. Len(log)) : q \in Seq(Seqs)
    <2>1. 1 .. Len(log) \subseteq Seqs \ {0} /\ 0 .. Len(log) \subseteq Seqs
        BY <1>1, <1>2 DEF Seqs
    <2> QED BY <2>1, SeqMonotonic
<1>4. \A c \in 0 .. Len(log) : c \in Seqs
    BY <1>1, <1>2 DEF Seqs
<1>5. log \in Seq({"started", "output", "finished"}) /\ Len(log) \in Seqs
    BY <1>1, <1>2 DEF TypeInv, SourceType, Kinds, Seqs
<1>6. outbox \in [Producers -> Seq(Seqs \ {0})]
    BY <1>3 DEF TypeInv, SourceType
<1>7. mail \in [Receivers -> Seq(Seqs)]
    BY <1>3 DEF TypeInv, HubType
<1>8. page \in Seq(Seqs \ {0}) /\ wire \in Seq(Seqs \ {0})
    BY <1>3 DEF TypeInv, HandlerType, ClientType
<1>9. cursor \in Seqs /\ next \in Seqs /\ after \in Seqs
    BY <1>4 DEF TypeInv, HandlerType, ClientType, WaiterType
<1> QED
    BY <1>5, <1>6, <1>7, <1>8, <1>9
    DEF TypeOK, TypeInv, SourceType, BoundType, HubType, HandlerType, ClientType,
        WaiterType

-----------------------------------------------------------------------------
(* Theorems.                                                               *)

\* The types of the variables; among them, that the log never outgrows one
\* "started", the output and one "finished", however often the execution is
\* closed: by its task, by a call, or by a daemon that starts again.
THEOREM TypeCorrectness == Spec => []TypeOK
<1>1. TypeInv /\ LengthInv /\ [Next]_vars => LengthInv'
    BY LengthStep
<1> QED
    BY <1>1, TypeInvariance, LengthInit, TypeAndLength, PTL DEF Spec

\* README's promise of reconnects, handle_subscription and next_event together:
\* no subscriber meets a gap or a duplicate, and none that comes back with its
\* next_seq is refused, whatever connections and daemons are lost.
THEOREM ResumesAreExact == Spec => []ResumeIsExact
<1>1. StreamInv => ResumeIsExact
    BY DEF StreamInv, ResumeIsExact
<1> QED
    BY <1>1, StreamInvariance, PTL

\* A stream that loomd ends by itself, at a page's end or with an event, has
\* told the subscriber of the outcome.
THEOREM EndsAreOutcomes == Spec => []EndIsOutcome
<1>1. Init => EndInv
    BY DEF Init, EndInv
<1>2. TypeInv /\ StreamInv /\ EndInv /\ [Next]_vars => EndInv'
    BY EndStep
<1>3. EndInv => EndIsOutcome
    BY DEF EndInv, Told, EndIsOutcome, Positions
<1> QED
    BY <1>1, <1>2, <1>3, StreamInvariance, PTL DEF Spec

LEMMA WayInvariance == Spec => [](TypeInv /\ StreamInv /\ WayInv)
<1>1. Init => WayInv
    BY DEF Init, WayInv, HandlerWaits
<1>2. TypeInv /\ StreamInv /\ WayInv /\ [Next]_vars => WayInv'
    BY WayStep
<1> QED
    BY <1>1, <1>2, StreamInvariance, PTL DEF Spec

\* A live subscription that has not got everything has not missed the event it
\* sleeps for: the newest one is in its receiver, in the outbox of a producer,
\* or its receiver will say that it lagged, and then there is a replay.
THEOREM LiveMissesNothing == Spec => []LiveIsCurrent
<1>1. TypeInv /\ WayInv => LiveIsCurrent
    BY DEF TypeInv, SourceType, HandlerType, WayInv, HandlerWaits,
       HandlerPosition, Coming, LiveIsCurrent
<1> QED
    BY <1>1, WayInvariance, PTL

\* The same for a wait() that sleeps, up to the lag it is not told of.
THEOREM WaitMissesNothing == Spec => []WaitIsCurrent
<1>1. TypeInv /\ WayInv => WaitIsCurrent
    BY DEF TypeInv, SourceType, WaiterType, WayInv, Coming, WaitIsCurrent
<1> QED
    BY <1>1, WayInvariance, PTL
=============================================================================
