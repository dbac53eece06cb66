------------------------ MODULE OperatorProgramsProofs --------------------------
(***************************************************************************)
(* What the programs that read output may rely on.  A confirmed cancel of  *)
(* loom watch reaches the execution its question names unless that one has *)
(* been pruned: the invariant adds what the watcher may believe of the     *)
(* executions it lists, that they have started, in its session.  A pane is *)
(* what one execution wrote up to the cursor: the invariant adds where it  *)
(* begins, and how a subscription stands to it.                            *)
(***************************************************************************)
EXTENDS OperatorPrograms, SequenceTheorems, WellFoundedInduction, TLAPS

\* An execution of the watched session that has started, and may be gone again.
Known(e) == home[e] = watched.session /\ fate[e] # "absent"

WatchInv ==
    /\ fate \in [Executions -> {"absent", "running", "finished", "pruned"}]
    /\ watched.live \subseteq watched.execs
    /\ \A e \in watched.execs : e \in Executions /\ Known(e)
    /\ asked # None =>
          /\ asked \in Executions /\ Known(asked)
          /\ selected = asked \/ fate[asked] = "pruned"

-----------------------------------------------------------------------------

LEMMA ReadingIsKnown ==
    ASSUME NEW k
    PROVE  /\ Reading(k).session = k
           /\ Reading(k).live \subseteq Reading(k).execs
           /\ \A e \in Reading(k).execs :
                 e \in Executions /\ home[e] = k /\ fate[e] \in {"running", "finished"}
BY DEF Reading, InSession, Stored

LEMMA WatchInvInit == Init => WatchInv
<1> SUFFICES ASSUME Init PROVE WatchInv
    OBVIOUS
<1>1. fate \in [Executions -> {"absent", "running", "finished", "pruned"}]
    BY DEF Init, WorldInit
<1>2. CASE NotWatching
    BY <1>1, <1>2 DEF NotWatching, WatchInv
<1>3. ASSUME NEW k \in Sessions, WatchStarts(k) PROVE WatchInv
    BY <1>1, <1>3, ReadingIsKnown, Zenon DEF WatchStarts, WatchInv, Known
<1>4. QED BY <1>2, <1>3, Zenon DEF Init

\* What loomd does takes no execution out of a session, nor back to its start.
LEMMA WorldKeeps ==
    ASSUME WatchInv, WorldNext, UNCHANGED watchVars
    PROVE  WatchInv'
<1>1. /\ fate' \in [Executions -> {"absent", "running", "finished", "pruned"}]
      /\ \A e \in Executions : fate[e] # "absent" => fate'[e] # "absent"
      /\ \A e \in Executions : fate[e] = "pruned" => fate'[e] = "pruned"
    BY SMT DEF WatchInv, WorldNext, Execute, Write, Finish, Prune, DeleteSession
<1>2. UNCHANGED <<home, selected, watched, asked>>
    BY DEF WorldNext, readerVars, watchVars
<1>3. QED BY <1>1, <1>2, SMT DEF WatchInv, Known

\* The question keeps the selection from the keys, and a poll from a new one.
LEMMA WatchKeeps ==
    ASSUME WatchInv, WatchStep, UNCHANGED worldVars
    PROVE  WatchInv'
<1> USE DEF worldVars, watchVars, readerVars
<1>1. ASSUME NEW e \in Executions, WatchInput(e) PROVE WatchInv'
    BY <1>1, SMT DEF WatchInput, WatchInv, Known
<1>2. CASE AskToCancel BY <1>2, SMT DEF AskToCancel, WatchInv, Known
<1>3. CASE AnswerQuestion BY <1>3, SMT DEF AnswerQuestion, WatchInv, Known
<1>4. CASE WatchPoll
  <2>1. watched' = Reading(watched.session) /\ UNCHANGED <<home, fate, asked>>
      BY <1>4, Zenon DEF WatchPoll
  <2>2. /\ watched'.session = watched.session
        /\ watched'.live \subseteq watched'.execs
        /\ \A e \in watched'.execs : e \in Executions /\ Known(e)'
      BY <2>1, ReadingIsKnown, SMT DEF Known
  <2>3. ASSUME asked # None
        PROVE  selected' = asked \/ fate[asked] = "pruned"
    <3>1. CASE fate[asked] = "pruned" BY <3>1
    <3>2. CASE fate[asked] # "pruned"
      <4>1. asked \in Executions /\ Known(asked) /\ selected = asked
          BY <2>3, <3>2, Zenon DEF WatchInv
      <4>2. fate[asked] \in {"running", "finished"}
          BY <3>2, <4>1, SMT DEF WatchInv, Known
      <4>3. asked \in watched'.execs
          BY <2>1, <4>1, <4>2, SMT DEF Reading, InSession, Stored, Known
      <4>4. QED BY <1>4, <4>1, <4>3, Zenon DEF WatchPoll
    <3>3. QED BY <3>1, <3>2
  <2>4. QED BY <2>1, <2>2, <2>3, Zenon DEF WatchInv, Known
<1>5. CASE WatchQuits \/ WatchReads \/ (LoadEnds("idle") /\ UNCHANGED watchVars)
    BY <1>5, SMT DEF WatchQuits, WatchReads, LoadPage, LoadEnds, WatchInv, Known
<1>6. QED BY <1>1, <1>2, <1>3, <1>4, <1>5, Zenon DEF WatchStep, WatchKey

\* The other programs have no watcher, and so no question.
NoWatcher == program # "watch" => asked = None /\ watched.execs = {} /\ watched.live = {}

LEMMA NoWatcherInit == Init => NoWatcher
BY SMT DEF Init, NoWatcher, NotWatching

LEMMA WatchInvNext == WatchInv /\ NoWatcher /\ [Next]_vars => WatchInv' /\ NoWatcher'
<1> SUFFICES ASSUME WatchInv, NoWatcher, [Next]_vars PROVE WatchInv' /\ NoWatcher'
    OBVIOUS
<1>1. CASE UNCHANGED vars
    BY <1>1, SMT DEF vars, worldVars, readerVars, watchVars, WatchInv, NoWatcher, Known
<1>2. CASE WorldNext /\ UNCHANGED <<uiVars, watchVars, remaining, program>>
  <2>1. WatchInv' BY <1>2, WorldKeeps, Zenon
  <2>2. NoWatcher' BY <1>2, SMT DEF NoWatcher, watchVars
  <2>3. QED BY <2>1, <2>2
<1>3. ASSUME program # "watch", UNCHANGED <<worldVars, watchVars, program>>
      PROVE  WatchInv' /\ NoWatcher'
    BY <1>3, SMT DEF worldVars, watchVars, WatchInv, NoWatcher, Known
<1>4. CASE InUi(UiStep) BY <1>3, <1>4, Zenon DEF InUi
<1>5. CASE InTool(ToolStep) BY <1>3, <1>5, Zenon DEF InTool
<1>6. CASE InWatch(WatchStep)
  <2>1. WatchInv' BY <1>6, WatchKeeps, Zenon DEF InWatch
  <2>2. QED BY <1>6, <2>1, Zenon DEF InWatch, NoWatcher
<1>7. QED BY <1>1, <1>2, <1>4, <1>5, <1>6, Zenon DEF Next

(***************************************************************************)
(* watch.rs handle_key and handle_command: a confirmed cancel reaches the  *)
(* execution that was named, or that one is pruned.                        *)
(***************************************************************************)
THEOREM CancelGoesWhereItSaid == Spec => []CancelReachesNamed
<1>1. Init => WatchInv /\ NoWatcher BY WatchInvInit, NoWatcherInit
<1>2. WatchInv => CancelReachesNamed BY DEF WatchInv, CancelReachesNamed
<1>3. QED BY <1>1, <1>2, WatchInvNext, PTL DEF Spec

-----------------------------------------------------------------------------
(* Numbers, and lists of chunks. *)

Less == {ss \in Nat \X Nat : ss[1] < ss[2]}

LEMMA SmallestOf ==
    ASSUME NEW T, T \subseteq Nat, T # {}
    PROVE  \E x \in T : \A y \in T : x <= y
<1>1. IsWellFoundedOn(Less, Nat) BY NatLessThanWellFounded, Zenon DEF OpToRel, Less
<1>2. PICK x \in T : \A y \in T : <<y, x>> \notin Less BY <1>1, WFMin, Zenon
<1>3. \A y \in T : ~(y < x) BY <1>2 DEF Less
<1>4. QED BY <1>3

LEMMA GreatestOf ==
    ASSUME NEW E, NEW n \in Nat, E \subseteq 0 .. n, E # {}
    PROVE  \E e \in E : \A f \in E : f <= e
<1> DEFINE T == {n - f : f \in E}
<1>1. \A f \in E : n - f \in Nat BY SMT
<1>0. T \subseteq Nat /\ T # {} BY <1>1
<1> HIDE DEF T
<1>2. PICK x \in T : \A y \in T : x <= y BY <1>0, SmallestOf, Zenon
<1> USE DEF T
<1>3. PICK e \in E : x = n - e OBVIOUS
<1>4. \A f \in E : n - f \in T OBVIOUS
<1> HIDE DEF T
<1>5. \A f \in E : n - e <= n - f BY <1>2, <1>3, <1>4
<1>6. \A f \in E : f <= e BY <1>5, SMT
<1>7. QED BY <1>6

Pieces == Executions \X Nat
Before(from) == IF from < FirstOutput THEN FirstOutput - 1 ELSE from
Slice(e, from, last) == [i \in 1 .. last - Before(from) |-> <<e, Before(from) + i>>]
Count(from, last) == IF Before(from) < last THEN last - Before(from) ELSE 0

LEMMA ListOf ==
    ASSUME NEW S, NEW n \in Nat, NEW f \in [1 .. n -> S]
    PROVE  f \in Seq(S) /\ Len(f) = n
<1>1. f \in Seq(S) BY SeqDef
<1>2. DOMAIN f = 1 .. Len(f) /\ Len(f) \in Nat BY <1>1, LenProperties
<1>3. \A k \in Nat : k \in 1 .. n <=> k \in 1 .. Len(f) BY <1>2
<1>4. n <= Len(f) BY <1>2, <1>3, SMT
<1>5. Len(f) <= n BY <1>2, <1>3, SMT
<1>6. Len(f) \in Nat BY <1>1, LenProperties
<1>7. QED BY <1>1, <1>4, <1>5, <1>6, SMT

LEMMA SliceIs ==
    ASSUME NEW e \in Executions, NEW from \in Nat, NEW last \in Int
    PROVE  /\ Slice(e, from, last) \in Seq(Pieces)
           /\ Len(Slice(e, from, last)) = Count(from, last)
           /\ \A i \in 1 .. Count(from, last) : Slice(e, from, last)[i] = <<e, Before(from) + i>>
<1> DEFINE n == Count(from, last)
           m == last - Before(from)
           f == [i \in 1 .. n |-> <<e, Before(from) + i>>]
<1>1. n \in Nat /\ m \in Int /\ Before(from) \in Nat /\ (m = n \/ (m <= 0 /\ n = 0))
    BY SMT DEF Count, Before, FirstOutput
<1>2. Slice(e, from, last) = [i \in 1 .. m |-> <<e, Before(from) + i>>]
    BY DEF Slice
<1> HIDE DEF n, m
<1>3. 1 .. m = 1 .. n BY <1>1, SMT
<1>4. Slice(e, from, last) = f BY <1>2, <1>3
<1>5. f \in [1 .. n -> Pieces] BY <1>1, SMT DEF Pieces
<1>6. f \in Seq(Pieces) /\ Len(f) = n BY <1>1, <1>5, ListOf, Zenon
<1>7. QED BY <1>4, <1>6 DEF n

LEMMA SlicesJoin ==
    ASSUME NEW e \in Executions, NEW from \in Nat, NEW mid \in Nat, NEW to \in Nat,
           from <= mid, mid <= to, NEW last \in Int
    PROVE  Slice(e, from, Lesser(mid, last)) \o Slice(e, mid, Lesser(to, last))
               = Slice(e, from, Lesser(to, last))
<1> DEFINE a == Slice(e, from, Lesser(mid, last))
           b == Slice(e, mid, Lesser(to, last))
           c == Slice(e, from, Lesser(to, last))
           na == Count(from, Lesser(mid, last))
           nb == Count(mid, Lesser(to, last))
           nc == Count(from, Lesser(to, last))
<1>0. Lesser(mid, last) \in Int /\ Lesser(to, last) \in Int BY DEF Lesser
<1>1. /\ a \in Seq(Pieces) /\ b \in Seq(Pieces) /\ c \in Seq(Pieces)
      /\ Len(a) = na /\ Len(b) = nb /\ Len(c) = nc
      /\ \A i \in 1 .. na : a[i] = <<e, Before(from) + i>>
      /\ \A i \in 1 .. nb : b[i] = <<e, Before(mid) + i>>
      /\ \A i \in 1 .. nc : c[i] = <<e, Before(from) + i>>
    BY <1>0, SliceIs, Zenon
<1>3. /\ na \in Nat /\ nb \in Nat /\ nc = na + nb
      /\ Before(from) \in Nat /\ Before(mid) \in Nat
      /\ nb > 0 => Before(from) + na = Before(mid)
    BY SMT DEF Count, Before, FirstOutput, Lesser
<1> HIDE DEF a, b, c, na, nb, nc
<1>2. /\ a \o b \in Seq(Pieces) /\ Len(a \o b) = Len(a) + Len(b)
      /\ \A i \in 1 .. Len(a) + Len(b) :
            (a \o b)[i] = IF i <= Len(a) THEN a[i] ELSE b[i - Len(a)]
    BY <1>1, ConcatProperties
<1>4. ASSUME NEW i \in 1 .. nc PROVE (a \o b)[i] = c[i]
  <2>0. i \in Nat /\ i \in 1 .. Len(a) + Len(b) BY <1>1, <1>3, SMT
  <2>1. CASE i <= na
    <3>1. i \in 1 .. na BY <2>0, <2>1
    <3>2. (a \o b)[i] = a[i] BY <1>1, <1>2, <2>0, <2>1, Zenon
    <3>3. QED BY <1>1, <3>1, <3>2, Zenon
  <2>2. CASE ~(i <= na)
    <3>1. /\ i - na \in 1 .. nb
          /\ Before(mid) + (i - na) = Before(from) + i
        BY <1>3, <2>2, SMT
    <3>2. b[i - na] = <<e, Before(from) + i>> BY <1>1, <3>1
    <3>3. (a \o b)[i] = b[i - na] BY <1>1, <1>2, <2>0, <2>2, Zenon
    <3>4. QED BY <1>1, <3>2, <3>3
  <2>3. QED BY <2>1, <2>2
<1>5. Len(a \o b) = Len(c) BY <1>1, <1>2, <1>3
<1>6. \A i \in 1 .. Len(a \o b) : (a \o b)[i] = c[i] BY <1>1, <1>4, <1>5
<1>7. a \o b = c BY <1>1, <1>2, <1>5, <1>6, SeqEqual, Zenon
<1>8. QED BY <1>7 DEF a, b, c

LEMMA CutAt ==
    ASSUME NEW l \in Nat, NEW c \in Nat \ {0}, NEW m, m = 1 + IF l > c THEN l - c ELSE 0
    PROVE  m \in Int /\ m \in 1 .. l + 1 /\ l - m + 1 = Lesser(l, c)
<1>1. CASE l > c BY <1>1, SMT DEF Lesser
<1>2. CASE ~(l > c) BY <1>2, SMT DEF Lesser
<1>3. QED BY <1>1, <1>2

LEMMA KeptIs ==
    ASSUME NEW S, NEW s \in Seq(S)
    PROVE  /\ Kept(s) \in Seq(S)
           /\ Len(Kept(s)) = Lesser(Len(s), Cap)
           /\ \A i \in 1 .. Len(Kept(s)) : Kept(s)[i] = s[Len(s) - Len(Kept(s)) + i]
<1> DEFINE m == 1 + IF Len(s) > Cap THEN Len(s) - Cap ELSE 0
<1>1. Len(s) \in Nat /\ DOMAIN s = 1 .. Len(s) /\ \A i \in 1 .. Len(s) : s[i] \in S
    BY LenProperties, ElementOfSeq
<1>2. Cap \in Nat \ {0} /\ Len(s) \in Nat BY ReaderAssumption, LenProperties
<1>3. /\ m \in Int /\ m \in 1 .. Len(s) + 1 /\ Len(s) \in Int
      /\ Len(s) - m + 1 = Lesser(Len(s), Cap)
  <2>1. m = 1 + IF Len(s) > Cap THEN Len(s) - Cap ELSE 0 OBVIOUS
  <2> HIDE DEF m
  <2>2. m \in Int /\ m \in 1 .. Len(s) + 1 /\ Len(s) - m + 1 = Lesser(Len(s), Cap)
      BY <1>2, <2>1, CutAt, Zenon
  <2>3. QED BY <1>2, <2>2, SMT
<1>4. Kept(s) = SubSeq(s, m, Len(s)) BY DEF Kept
<1> HIDE DEF m
<1>5. \A i \in m .. Len(s) : s[i] \in S BY <1>1, <1>3
<1>6. /\ SubSeq(s, m, Len(s)) \in Seq(S)
      /\ Len(SubSeq(s, m, Len(s))) = IF m <= Len(s) THEN Len(s) - m + 1 ELSE 0
      /\ \A i \in 1 .. Len(s) - m + 1 : SubSeq(s, m, Len(s))[i] = s[m + i - 1]
    BY <1>3, <1>5, SubSeqProperties
<1>7. Len(Kept(s)) = Lesser(Len(s), Cap) BY <1>1, <1>3, <1>4, <1>6, SMT
<1>8. ASSUME NEW i \in 1 .. Len(Kept(s))
      PROVE  Kept(s)[i] = s[Len(s) - Len(Kept(s)) + i]
  <2>1. i \in 1 .. Len(s) - m + 1 /\ m + i - 1 = Len(s) - Len(Kept(s)) + i
      BY <1>1, <1>3, <1>7, SMT
  <2>2. QED BY <1>4, <1>6, <2>1, Zenon
<1>9. QED BY <1>4, <1>6, <1>7, <1>8

\* What has been cut off need not be there when more is cut off.
LEMMA KeptJoin ==
    ASSUME NEW S, NEW a \in Seq(S), NEW b \in Seq(S)
    PROVE  Kept(Kept(a) \o b) = Kept(a \o b)
<1> DEFINE k == Kept(a)
           x == Kept(k \o b)
           y == Kept(a \o b)
<1>0. Cap \in Nat \ {0} /\ Len(a) \in Nat /\ Len(b) \in Nat
    BY ReaderAssumption, LenProperties
<1>1. /\ k \in Seq(S) /\ Len(k) = Lesser(Len(a), Cap)
      /\ \A i \in 1 .. Len(k) : k[i] = a[Len(a) - Len(k) + i]
    BY KeptIs
<1> HIDE DEF k
<1>2. /\ k \o b \in Seq(S) /\ Len(k \o b) = Len(k) + Len(b)
      /\ \A i \in 1 .. Len(k) + Len(b) :
            (k \o b)[i] = IF i <= Len(k) THEN k[i] ELSE b[i - Len(k)]
    BY <1>1, ConcatProperties
<1>3. /\ a \o b \in Seq(S) /\ Len(a \o b) = Len(a) + Len(b)
      /\ \A i \in 1 .. Len(a) + Len(b) :
            (a \o b)[i] = IF i <= Len(a) THEN a[i] ELSE b[i - Len(a)]
    BY ConcatProperties
<1>4. /\ x \in Seq(S) /\ Len(x) = Lesser(Len(k \o b), Cap)
      /\ \A i \in 1 .. Len(x) : x[i] = (k \o b)[Len(k \o b) - Len(x) + i]
    BY <1>2, KeptIs, Zenon
<1>5. /\ y \in Seq(S) /\ Len(y) = Lesser(Len(a \o b), Cap)
      /\ \A i \in 1 .. Len(y) : y[i] = (a \o b)[Len(a \o b) - Len(y) + i]
    BY <1>3, KeptIs, Zenon
<1> HIDE DEF x, y
<1>6. Len(x) = Len(y) /\ Len(x) \in Nat /\ Len(k) \in Nat
    BY <1>0, <1>1, <1>2, <1>3, <1>4, <1>5, SMT DEF Lesser
<1>7. ASSUME NEW i \in 1 .. Len(x) PROVE x[i] = y[i]
  <2> DEFINE p == Len(k) + Len(b) - Len(x) + i
             q == Len(a) + Len(b) - Len(y) + i
  <2>0. /\ Len(k) = Lesser(Len(a), Cap) /\ Len(x) = Lesser(Len(k) + Len(b), Cap)
        /\ Len(y) = Len(x) /\ Len(x) \in Nat /\ Len(k) \in Nat
      BY <1>1, <1>2, <1>4, <1>6
  <2>1. /\ p \in 1 .. Len(k) + Len(b) /\ q \in 1 .. Len(a) + Len(b)
        /\ q - Len(a) = p - Len(k) /\ p \in Int /\ q \in Int
    <3>1. i \in 1 .. Len(x) /\ Len(x) = Lesser(Len(k) + Len(b), Cap) BY <2>0
    <3>2. /\ Len(k) + Len(b) - Len(x) + i \in 1 .. Len(k) + Len(b)
          /\ Len(a) + Len(b) - Len(x) + i \in 1 .. Len(a) + Len(b)
          /\ Len(a) + Len(b) - Len(x) + i - Len(a) = Len(k) + Len(b) - Len(x) + i - Len(k)
      <4>1. PICK la \in Nat, lb \in Nat, lk \in Nat, lx \in Nat :
                la = Len(a) /\ lb = Len(b) /\ lk = Len(k) /\ lx = Len(x)
          BY <1>0, <2>0, Zenon
      <4>2. lk = Lesser(la, Cap) /\ lx = Lesser(lk + lb, Cap) /\ i \in 1 .. lx
          BY <2>0, <3>1, <4>1
      <4>3. /\ lk + lb - lx + i \in 1 .. lk + lb
            /\ la + lb - lx + i \in 1 .. la + lb
            /\ la + lb - lx + i - la = lk + lb - lx + i - lk
        <5>1. Cap \in Nat \ {0} BY <1>0
        <5>2. CASE la < Cap BY <4>2, <5>1, <5>2, SMT DEF Lesser
        <5>3. CASE ~(la < Cap) BY <4>2, <5>1, <5>3, SMT DEF Lesser
        <5>4. QED BY <5>2, <5>3
      <4>4. QED BY <4>1, <4>3, Zenon
    <3>3. Len(y) = Len(x) BY <2>0
    <3>4. p \in 1 .. Len(k) + Len(b) /\ q \in 1 .. Len(a) + Len(b)
        BY <3>2, <3>3
    <3>5. q - Len(a) = p - Len(k) BY <3>2, <3>3
    <3>6. \A m, n \in Nat : \A j \in 1 .. m + n : j \in Int OBVIOUS
    <3>7. p \in Int /\ q \in Int BY <1>0, <2>0, <3>4, <3>6
    <3>8. QED BY <3>4, <3>5, <3>7
  <2>2. x[i] = (k \o b)[p]
    <3>1. Len(k \o b) - Len(x) + i = p BY <1>2
    <3>2. QED BY <1>4, <3>1, Zenon
  <2>3. y[i] = (a \o b)[q]
    <3>1. Len(a \o b) - Len(y) + i = q /\ i \in 1 .. Len(y) BY <1>3, <1>6
    <3>2. QED BY <1>5, <3>1, Zenon
  <2> HIDE DEF p, q
  <2>4. CASE p <= Len(k)
    <3>1. p \in 1 .. Len(k) /\ q <= Len(a) /\ Len(a) - Len(k) + p = q
        BY <1>0, <1>6, <2>1, <2>4, SMT
    <3>2. x[i] = k[p] BY <1>2, <2>1, <2>2, <2>4
    <3>3. k[p] = a[q] BY <1>1, <3>1
    <3>4. y[i] = a[q] BY <1>3, <2>1, <2>3, <3>1
    <3>5. QED BY <3>2, <3>3, <3>4
  <2>5. CASE p > Len(k)
    <3>1. ~(p <= Len(k)) /\ ~(q <= Len(a)) BY <1>0, <1>6, <2>1, <2>5, SMT
    <3>2. x[i] = b[p - Len(k)] BY <1>2, <2>1, <2>2, <3>1
    <3>3. y[i] = b[q - Len(a)] BY <1>3, <2>1, <2>3, <3>1
    <3>4. QED BY <2>1, <3>2, <3>3
  <2>6. QED BY <1>6, <2>1, <2>4, <2>5, SMT
<1>8. x = y BY <1>4, <1>5, <1>6, <1>7, SeqEqual
<1>9. QED BY <1>8 DEF x, y, k

LEMMA NothingKept == Kept(<<>>) = <<>>
<1>1. Len(<<>>) = 0 /\ <<>> \in Seq({}) BY EmptySeq
<1>2. Cap \in Nat BY ReaderAssumption
<1>3. Kept(<<>>) = SubSeq(<<>>, 1, 0) BY <1>1, <1>2, SMT DEF Kept
<1>4. QED BY <1>3, SubSeqEmpty

-----------------------------------------------------------------------------
(* What loomd keeps. *)

\* Executions that have started; some may be gone again.
Seen == {e \in Executions : fate[e] # "absent"}

WorldInv ==
    /\ fate \in [Executions -> {"absent", "running", "finished", "pruned"}]
    /\ home \in Homes
    /\ len \in [Executions -> 0 .. MaxEvents]
    /\ sessions \subseteq Sessions
    /\ \A e \in Executions :
          /\ fate[e] = "absent" => len[e] = 0
          /\ fate[e] = "running" => len[e] \in 1 .. MaxEvents - 1
          /\ fate[e] \in {"finished", "pruned"} => len[e] \in 2 .. MaxEvents
    /\ \E n \in Nat : \A e \in Seen : e <= n

\* The numbers of events that a reader may have taken, none of them lost.
Grows(e) ==
    /\ e \in Seen => e \in Seen'
    /\ len[e] <= len'[e]
    /\ \A c \in Nat : c <= len[e] => Lesser(c, LastOutput(e)) = Lesser(c, LastOutput(e)')
    /\ fate[e] \in {"finished", "pruned"} =>
          fate'[e] \in {"finished", "pruned"} /\ len'[e] = len[e]

LEMMA WorldInvInit == Init => WorldInv
<1> SUFFICES ASSUME Init PROVE WorldInv
    OBVIOUS
<1>1. PICK n \in Executions \cup {0} :
          /\ fate = [e \in Executions |-> IF e <= n THEN "running" ELSE "absent"]
          /\ len = [e \in Executions |-> IF e <= n THEN 1 ELSE 0]
    BY Zenon DEF Init, WorldInit
<1>2. home \in Homes /\ sessions = Sessions BY DEF Init, WorldInit
<1>3. n \in Nat /\ Executions \subseteq Nat /\ MaxEvents \in Nat \ {0, 1} BY ReaderAssumption
<1>4. \A e \in Seen : e <= n BY <1>1 DEF Seen
<1>5. len \in [Executions -> 0 .. MaxEvents] BY <1>1, <1>3
<1>6. ASSUME NEW e \in Executions
      PROVE  /\ fate[e] = "absent" => len[e] = 0
             /\ fate[e] = "running" => len[e] \in 1 .. MaxEvents - 1
             /\ fate[e] \in {"finished", "pruned"} => len[e] \in 2 .. MaxEvents
    BY <1>1, <1>3
<1>7. fate \in [Executions -> {"absent", "running", "finished", "pruned"}] BY <1>1
<1>8. QED BY <1>2, <1>3, <1>4, <1>5, <1>6, <1>7 DEF WorldInv

\* Each execution starts once, writes, ends and is pruned, its events kept in mind.
LEMMA WorldInvNext ==
    ASSUME WorldInv, WorldNext
    PROVE  WorldInv' /\ \A e \in Executions : Grows(e)
<1> DEFINE F == {"absent", "running", "finished", "pruned"}
<1>0. /\ Executions \subseteq Nat /\ MaxEvents \in Nat \ {0, 1}
      /\ fate \in [Executions -> F] /\ len \in [Executions -> 0 .. MaxEvents]
    BY ReaderAssumption DEF WorldInv
<1>1. UNCHANGED home /\ sessions' \subseteq sessions
    BY Zenon DEF WorldNext, Execute, Write, Finish, Prune, DeleteSession
<1>2. PICK n \in Nat : \A e \in Seen : e <= n BY Zenon DEF WorldInv
<1>3. ASSUME NEW x \in Executions, \A o \in Executions : o # x => fate'[o] = fate[o] /\ len'[o] = len[o],
             fate' \in [Executions -> F], len' \in [Executions -> 0 .. MaxEvents],
             fate'[x] # "absent",
             /\ fate'[x] = "running" => len'[x] \in 1 .. MaxEvents - 1
             /\ fate'[x] \in {"finished", "pruned"} => len'[x] \in 2 .. MaxEvents,
             Grows(x)
      PROVE  WorldInv' /\ \A e \in Executions : Grows(e)
  <2>1. ASSUME NEW e \in Executions, e # x PROVE Grows(e)
    <3>1. fate'[e] = fate[e] /\ len'[e] = len[e] BY <1>3, <2>1
    <3>2. len[e] <= len[e] BY <1>0
    <3>3. QED BY <3>1, <3>2, Zenon DEF Grows, Seen, LastOutput
  <2>2. \E m \in Nat : \A e \in Seen' : e <= m
    <3>1. CASE x <= n
        BY <1>2, <1>3, <3>1 DEF Seen
    <3>2. CASE ~(x <= n)
      <4>1. x \in Nat /\ n < x BY <1>0, <3>2
      <4>2. ASSUME NEW e \in Seen' PROVE e <= x
        <5>1. e \in Executions /\ (e = x \/ e \in Seen) BY <1>3 DEF Seen
        <5>2. QED BY <1>0, <1>2, <4>1, <5>1
      <4>3. QED BY <4>1, <4>2
    <3>3. QED BY <3>1, <3>2
  <2>3. ASSUME NEW e \in Executions
        PROVE  /\ fate'[e] = "absent" => len'[e] = 0
               /\ fate'[e] = "running" => len'[e] \in 1 .. MaxEvents - 1
               /\ fate'[e] \in {"finished", "pruned"} => len'[e] \in 2 .. MaxEvents
    <3>1. CASE e = x BY <1>3, <3>1
    <3>2. CASE e # x
      <4>1. fate'[e] = fate[e] /\ len'[e] = len[e] BY <1>3, <3>2
      <4>2. QED BY <4>1, Zenon DEF WorldInv
    <3>3. QED BY <3>1, <3>2
  <2>4. home' \in Homes /\ sessions' \subseteq Sessions BY <1>1 DEF WorldInv
  <2>5. WorldInv' BY <1>3, <2>2, <2>3, <2>4, Zenon DEF WorldInv
  <2>6. QED BY <1>3, <2>1, <2>5
<1> HIDE DEF F
<1>4. ASSUME NEW x \in Executions, Execute(x) PROVE WorldInv' /\ \A e \in Executions : Grows(e)
  <2>1. /\ fate[x] = "absent" /\ fate' = [fate EXCEPT ![x] = "running"]
        /\ len' = [len EXCEPT ![x] = 1] /\ len[x] = 0
      BY <1>4, Zenon DEF Execute, WorldInv
  <2>2. /\ fate' \in [Executions -> F] /\ len' \in [Executions -> 0 .. MaxEvents]
        /\ fate'[x] = "running" /\ len'[x] = 1
      BY <1>0, <2>1 DEF F
  <2>3. Grows(x) BY <1>0, <2>1, <2>2, SMT DEF Grows, LastOutput, Lesser, Seen
  <2>4. QED BY <1>0, <1>3, <2>1, <2>2, <2>3
<1>5. ASSUME NEW x \in Executions, Write(x) PROVE WorldInv' /\ \A e \in Executions : Grows(e)
  <2>1. /\ fate[x] = "running" /\ fate' = fate
        /\ len' = [len EXCEPT ![x] = len[x] + 1] /\ len[x] \in 1 .. MaxEvents - 1
        /\ len[x] < MaxEvents - 1
      BY <1>5, Zenon DEF Write, WorldInv
  <2>2. /\ fate' \in [Executions -> F] /\ len' \in [Executions -> 0 .. MaxEvents]
        /\ fate'[x] = "running" /\ len'[x] = len[x] + 1 /\ len'[x] \in 1 .. MaxEvents - 1
      BY <1>0, <2>1 DEF F
  <2>3. Grows(x) BY <1>0, <2>1, <2>2, SMT DEF Grows, LastOutput, Lesser, Seen
  <2>4. QED BY <1>0, <1>3, <2>1, <2>2, <2>3
<1>6. ASSUME NEW x \in Executions, Finish(x) PROVE WorldInv' /\ \A e \in Executions : Grows(e)
  <2>1. /\ fate[x] = "running" /\ fate' = [fate EXCEPT ![x] = "finished"]
        /\ len' = [len EXCEPT ![x] = len[x] + 1] /\ len[x] \in 1 .. MaxEvents - 1
      BY <1>6, Zenon DEF Finish, WorldInv
  <2>2. /\ fate' \in [Executions -> F] /\ len' \in [Executions -> 0 .. MaxEvents]
        /\ fate'[x] = "finished" /\ len'[x] = len[x] + 1 /\ len'[x] \in 2 .. MaxEvents
      BY <1>0, <2>1 DEF F
  <2>3. Grows(x) BY <1>0, <2>1, <2>2, SMT DEF Grows, LastOutput, Lesser, Seen
  <2>4. QED BY <1>0, <1>3, <2>1, <2>2, <2>3
<1>7. ASSUME NEW x \in Executions, Prune(x) PROVE WorldInv' /\ \A e \in Executions : Grows(e)
  <2>1. /\ fate[x] = "finished" /\ fate' = [fate EXCEPT ![x] = "pruned"]
        /\ len' = len /\ len[x] \in 2 .. MaxEvents
      BY <1>7, Zenon DEF Prune, WorldInv
  <2>2. /\ fate' \in [Executions -> F] /\ len' \in [Executions -> 0 .. MaxEvents]
        /\ fate'[x] = "pruned"
      BY <1>0, <2>1 DEF F
  <2>3. Grows(x) BY <1>0, <2>1, <2>2, SMT DEF Grows, LastOutput, Lesser, Seen
  <2>4. QED BY <1>0, <1>3, <2>1, <2>2, <2>3
<1>8. ASSUME NEW k \in Sessions, DeleteSession(k)
      PROVE  WorldInv' /\ \A e \in Executions : Grows(e)
  <2>1. fate' = fate /\ len' = len BY <1>8 DEF DeleteSession
  <2>2. \A e \in Executions : len[e] <= len[e] BY <1>0
  <2>3. \A e \in Executions : Grows(e) BY <2>1, <2>2, Zenon DEF Grows, Seen, LastOutput
  <2>4. sessions' \subseteq Sessions /\ Seen' = Seen BY <1>1, <2>1 DEF WorldInv, Seen
  <2>5. WorldInv' BY <1>1, <2>1, <2>4, Zenon DEF WorldInv
  <2>6. QED BY <2>3, <2>5
<1>9. QED BY <1>4, <1>5, <1>6, <1>7, <1>8, Zenon DEF WorldNext

LEMMA WorldInvSame ==
    ASSUME WorldInv, UNCHANGED worldVars
    PROVE  WorldInv'
BY Zenon DEF WorldInv, worldVars, Seen

-----------------------------------------------------------------------------
(* The reader. *)

\* The pane is what e wrote after its event `from`, up to the cursor.
ShowsFrom(e, from) ==
    /\ cursor \in 0 .. len[e] /\ from \in 0 .. cursor
    /\ pane = Kept(Slice(e, from, Lesser(cursor, LastOutput(e))))
Shows(e) == \E from \in Nat : ShowsFrom(e, from)

PaneInv ==
    /\ selected \in Seen \cup {None}
    /\ \E e \in IF selected = None THEN Executions ELSE {selected} : Shows(e)

\* A subscription is to what is selected, and goes on where the pane ends; or
\* the pane is empty, and begins with what it brings.
SubInv ==
    sub # None =>
        /\ sub \in [exec : Executions, pos : 0 .. MaxEvents]
        /\ sub.exec = selected /\ sub.pos <= len[sub.exec]
        /\ stage \in {"idle", "follow", "over"}
        /\ sub.pos = cursor \/ (pane = <<>> /\ cursor <= sub.pos)

LEMMA ChunksAreSlices ==
    ASSUME NEW e, NEW from, NEW to
    PROVE  Chunks(e, from, to) = Slice(e, from, Lesser(to, LastOutput(e)))
BY DEF Chunks, Slice, Before

LEMMA LenTypes ==
    ASSUME WorldInv, NEW e \in Executions
    PROVE  /\ len[e] \in Nat /\ len[e] \in 0 .. MaxEvents /\ MaxEvents \in Nat
           /\ LastOutput(e) \in Nat
<1>1. MaxEvents \in Nat /\ len[e] \in 0 .. MaxEvents BY ReaderAssumption DEF WorldInv
<1>2. fate[e] \in {"finished", "pruned"} => len[e] \in 2 .. MaxEvents BY DEF WorldInv
<1>3. QED BY <1>1, <1>2, SMT DEF LastOutput

LEMMA EmptySlice ==
    ASSUME NEW e \in Executions, NEW from \in Nat, NEW last \in Int, last <= Before(from)
    PROVE  Slice(e, from, last) = <<>>
<1>1. Before(from) \in Nat BY DEF Before, FirstOutput
<1>2. Count(from, last) = 0 BY <1>1 DEF Count
<1>3. Slice(e, from, last) \in Seq(Pieces) /\ Len(Slice(e, from, last)) = 0
    BY <1>2, SliceIs, Zenon
<1>4. QED BY <1>3, EmptySeq, SMT

LEMMA NewestOf ==
    ASSUME WorldInv, NEW E, E \subseteq Seen
    PROVE  Newest(E) \in E \cup {None}
<1>1. CASE E = {} BY <1>1 DEF Newest
<1>2. CASE E # {}
  <2>1. PICK n \in Nat : \A e \in Seen : e <= n BY Zenon DEF WorldInv
  <2>2. E \subseteq 0 .. n
    <3>1. Seen \subseteq Nat BY ReaderAssumption DEF Seen
    <3>2. QED BY <2>1, <3>1
  <2>3. \E e \in E : \A f \in E : f <= e BY <1>2, <2>2, GreatestOf, Zenon
  <2>4. (CHOOSE e \in E : \A f \in E : f <= e) \in E BY <2>3, Zenon
  <2>5. QED BY <1>2, <2>4, Zenon DEF Newest
<1>3. QED BY <1>1, <1>2

LEMMA ResetShows ==
    ASSUME WorldInv, UNCHANGED worldVars, NEW e \in Executions, ResetOutput
    PROVE  ShowsFrom(e, 0)' /\ Shows(e)'
<1>1. fate' = fate /\ len' = len /\ pane' = <<>> /\ cursor' = 0
    BY DEF worldVars, ResetOutput
<1>2. LastOutput(e)' = LastOutput(e) BY <1>1 DEF LastOutput
<1>3. LastOutput(e) \in Nat /\ len[e] \in Nat BY LenTypes
<1>4. Lesser(0, LastOutput(e)) = 0 BY <1>3, SMT DEF Lesser
<1>5. 0 <= Before(0) BY SMT DEF Before, FirstOutput
<1>6. Slice(e, 0, 0) = <<>> BY <1>5, EmptySlice
<1>7. cursor' \in 0 .. len'[e] /\ 0 \in 0 .. cursor' BY <1>1, <1>3
<1>8. pane' = Kept(Slice(e, 0, Lesser(cursor', LastOutput(e)')))
    BY <1>1, <1>2, <1>4, <1>6, NothingKept, Zenon
<1>9. ShowsFrom(e, 0)' BY <1>7, <1>8, Zenon DEF ShowsFrom
<1>10. QED BY <1>9 DEF Shows

\* The next events are appended to what is shown.
LEMMA IngestShows ==
    ASSUME WorldInv, UNCHANGED worldVars, NEW e \in Executions, NEW from \in Nat,
           NEW mid \in Nat, NEW to \in Nat, mid <= to, to <= len[e],
           ShowsFrom(e, from), cursor = mid, Ingest(e, mid, to)
    PROVE  ShowsFrom(e, from)'
<1>1. fate' = fate /\ len' = len /\ cursor' = to BY DEF worldVars, Ingest
<1>2. LastOutput(e)' = LastOutput(e) BY <1>1 DEF LastOutput
<1>3. LastOutput(e) \in Nat /\ len[e] \in Nat BY LenTypes
<1>4. from <= mid /\ from <= to BY DEF ShowsFrom
<1>5. cursor' \in 0 .. len'[e] /\ from \in 0 .. cursor' BY <1>1, <1>3, <1>4
<1> DEFINE a == Slice(e, from, Lesser(mid, LastOutput(e)))
           b == Slice(e, mid, Lesser(to, LastOutput(e)))
<1>6. pane = Kept(a) BY Zenon DEF ShowsFrom
<1>7. pane' = Kept(pane \o b) BY ChunksAreSlices, Zenon DEF Ingest
<1>8. a \in Seq(Pieces) /\ b \in Seq(Pieces)
  <2>1. Lesser(mid, LastOutput(e)) \in Int /\ Lesser(to, LastOutput(e)) \in Int
      BY <1>3 DEF Lesser
  <2>2. QED BY <2>1, SliceIs, Zenon
<1>9. a \o b = Slice(e, from, Lesser(to, LastOutput(e)))
  <2>1. LastOutput(e) \in Int BY <1>3
  <2>2. QED BY <1>4, <2>1, SlicesJoin, Zenon
<1> HIDE DEF a, b
<1>10. pane' = Kept(a \o b) BY <1>6, <1>7, <1>8, KeptJoin, Zenon
<1>11. pane' = Kept(Slice(e, from, Lesser(cursor', LastOutput(e)')))
    BY <1>1, <1>2, <1>9, <1>10, Zenon
<1>12. QED BY <1>5, <1>11, Zenon DEF ShowsFrom

\* The first events after `from` in an empty pane.
LEMMA IngestFresh ==
    ASSUME WorldInv, UNCHANGED worldVars, NEW e \in Executions, NEW from \in Nat,
           NEW to \in Nat, from <= to, to <= len[e], pane = <<>>, Ingest(e, from, to)
    PROVE  ShowsFrom(e, from)'
<1>1. fate' = fate /\ len' = len /\ cursor' = to BY DEF worldVars, Ingest
<1>2. LastOutput(e)' = LastOutput(e) BY <1>1 DEF LastOutput
<1>3. LastOutput(e) \in Nat /\ len[e] \in Nat BY LenTypes
<1>4. cursor' \in 0 .. len'[e] /\ from \in 0 .. cursor' BY <1>1, <1>3
<1> DEFINE b == Slice(e, from, Lesser(to, LastOutput(e)))
<1>5. pane' = Kept(<<>> \o b) BY ChunksAreSlices, Zenon DEF Ingest
<1>6. b \in Seq(Pieces)
  <2>1. Lesser(to, LastOutput(e)) \in Int BY <1>3 DEF Lesser
  <2>2. QED BY <2>1, SliceIs, Zenon
<1> HIDE DEF b
<1>7. <<>> \o b = b BY <1>6, ConcatEmptySeq
<1>8. pane' = Kept(Slice(e, from, Lesser(cursor', LastOutput(e)')))
    BY <1>1, <1>2, <1>5, <1>7, Zenon DEF b
<1>9. QED BY <1>4, <1>8, Zenon DEF ShowsFrom

\* What loomd adds is not shown yet.
LEMMA WorldShows ==
    ASSUME WorldInv, NEW e \in Executions, Grows(e), WorldInv', NEW from \in Nat,
           ShowsFrom(e, from), UNCHANGED readerVars
    PROVE  ShowsFrom(e, from)'
<1>1. pane' = pane /\ cursor' = cursor BY DEF readerVars
<1>2. len[e] \in Nat /\ len'[e] \in Nat /\ len[e] <= len'[e]
  <2>1. MaxEvents \in Nat BY ReaderAssumption
  <2>2. QED BY <2>1 DEF Grows, WorldInv
<1>3. cursor \in 0 .. len[e] /\ from \in 0 .. cursor
      /\ pane = Kept(Slice(e, from, Lesser(cursor, LastOutput(e))))
    BY Zenon DEF ShowsFrom
<1>4. cursor \in Nat /\ cursor <= len[e] BY <1>2, <1>3
<1>5. Lesser(cursor, LastOutput(e)) = Lesser(cursor, LastOutput(e)')
    BY <1>4, Zenon DEF Grows
<1>6. cursor' \in 0 .. len'[e] BY <1>1, <1>2, <1>3
<1>7. QED BY <1>1, <1>3, <1>5, <1>6, Zenon DEF ShowsFrom

LEMMA SameShows ==
    ASSUME NEW e, UNCHANGED <<fate, len, pane, cursor>>
    PROVE  Shows(e) => Shows(e)'
BY Zenon DEF Shows, ShowsFrom, LastOutput

LEMMA SeenSame ==
    ASSUME UNCHANGED worldVars
    PROVE  Seen' = Seen /\ Stored' = Stored /\ fate' = fate /\ len' = len
BY DEF worldVars, Seen, Stored

\* What is selected, or nothing, with an empty pane or the one there was.
Selects ==
    /\ selected' \in Seen \cup {None}
    /\ \/ ResetOutput
       \/ UNCHANGED <<pane, cursor>> /\ selected' \in {selected, None}

LEMMA SelectsPane ==
    ASSUME WorldInv, PaneInv, UNCHANGED worldVars, Selects
    PROVE  PaneInv'
<1>1. Seen' = Seen /\ fate' = fate /\ len' = len /\ Seen \subseteq Executions
    BY SeenSame DEF Seen
<1>2. CASE ResetOutput
  <2>1. \E e \in IF selected' = None THEN Executions ELSE {selected'} : e \in Executions
      BY <1>1, ReaderAssumption DEF Selects
  <2>2. \E e \in IF selected' = None THEN Executions ELSE {selected'} : Shows(e)'
      BY <1>2, <2>1, ResetShows, Zenon
  <2>3. QED BY <1>1, <2>2, Zenon DEF PaneInv, Selects
<1>3. CASE UNCHANGED <<pane, cursor>> /\ selected' \in {selected, None}
  <2>1. PICK e \in IF selected = None THEN Executions ELSE {selected} : Shows(e)
      BY Zenon DEF PaneInv
  <2>2. Shows(e)' BY <1>1, <1>3, <2>1, SameShows, Zenon
  <2>3. e \in IF selected' = None THEN Executions ELSE {selected'}
      BY <1>1, <1>3, <2>1 DEF PaneInv
  <2>4. QED BY <1>1, <2>2, <2>3, Zenon DEF PaneInv, Selects
<1>4. QED BY <1>2, <1>3, Zenon DEF Selects

\* A page is appended to the pane, and nothing is subscribed to.
LEMMA LoadPageKeeps ==
    ASSUME WorldInv, PaneInv, SubInv, UNCHANGED worldVars, NEW then, LoadPage(then)
    PROVE  PaneInv' /\ sub = None /\ sub' = None /\ stage' \in {"load", then}
<1>1. stage = "load" /\ selected \in Stored /\ UNCHANGED <<selected, sub>>
    BY Zenon DEF LoadPage
<1>2. PICK to \in PageEnds(selected) :
          /\ Ingest(selected, cursor, to)
          /\ stage' = IF to < len[selected] THEN "load" ELSE then
    BY Zenon DEF LoadPage
<1>3. selected \in Executions /\ selected # None /\ selected \in Seen
    BY <1>1, ReaderAssumption DEF Stored, Seen
<1>4. PICK from \in Nat : ShowsFrom(selected, from) BY <1>3 DEF PaneInv, Shows
<1>5. len[selected] \in Nat /\ PageEvents \in Nat BY <1>3, LenTypes, ReaderAssumption
<1>6. cursor \in 0 .. len[selected] BY <1>4 DEF ShowsFrom
<1>7. cursor \in Nat /\ to \in Nat /\ cursor <= to /\ to <= len[selected]
    BY <1>2, <1>5, <1>6, SMT DEF PageEnds, Lesser
<1>8. PICK e \in Executions : e = selected BY <1>3
<1>9. PICK mid \in Nat : mid = cursor BY <1>7
<1>10. ShowsFrom(e, from)'
    BY <1>2, <1>4, <1>7, <1>8, <1>9, IngestShows, Zenon
<1>11. selected' = e /\ Seen' = Seen BY <1>1, <1>8, SeenSame
<1>12. Shows(e)' BY <1>10, Zenon DEF Shows
<1>13. PaneInv' BY <1>3, <1>8, <1>11, <1>12 DEF PaneInv
<1>14. sub = None BY <1>1 DEF SubInv
<1>15. QED BY <1>1, <1>2, <1>13, <1>14

LEMMA LoadEndsKeeps ==
    ASSUME WorldInv, PaneInv, SubInv, UNCHANGED worldVars, NEW then, LoadEnds(then)
    PROVE  PaneInv' /\ sub = None /\ sub' = None /\ stage' = then
<1>1. UNCHANGED <<selected, pane, cursor, sub>> /\ stage = "load" /\ stage' = then
    BY Zenon DEF LoadEnds
<1>2. Selects BY <1>1, Zenon DEF Selects, PaneInv
<1>3. PaneInv' BY <1>2, SelectsPane
<1>4. sub = None BY <1>1 DEF SubInv
<1>5. QED BY <1>1, <1>3, <1>4

\* A subscription begins where the pages ended.
LEMMA SubscribeKeeps ==
    ASSUME WorldInv, PaneInv, SubInv, UNCHANGED worldVars, Subscribe
    PROVE  PaneInv' /\ SubInv' /\ stage' = "idle"
<1>1. /\ UNCHANGED <<selected, pane, cursor>> /\ stage' = "idle"
      /\ sub' \in {None} \cup
            (IF selected \in Stored THEN {[exec |-> selected, pos |-> cursor]} ELSE {})
    BY Zenon DEF Subscribe
<1>2. Selects BY <1>1, Zenon DEF Selects, PaneInv
<1>3. PaneInv' BY <1>2, SelectsPane
<1>4. ASSUME sub' # None PROVE SubInv'
  <2>1. sub' = [exec |-> selected, pos |-> cursor] /\ selected \in Stored
      BY <1>1, <1>4
  <2>2. selected \in Executions /\ selected # None
      BY <2>1, ReaderAssumption DEF Stored
  <2>3. PICK from \in Nat : ShowsFrom(selected, from) BY <2>2 DEF PaneInv, Shows
  <2>4. cursor \in 0 .. len[selected] /\ len[selected] \in 0 .. MaxEvents /\ MaxEvents \in Nat
      BY <2>2, <2>3, LenTypes DEF ShowsFrom
  <2>5. cursor \in 0 .. MaxEvents /\ cursor <= len[selected] BY <2>4, SMT
  <2>6. sub'.exec = selected' /\ sub'.pos = cursor' /\ len' = len
      BY <1>1, <2>1, SeenSame
  <2>7. sub' \in [exec : Executions, pos : 0 .. MaxEvents] BY <2>1, <2>2, <2>5
  <2>8. sub'.pos <= len'[sub'.exec] BY <1>1, <2>5, <2>6
  <2>9. QED BY <1>1, <2>6, <2>7, <2>8, Zenon DEF SubInv
<1>5. QED BY <1>1, <1>3, <1>4, Zenon DEF SubInv

\* What a subscription brings is next, or the first in an empty pane.
LEMMA DeliverKeeps ==
    ASSUME WorldInv, PaneInv, SubInv, UNCHANGED worldVars, NEW at, Deliver(at)
    PROVE  PaneInv' /\ SubInv' /\ stage' = stage
<1>1. /\ sub # None /\ sub.exec \in Stored /\ sub.pos < len[sub.exec]
      /\ Ingest(sub.exec, sub.pos, sub.pos + 1)
      /\ sub' = [sub EXCEPT !.pos = sub.pos + 1] /\ UNCHANGED <<selected, stage>>
    BY Zenon DEF Deliver
<1>2. /\ sub \in [exec : Executions, pos : 0 .. MaxEvents]
      /\ sub.exec = selected /\ stage \in {"idle", "follow", "over"}
      /\ sub.pos = cursor \/ (pane = <<>> /\ cursor <= sub.pos)
    BY <1>1, Zenon DEF SubInv
<1>3. PICK e \in Executions, p \in Nat : e = sub.exec /\ p = sub.pos
    BY <1>2
<1>4. e # None /\ e \in Seen /\ selected = e
    BY <1>1, <1>2, <1>3, ReaderAssumption DEF Stored, Seen
<1>5. len[e] \in Nat /\ len[e] \in 0 .. MaxEvents /\ MaxEvents \in Nat BY LenTypes
<1>6. p + 1 \in Nat /\ p + 1 <= len[e] /\ p <= p + 1 /\ p + 1 \in 0 .. MaxEvents
    BY <1>1, <1>3, <1>5, SMT
<1>7. Ingest(e, p, p + 1) BY <1>1, <1>3, Zenon
<1>8. PICK from \in Nat : ShowsFrom(e, from) BY <1>4 DEF PaneInv, Shows
<1>9. Shows(e)'
  <2>1. CASE p = cursor
    <3>1. ShowsFrom(e, from)' BY <1>6, <1>7, <1>8, <2>1, IngestShows, Zenon
    <3>2. QED BY <3>1, Zenon DEF Shows
  <2>2. CASE pane = <<>>
    <3>1. ShowsFrom(e, p)' BY <1>6, <1>7, <2>2, IngestFresh, Zenon
    <3>2. QED BY <3>1, Zenon DEF Shows
  <2>3. QED BY <1>2, <1>3, <2>1, <2>2
<1>10. selected' = e /\ Seen' = Seen /\ len' = len BY <1>1, <1>4, SeenSame
<1>11. PaneInv' BY <1>4, <1>9, <1>10 DEF PaneInv
<1>12. /\ sub' \in [exec : Executions, pos : 0 .. MaxEvents]
       /\ sub'.exec = e /\ sub'.pos = p + 1 /\ cursor' = p + 1
    BY <1>1, <1>2, <1>3, <1>6, <1>7 DEF Ingest
<1>13. SubInv' BY <1>1, <1>2, <1>6, <1>10, <1>12 DEF SubInv
<1>14. QED BY <1>1, <1>11, <1>13

-----------------------------------------------------------------------------
(* loom ui. *)

UiInv ==
    /\ chosen \in Sessions \cup {None}
    /\ listed \subseteq Seen \cup Sessions
    /\ detail = None \/ detail \subseteq Seen
    /\ shown \in Queries \cup {Everything}
    /\ editing \in BOOLEAN /\ dialog \in BOOLEAN

UiStages == {"start", "idle", "load", "subscribe", "over"}

UiReader == PaneInv /\ SubInv /\ UiInv /\ stage \in UiStages

LEMMA VisibleSeen == UiInv => Visible \subseteq Seen
<1> SUFFICES ASSUME UiInv PROVE Visible \subseteq Seen
    OBVIOUS
<1>1. Scoped \subseteq Seen
  <2>1. CASE detail = None
    <3>1. listed \cap Executions \subseteq Seen BY QueryAssumption DEF UiInv
    <3>2. QED BY <2>1, <3>1 DEF Scoped
  <2>2. CASE detail # None BY <2>2 DEF UiInv, Scoped
  <2>3. QED BY <2>1, <2>2
<1>2. QED BY <1>1 DEF Visible

LEMMA VisibleNext ==
    ASSUME UiInv', UNCHANGED worldVars
    PROVE  Visible' \subseteq Seen
<1>1. (UiInv => Visible \subseteq Seen)' BY VisibleSeen, PTL
<1>2. Seen' = Seen BY SeenSame
<1>3. QED BY <1>1, <1>2

\* A list that is fetched has what loomd has.
LEMMA FetchKeeps ==
    ASSUME WorldInv, UiInv, UNCHANGED worldVars, NEW k, k \in Sessions \cup {None}, Fetch(k)
    PROVE  UiInv'
<1>1. Seen' = Seen BY SeenSame
<1>2. sessions \subseteq Sessions BY DEF WorldInv
<1>3. chosen' \in Sessions \cup {None} BY DEF Fetch
<1>4. listed' \subseteq Seen \cup Sessions BY <1>2 DEF Fetch, Stored, Seen
<1>5. detail' = None \/ detail' \subseteq Seen BY DEF Fetch, InSession, Stored, Seen
<1>6. UNCHANGED <<shown, editing, dialog>> BY DEF Fetch
<1>7. QED BY <1>1, <1>3, <1>4, <1>5, <1>6, Zenon DEF UiInv

\* The selection stays, or is the newest that is visible.
LEMMA EnsureSelects ==
    ASSUME WorldInv, PaneInv, UNCHANGED worldVars, UiInv',
           EnsureFrom(selected) \/ EnsureFrom(None)
    PROVE  Selects
<1>1. Visible' \subseteq Seen BY VisibleNext
<1>2. Newest(Visible') \in Visible' \cup {None} BY <1>1, NewestOf, Zenon
<1>3. CASE EnsureFrom(selected)
  <2>1. selected' \in Seen \cup {None} BY <1>1, <1>2, <1>3 DEF EnsureFrom
  <2>2. ResetOutput \/ (selected' = selected /\ UNCHANGED <<pane, cursor>>)
      BY <1>3, Zenon DEF EnsureFrom
  <2>3. QED BY <2>1, <2>2, Zenon DEF Selects
<1>4. CASE EnsureFrom(None)
  <2>1. selected' \in Seen \cup {None} BY <1>1, <1>2, <1>4 DEF EnsureFrom
  <2>2. ResetOutput \/ (selected' = None /\ UNCHANGED <<pane, cursor>>)
      BY <1>4, Zenon DEF EnsureFrom
  <2>3. QED BY <2>1, <2>2, Zenon DEF Selects
<1>5. QED BY <1>3, <1>4

\* A subscription that survives a new selection is still the right one.
LEMMA SubStays ==
    ASSUME WorldInv, SubInv, UNCHANGED worldVars, Selects, stage' = "idle",
           sub' = None \/ (sub' = sub /\ selected' = selected)
    PROVE  SubInv'
<1>1. len' = len BY SeenSame
<1>2. ASSUME sub' # None PROVE SubInv'
  <2>1. sub' = sub /\ selected' = selected /\ sub # None BY <1>2
  <2>2. /\ sub \in [exec : Executions, pos : 0 .. MaxEvents]
        /\ sub.exec = selected /\ sub.pos <= len[sub.exec]
        /\ sub.pos = cursor \/ (pane = <<>> /\ cursor <= sub.pos)
      BY <2>1, Zenon DEF SubInv
  <2>3. sub.pos \in Nat BY <2>2, ReaderAssumption
  <2>4. sub'.pos = cursor' \/ (pane' = <<>> /\ cursor' <= sub'.pos)
    <3>1. CASE ResetOutput BY <2>1, <2>3, <3>1 DEF ResetOutput
    <3>2. CASE UNCHANGED <<pane, cursor>> BY <2>1, <2>2, <3>2
    <3>3. QED BY <3>1, <3>2, Zenon DEF Selects
  <2>5. QED BY <1>1, <2>1, <2>2, <2>4, Zenon DEF SubInv
<1>3. QED BY <1>2, Zenon DEF SubInv

LEMMA SyncKeeps ==
    ASSUME WorldInv, PaneInv, SubInv, UNCHANGED worldVars, Selects, stage = "idle", Sync
    PROVE  SubInv' /\ stage' \in {"idle", "load"}
<1>1. CASE sub' = None /\ stage' = "load" BY <1>1 DEF SubInv
<1>2. CASE /\ selected' = IF sub = None THEN None ELSE sub.exec
           /\ UNCHANGED <<sub, stage>>
  <2>1. sub' = None \/ (sub' = sub /\ selected' = selected)
      BY <1>2, Zenon DEF SubInv
  <2>2. QED BY <1>2, <2>1, SubStays
<1>3. QED BY <1>1, <1>2, Zenon DEF Sync

\* Whatever is selected and synchronised.
LEMMA SelectionKeeps ==
    ASSUME WorldInv, UiReader, UNCHANGED worldVars, stage = "idle", UiInv', Selects, Sync
    PROVE  UiReader'
<1>1. PaneInv' BY SelectsPane DEF UiReader
<1>2. SubInv' /\ stage' \in {"idle", "load"} BY SyncKeeps DEF UiReader
<1>3. QED BY <1>1, <1>2 DEF UiReader, UiStages

LEMMA UiInvSame ==
    ASSUME UiInv, UNCHANGED worldVars, UNCHANGED <<chosen, listed, detail, shown, editing>>,
           dialog' \in BOOLEAN
    PROVE  UiInv'
<1>1. Seen' = Seen BY SeenSame
<1>2. QED BY <1>1, Zenon DEF UiInv, Everything

LEMMA KeyKeeps ==
    ASSUME WorldInv, UiReader, UNCHANGED worldVars, KeyInput \/ MouseInput
    PROVE  UiReader'
<1> USE DEF UiReader
<1>0. Seen' = Seen BY SeenSame
<1>1. ASSUME NEW q \in Queries \cup {Everything}, Search(q) PROVE UiReader'
  <2>1. UNCHANGED <<chosen, listed, detail, dialog>> /\ EnsureFrom(selected) /\ Sync /\ stage = "idle"
      BY <1>1, Zenon DEF Search
  <2>2. shown' \in Queries \cup {Everything} /\ editing' \in BOOLEAN
    <3>1. shown \in Queries \cup {Everything} /\ editing \in BOOLEAN
        BY DEF UiInv
    <3>2. \/ shown' = q /\ editing' = editing
          \/ editing' = FALSE /\ shown' = shown
          \/ shown' = Everything /\ editing' = editing
        BY <1>1, Zenon DEF Search
    <3>3. QED BY <3>1, <3>2, Zenon
  <2>3. UiInv' BY <1>0, <2>1, <2>2, Zenon DEF UiInv, Everything
  <2>4. Selects BY <2>1, <2>3, EnsureSelects
  <2>5. QED BY <2>1, <2>3, <2>4, SelectionKeeps
<1>2. CASE RefreshKey
  <2>1. Fetch(chosen) /\ EnsureFrom(selected) /\ Sync /\ stage = "idle"
      BY <1>2, Zenon DEF RefreshKey
  <2>2. chosen \in Sessions \cup {None} BY DEF UiInv
  <2>3. UiInv' BY <2>1, <2>2, FetchKeeps, Zenon
  <2>4. Selects BY <2>1, <2>3, EnsureSelects
  <2>5. QED BY <2>1, <2>3, <2>4, SelectionKeeps
<1>3. CASE DialogInput \/ OtherInput
  <2>1. /\ UNCHANGED <<selected, pane, cursor, chosen, listed, detail, shown, editing>>
        /\ Sync /\ stage = "idle"
      BY <1>3, Zenon DEF DialogInput, OtherInput
  <2>2. dialog' \in BOOLEAN
    <3>1. CASE DialogInput BY <3>1, Zenon DEF DialogInput
    <3>2. CASE OtherInput
      <4>1. dialog \in BOOLEAN BY DEF UiInv
      <4>2. dialog' \in IF editing \/ dialog THEN {dialog} ELSE BOOLEAN
          BY <3>2, Zenon DEF OtherInput
      <4>3. CASE editing \/ dialog
        <5>1. dialog' \in {dialog} BY <4>2, <4>3, Zenon
        <5>2. QED BY <4>1, <5>1, Zenon
      <4>4. CASE ~(editing \/ dialog) BY <4>2, <4>4, Zenon
      <4>5. QED BY <4>3, <4>4, Zenon
    <3>3. QED BY <1>3, <3>1, <3>2
  <2>3. UiInv' BY <2>1, <2>2, UiInvSame
  <2>4. Selects BY <2>1, Zenon DEF Selects, PaneInv
  <2>5. QED BY <2>1, <2>3, <2>4, SelectionKeeps
<1>4. CASE StartSearch
  <2>1. /\ editing' = TRUE /\ chosen' = None /\ detail' = None
        /\ UNCHANGED <<listed, shown, dialog>> /\ EnsureFrom(None) /\ Sync /\ stage = "idle"
      BY <1>4, Zenon DEF StartSearch
  <2>2. UiInv' BY <1>0, <2>1, Zenon DEF UiInv, Everything
  <2>3. Selects BY <2>1, <2>2, EnsureSelects
  <2>4. QED BY <2>1, <2>2, <2>3, SelectionKeeps
<1>5. ASSUME NEW k \in Sessions \cup {None}, SelectSession(k) PROVE UiReader'
  <2>1. Fetch(k) /\ selected' = Newest(Visible') /\ ResetOutput /\ Sync /\ stage = "idle"
      BY <1>5, Zenon DEF SelectSession
  <2>2. UiInv' BY <2>1, FetchKeeps, Zenon
  <2>3. Visible' \subseteq Seen BY <2>2, VisibleNext
  <2>4. Newest(Visible') \in Visible' \cup {None} BY <2>3, NewestOf, Zenon
  <2>5. Selects BY <2>1, <2>3, <2>4 DEF Selects
  <2>6. QED BY <2>1, <2>2, <2>5, SelectionKeeps
<1>6. ASSUME NEW e \in Executions, SelectExecution(e) PROVE UiReader'
  <2>1. /\ selected' = e /\ e \in Visible /\ ResetOutput /\ Sync /\ stage = "idle"
        /\ UNCHANGED uiVars
      BY <1>6, Zenon DEF SelectExecution
  <2>2. dialog \in BOOLEAN BY DEF UiInv
  <2>3. UiInv' BY <2>1, <2>2, UiInvSame, Zenon DEF uiVars
  <2>4. Selects BY <2>1, VisibleSeen DEF Selects
  <2>5. QED BY <2>1, <2>3, <2>4, SelectionKeeps
<1>7. QED BY <1>1, <1>2, <1>3, <1>4, <1>5, <1>6, Zenon DEF KeyInput, MouseInput

LEMMA PollKeeps ==
    ASSUME WorldInv, UiReader, UNCHANGED worldVars, NEW early \in BOOLEAN, Poll(early)
    PROVE  UiReader'
<1> USE DEF UiReader
<1>1. /\ stage = "idle" /\ Fetch(chosen) /\ EnsureFrom(selected)
      /\ sub' = IF selected' # selected THEN None ELSE sub
      /\ stage' = IF sub' = None /\ ~early THEN "load" ELSE "idle"
    BY Zenon DEF Poll
<1>2. chosen \in Sessions \cup {None} BY DEF UiInv
<1>3. UiInv' BY <1>1, <1>2, FetchKeeps, Zenon
<1>4. Selects BY <1>1, <1>3, EnsureSelects
<1>5. PaneInv' BY <1>4, SelectsPane
<1>6. stage' \in {"load", "idle"} BY <1>1, Zenon
<1>7. SubInv'
  <2>1. CASE sub' = None BY <2>1, Zenon DEF SubInv
  <2>2. CASE sub' # None
    <3>1. sub' = sub /\ selected' = selected /\ stage' = "idle" BY <1>1, <2>2, Zenon
    <3>2. QED BY <1>4, <3>1, SubStays, Zenon
  <2>3. QED BY <2>1, <2>2
<1>8. QED BY <1>3, <1>5, <1>6, <1>7 DEF UiStages

LEMMA BeginKeeps ==
    ASSUME WorldInv, UiReader, UNCHANGED worldVars, Begin
    PROVE  UiReader'
<1> USE DEF UiReader
<1>1. /\ stage = "start" /\ stage' = "load" /\ Fetch(chosen) /\ EnsureFrom(None)
      /\ UNCHANGED sub
    BY Zenon DEF Begin
<1>2. chosen \in Sessions \cup {None} BY DEF UiInv
<1>3. UiInv' BY <1>1, <1>2, FetchKeeps, Zenon
<1>4. Selects BY <1>1, <1>3, EnsureSelects
<1>5. PaneInv' BY <1>4, SelectsPane
<1>6. sub' = None BY <1>1 DEF SubInv
<1>7. QED BY <1>1, <1>3, <1>5, <1>6 DEF UiStages, SubInv

\* The user leaves, and may come back to an empty pane.
LEMMA LeaveAndReturnKeep ==
    ASSUME WorldInv, UiReader, UNCHANGED worldVars,
           Leave \/ StreamEnds \/ \E k \in Sessions \cup {None} : Return(k)
    PROVE  UiReader'
<1> USE DEF UiReader
<1>0. Seen' = Seen /\ len' = len BY SeenSame
<1>1. CASE Leave \/ StreamEnds
  <2>1. /\ UNCHANGED <<selected, pane, cursor, uiVars>>
        /\ stage \in {"start", "idle"} /\ stage' \in {"over", stage}
        /\ sub' = None \/ (sub' = sub /\ stage' = "over")
      BY <1>1, Zenon DEF Leave, StreamEnds
  <2>2. Selects BY <2>1, Zenon DEF Selects, PaneInv
  <2>3. PaneInv' BY <2>2, SelectsPane
  <2>4. dialog \in BOOLEAN BY DEF UiInv
  <2>5. UiInv' BY <2>1, <2>4, UiInvSame, Zenon DEF uiVars
  <2>6. SubInv'
    <3>1. CASE sub' = None BY <3>1, Zenon DEF SubInv
    <3>2. CASE sub' # None
      <4>1. sub' = sub /\ stage' = "over" /\ sub # None BY <2>1, <3>2, Zenon
      <4>2. QED BY <1>0, <2>1, <4>1, Zenon DEF SubInv
    <3>3. QED BY <3>1, <3>2
  <2>7. stage' \in UiStages BY <2>1 DEF UiStages
  <2>8. QED BY <2>3, <2>5, <2>6, <2>7
<1>2. ASSUME NEW k \in Sessions \cup {None}, Return(k) PROVE UiReader'
  <2>1. /\ chosen' = k /\ listed' = {} /\ detail' = None /\ shown' = Everything
        /\ editing' = FALSE /\ dialog' = FALSE
        /\ selected' = None /\ ResetOutput /\ sub' = None /\ stage' = "start"
      BY <1>2, Zenon DEF Return
  <2>2. Selects BY <2>1, Zenon DEF Selects
  <2>3. PaneInv' BY <2>2, SelectsPane
  <2>4. UiInv' BY <2>1 DEF UiInv, Everything
  <2>5. SubInv' BY <2>1, Zenon DEF SubInv
  <2>6. QED BY <2>1, <2>3, <2>4, <2>5 DEF UiStages
<1>3. QED BY <1>1, <1>2

LEMMA UiStepKeeps ==
    ASSUME WorldInv, UiReader, UNCHANGED worldVars, UiStep
    PROVE  UiReader'
<1> USE DEF UiReader
<1>0. dialog \in BOOLEAN BY DEF UiInv
<1>1. CASE UiReads
  <2>1. LoadPage("subscribe") /\ UNCHANGED uiVars BY <1>1, Zenon DEF UiReads
  <2>2. PaneInv' /\ sub' = None /\ stage' \in {"load", "subscribe"}
      BY <2>1, LoadPageKeeps, Zenon
  <2>3. UiInv' BY <1>0, <2>1, UiInvSame, Zenon DEF uiVars
  <2>4. QED BY <2>2, <2>3 DEF UiStages, SubInv
<1>2. CASE LoadEnds("subscribe") /\ UNCHANGED uiVars
  <2>1. PaneInv' /\ sub' = None /\ stage' = "subscribe"
      BY <1>2, LoadEndsKeeps, Zenon
  <2>2. UiInv' BY <1>0, <1>2, UiInvSame, Zenon DEF uiVars
  <2>3. QED BY <2>1, <2>2 DEF UiStages, SubInv
<1>3. CASE Subscribe /\ UNCHANGED uiVars
  <2>1. PaneInv' /\ SubInv' /\ stage' = "idle" BY <1>3, SubscribeKeeps, Zenon
  <2>2. UiInv' BY <1>0, <1>3, UiInvSame, Zenon DEF uiVars
  <2>3. QED BY <2>1, <2>2 DEF UiStages
<1>4. CASE Deliver("idle") /\ UNCHANGED uiVars
  <2>1. PaneInv' /\ SubInv' /\ stage' = stage BY <1>4, DeliverKeeps, Zenon
  <2>2. UiInv' BY <1>0, <1>4, UiInvSame, Zenon DEF uiVars
  <2>3. QED BY <2>1, <2>2
<1>5. QED
    BY <1>1, <1>2, <1>3, <1>4, KeyKeeps, PollKeeps, BeginKeeps, LeaveAndReturnKeep, Zenon
    DEF UiStep, UserInput

-----------------------------------------------------------------------------
(* loom watch. *)

WatchReader == PaneInv /\ sub = None /\ WatchTypeOK /\ stage \in {"idle", "load", "over"}

LEMMA ReadingType ==
    ASSUME NEW k \in Sessions \cup {None}
    PROVE  Reading(k) \in [session : Sessions \cup {None},
                           execs : SUBSET Executions, live : SUBSET Executions]
BY SMT DEF Reading, InSession, Stored

LEMMA WatchStepKeeps ==
    ASSUME WorldInv, WatchInv, WatchReader, UNCHANGED worldVars, WatchStep
    PROVE  WatchReader'
<1> USE DEF WatchReader
<1>0. SubInv BY DEF SubInv
<1>1. ASSUME NEW e \in Executions, WatchInput(e) PROVE WatchReader'
  <2>1. /\ e \in watched.execs /\ selected' = e /\ ResetOutput /\ stage' = "load"
        /\ UNCHANGED <<sub, watchVars>>
      BY <1>1, Zenon DEF WatchInput
  <2>2. e \in Seen BY <2>1, Zenon DEF WatchInv, Known, Seen
  <2>3. Selects BY <2>1, <2>2 DEF Selects
  <2>4. PaneInv' BY <2>3, SelectsPane
  <2>5. QED BY <2>1, <2>4, Zenon DEF watchVars, WatchTypeOK
<1>2. CASE AskToCancel \/ AnswerQuestion
  <2>1. UNCHANGED <<readerVars, watched>> /\ asked' \in Executions \cup {None}
    <3>1. CASE AskToCancel
      <4>1. /\ asked' = selected /\ selected \in watched.live
            /\ UNCHANGED <<readerVars, watched>>
          BY <3>1, Zenon DEF AskToCancel
      <4>2. selected \in Executions BY <4>1 DEF WatchInv
      <4>3. QED BY <4>1, <4>2
    <3>2. CASE AnswerQuestion BY <3>2 DEF AnswerQuestion
    <3>3. QED BY <1>2, <3>1, <3>2
  <2>2. UNCHANGED <<selected, pane, cursor, sub, stage>> BY <2>1 DEF readerVars
  <2>3. Selects BY <2>2, Zenon DEF Selects, PaneInv
  <2>4. PaneInv' BY <2>3, SelectsPane
  <2>5. QED BY <2>1, <2>2, <2>4, Zenon DEF WatchTypeOK
<1>3. CASE WatchPoll
  <2>1. /\ watched' = Reading(watched.session) /\ stage' = "load" /\ UNCHANGED <<sub, asked>>
        /\ watched.session \in sessions
        /\ IF selected \in watched'.execs
           THEN UNCHANGED <<selected, pane, cursor>>
           ELSE selected' = Newest(watched'.execs)
                /\ IF selected' # selected THEN ResetOutput ELSE UNCHANGED <<pane, cursor>>
      BY <1>3, Zenon DEF WatchPoll
  <2>2. watched.session \in Sessions \cup {None} BY <2>1 DEF WorldInv
  <2>3. WatchTypeOK' BY <2>1, <2>2, ReadingType, Zenon DEF WatchTypeOK
  <2>4. watched'.execs \subseteq Seen BY <2>1 DEF Reading, InSession, Stored, Seen
  <2>5. Newest(watched'.execs) \in Seen \cup {None} BY <2>4, NewestOf
  <2>6. Selects
    <3>1. CASE selected \in watched'.execs
        BY <2>1, <3>1, Zenon DEF Selects, PaneInv
    <3>2. CASE selected \notin watched'.execs
        BY <2>1, <2>5, <3>2, Zenon DEF Selects
    <3>3. QED BY <3>1, <3>2
  <2>7. PaneInv' BY <2>6, SelectsPane
  <2>8. QED BY <2>1, <2>3, <2>7
<1>4. CASE WatchQuits
  <2>1. UNCHANGED <<selected, pane, cursor, sub, watchVars>> /\ stage' = "over"
      BY <1>4, Zenon DEF WatchQuits
  <2>2. Selects BY <2>1, Zenon DEF Selects, PaneInv
  <2>3. PaneInv' BY <2>2, SelectsPane
  <2>4. QED BY <2>1, <2>3, Zenon DEF watchVars, WatchTypeOK
<1>5. CASE (WatchReads) \/ (LoadEnds("idle") /\ UNCHANGED watchVars)
  <2>1. (LoadPage("idle") \/ LoadEnds("idle")) /\ UNCHANGED watchVars
      BY <1>5, Zenon DEF WatchReads
  <2>2. PaneInv' /\ sub' = None /\ stage' \in {"load", "idle"}
      BY <1>0, <2>1, LoadPageKeeps, LoadEndsKeeps, Zenon
  <2>3. WatchTypeOK' BY <2>1, Zenon DEF watchVars, WatchTypeOK
  <2>4. QED BY <2>2, <2>3
<1>6. QED BY <1>1, <1>2, <1>3, <1>4, <1>5, Zenon DEF WatchStep, WatchKey

-----------------------------------------------------------------------------
(* The tools and the command line. *)

ToolStages == {"run", "asked", "logs", "follow", "over", "complete"}

ToolInv ==
    /\ selected \in Executions /\ selected \in Seen
    /\ ShowsFrom(selected, 0)
    /\ stage \in ToolStages
    /\ sub # None => stage = "follow" /\ sub = [exec |-> selected, pos |-> cursor]
    /\ stage = "complete" =>
          fate[selected] \in {"finished", "pruned"} /\ cursor = len[selected]
    /\ remaining \in 0 .. MaxBytes

LEMMA EmptyShows ==
    ASSUME WorldInv, NEW e \in Executions, pane = <<>>, cursor = 0
    PROVE  ShowsFrom(e, 0) /\ Shows(e)
<1>1. LastOutput(e) \in Nat /\ len[e] \in Nat BY LenTypes
<1>2. Lesser(0, LastOutput(e)) = 0 BY <1>1, SMT DEF Lesser
<1>3. 0 <= Before(0) BY SMT DEF Before, FirstOutput
<1>4. Slice(e, 0, 0) = <<>> BY <1>3, EmptySlice
<1>5. cursor \in 0 .. len[e] /\ 0 \in 0 .. cursor BY <1>1
<1>6. pane = Kept(Slice(e, 0, Lesser(cursor, LastOutput(e))))
    BY <1>2, <1>4, NothingKept, Zenon
<1>7. ShowsFrom(e, 0) BY <1>5, <1>6, Zenon DEF ShowsFrom
<1>8. QED BY <1>7 DEF Shows

LEMMA ToolReads == ToolInv => PaneInv
<1> SUFFICES ASSUME ToolInv PROVE PaneInv
    OBVIOUS
<1>1. selected # None BY ReaderAssumption DEF ToolInv
<1>2. Shows(selected) BY Zenon DEF ToolInv, Shows
<1>3. QED BY <1>1, <1>2 DEF PaneInv, ToolInv

LEMMA PageEndsAre ==
    ASSUME WorldInv, ToolInv, NEW to \in PageEnds(selected)
    PROVE  to \in Nat /\ cursor \in Nat /\ cursor <= to /\ to <= len[selected]
           /\ len[selected] \in Nat
<1>1. len[selected] \in Nat /\ PageEvents \in Nat
    BY LenTypes, ReaderAssumption DEF ToolInv
<1>2. cursor \in 0 .. len[selected] BY DEF ToolInv, ShowsFrom
<1>3. QED BY <1>1, <1>2, SMT DEF PageEnds, Lesser

\* What is read on is appended, and the outcome is the last event of all.
LEMMA ReadOnKeeps ==
    ASSUME WorldInv, ToolInv, UNCHANGED worldVars, UNCHANGED <<selected, sub>>,
           sub = None, NEW to \in Nat, cursor <= to, to <= len[selected],
           Ingest(selected, cursor, to), remaining' \in 0 .. MaxBytes,
           stage' \in ToolStages,
           stage' = "complete" => fate[selected] \in {"finished", "pruned"} /\ to = len[selected]
    PROVE  ToolInv'
<1>1. PICK e \in Executions : e = selected BY DEF ToolInv
<1>2. len[e] \in Nat /\ ShowsFrom(e, 0) BY <1>1, LenTypes DEF ToolInv
<1>3. PICK mid \in Nat : mid = cursor BY <1>2 DEF ShowsFrom
<1>4. Ingest(e, mid, to) BY <1>1, <1>3, Zenon
<1>5. ShowsFrom(e, 0)' BY <1>1, <1>2, <1>3, <1>4, IngestShows
<1>6. selected' = e /\ Seen' = Seen /\ fate' = fate /\ len' = len /\ cursor' = to
    BY <1>1, SeenSame DEF Ingest
<1>7. ShowsFrom(selected, 0)' BY <1>5, <1>6, Zenon DEF ShowsFrom
<1>8. QED BY <1>1, <1>6, <1>7, Zenon DEF ToolInv

\* An answer takes what fits, and says it was all only if nothing is left.
LEMMA AnswerKeeps ==
    ASSUME WorldInv, ToolInv, UNCHANGED worldVars, UNCHANGED <<selected, sub>>, sub = None,
           NEW to \in PageEnds(selected), NEW max \in 0 .. MaxBytes, Answer(to, max)
    PROVE  ToolInv'
<1>0. /\ to \in Nat /\ cursor \in Nat /\ cursor <= to /\ to <= len[selected]
      /\ len[selected] \in Nat
    BY PageEndsAre
<1>1. PICK taken \in Converted(to, max) :
          /\ Ingest(selected, cursor, taken)
          /\ remaining' = max - Bytes(taken)
          /\ stage' = IF fate[selected] = "finished" /\ ~(to < len[selected] \/ taken < to)
                      THEN "complete"
                      ELSE IF stage = "run" /\ taken = to /\ fate[selected] # "finished"
                              /\ remaining' > 0
                           THEN "run" ELSE "asked"
    BY Zenon DEF Answer
<1>2. taken \in cursor .. to /\ Bytes(taken) <= max BY DEF Converted
<1>3. taken \in Nat /\ cursor <= taken /\ taken <= to /\ taken <= len[selected]
    BY <1>0, <1>2, SMT
<1>4. Bytes(taken) \in Nat
  <2>1. LastOutput(selected) \in Nat BY LenTypes DEF ToolInv
  <2>2. Lesser(taken, LastOutput(selected)) \in Int BY <1>3, <2>1 DEF Lesser
  <2>3. selected \in Executions BY DEF ToolInv
  <2>4. Chunks(selected, cursor, taken) = Slice(selected, cursor, Lesser(taken, LastOutput(selected)))
      BY ChunksAreSlices
  <2>5. Chunks(selected, cursor, taken) \in Seq(Pieces)
      BY <1>0, <2>2, <2>3, <2>4, SliceIs, Zenon
  <2>6. Len(Chunks(selected, cursor, taken)) \in Nat BY <2>5, LenProperties
  <2>7. ChunkBytes \in Nat BY BytesAssumption
  <2>8. \A a, b \in Nat : a * b \in Nat OBVIOUS
  <2>9. QED BY <2>6, <2>7, <2>8, Zenon DEF Bytes
<1>5. remaining' \in 0 .. MaxBytes
  <2>1. MaxBytes \in Nat BY BytesAssumption
  <2>2. QED BY <1>1, <1>2, <1>4, <2>1, SMT
<1>6. stage' \in ToolStages
      /\ (stage' = "complete" => fate[selected] \in {"finished", "pruned"} /\ taken = len[selected])
  <2>1. CASE fate[selected] = "finished" /\ ~(to < len[selected] \/ taken < to)
    <3>1. taken = len[selected] BY <1>0, <1>3, <2>1, SMT
    <3>2. stage' = "complete" BY <1>1, <2>1, Zenon
    <3>3. QED BY <2>1, <3>1, <3>2 DEF ToolStages
  <2>2. CASE ~(fate[selected] = "finished" /\ ~(to < len[selected] \/ taken < to))
    <3>1. stage' \in {"run", "asked"} BY <1>1, <2>2, Zenon
    <3>2. QED BY <3>1 DEF ToolStages
  <2>3. QED BY <2>1, <2>2
<1>7. QED BY <1>1, <1>3, <1>5, <1>6, ReadOnKeeps, Zenon

\* Nothing is taken.
LEMMA ToolStays ==
    ASSUME WorldInv, ToolInv, UNCHANGED worldVars, UNCHANGED <<selected, pane, cursor, remaining>>,
           stage' \in ToolStages,
           sub' # None => stage' = "follow" /\ sub' = [exec |-> selected, pos |-> cursor],
           stage' = "complete" =>
               fate[selected] \in {"finished", "pruned"} /\ cursor = len[selected]
    PROVE  ToolInv'
<1>1. Seen' = Seen /\ fate' = fate /\ len' = len BY SeenSame
<1>2. ShowsFrom(selected, 0)' BY <1>1, Zenon DEF ToolInv, ShowsFrom, LastOutput
<1>3. QED BY <1>1, <1>2, Zenon DEF ToolInv

LEMMA ToolStepKeeps ==
    ASSUME WorldInv, ToolInv, UNCHANGED worldVars, ToolStep
    PROVE  ToolInv'
<1>0. /\ selected \in Executions /\ (sub # None => stage = "follow") /\ remaining \in 0 .. MaxBytes
    BY DEF ToolInv
<1>1. CASE RunWaits
  <2>1. PICK to \in Answers(remaining) : Answer(to, remaining)
      BY <1>1, Zenon DEF RunWaits
  <2>2. UNCHANGED <<selected, sub>> /\ sub = None BY <1>0, <1>1, Zenon DEF RunWaits
  <2>3. to \in PageEnds(selected) BY DEF Answers
  <2>4. QED BY <1>0, <2>1, <2>2, <2>3, AnswerKeeps, Zenon
<1>2. CASE ReadsOn
  <2>1. PICK to \in Answers(MaxBytes) : Answer(to, MaxBytes)
      BY <1>2, Zenon DEF ReadsOn
  <2>2. UNCHANGED <<selected, sub>> /\ sub = None
    <3>1. stage = "asked" /\ UNCHANGED <<selected, sub>> BY <1>2, Zenon DEF ReadsOn
    <3>2. QED BY <1>0, <3>1
  <2>3. to \in PageEnds(selected) BY DEF Answers
  <2>4. MaxBytes \in 0 .. MaxBytes BY BytesAssumption
  <2>5. QED BY <2>1, <2>2, <2>3, <2>4, AnswerKeeps, Zenon
<1>3. CASE LogPage
  <2>1. PICK to \in Answers(MaxBytes) :
            /\ Ingest(selected, cursor, to)
            /\ stage' = IF to < len[selected] THEN "logs"
                        ELSE IF fate[selected] = "finished" THEN "complete" ELSE "over"
      BY <1>3, Zenon DEF LogPage
  <2>2. /\ stage = "logs" /\ UNCHANGED <<selected, sub, remaining>>
      BY <1>3, Zenon DEF LogPage
  <2>3. sub = None BY <1>0, <2>2
  <2>4. to \in PageEnds(selected) BY DEF Answers
  <2>5. /\ to \in Nat /\ cursor <= to /\ to <= len[selected] /\ len[selected] \in Nat
      BY <2>4, PageEndsAre
  <2>6. stage' \in ToolStages BY <2>1 DEF ToolStages
  <2>7. ASSUME stage' = "complete"
        PROVE  fate[selected] \in {"finished", "pruned"} /\ to = len[selected]
    <3>1. ~(to < len[selected]) /\ fate[selected] = "finished" BY <2>1, <2>7
    <3>2. QED BY <2>5, <3>1, SMT
  <2>8. remaining' \in 0 .. MaxBytes BY <1>0, <2>2
  <2>9. QED BY <2>1, <2>2, <2>3, <2>5, <2>6, <2>7, <2>8, ReadOnKeeps, Zenon
<1>4. CASE Follow
  <2>1. /\ sub' = [exec |-> selected, pos |-> cursor] /\ stage = "follow"
        /\ UNCHANGED <<selected, pane, cursor, stage, remaining>>
      BY <1>4, Zenon DEF Follow
  <2>2. QED BY <2>1, ToolStays DEF ToolStages
<1>5. CASE FollowEnds
  <2>1. /\ stage' = IF cursor > 0 /\ cursor = len[selected] /\ fate[selected] = "finished"
                    THEN "complete" ELSE "over"
        /\ sub' = None /\ UNCHANGED <<selected, pane, cursor, remaining>>
      BY <1>5, Zenon DEF FollowEnds
  <2>2. stage' \in ToolStages BY <2>1 DEF ToolStages
  <2>3. stage' = "complete" => cursor = len[selected] /\ fate[selected] = "finished"
      BY <2>1
  <2>4. QED BY <2>1, <2>2, <2>3, ToolStays
<1>6. CASE RunTimesOut
  <2>1. /\ stage = "run" /\ stage' = "asked"
        /\ UNCHANGED <<selected, pane, cursor, sub, remaining>>
      BY <1>6, Zenon DEF RunTimesOut
  <2>2. sub' = None BY <1>0, <2>1
  <2>3. QED BY <2>1, <2>2, ToolStays DEF ToolStages
<1>7. CASE Deliver("follow") /\ UNCHANGED remaining
  <2>1. /\ sub # None /\ sub.pos < len[sub.exec] /\ stage = "follow"
        /\ Ingest(sub.exec, sub.pos, sub.pos + 1)
        /\ sub' = [sub EXCEPT !.pos = sub.pos + 1] /\ UNCHANGED <<selected, stage, remaining>>
      BY <1>7, Zenon DEF Deliver
  <2>2. sub = [exec |-> selected, pos |-> cursor] BY <2>1 DEF ToolInv
  <2>3. PICK e \in Executions, p \in Nat : e = selected /\ p = cursor
    <3>1. len[selected] \in Nat BY <1>0, LenTypes
    <3>2. cursor \in Nat BY <3>1 DEF ToolInv, ShowsFrom
    <3>3. QED BY <1>0, <3>2
  <2>4. /\ sub.exec = e /\ sub.pos = p /\ sub' = [exec |-> e, pos |-> p + 1]
        /\ Ingest(e, p, p + 1)
      BY <2>1, <2>2, <2>3
  <2>5. len[e] \in Nat BY LenTypes
  <2>6. p + 1 \in Nat /\ p <= p + 1 /\ p + 1 <= len[e] BY <2>1, <2>4, <2>5, SMT
  <2>7. ShowsFrom(e, 0) BY <2>3 DEF ToolInv
  <2>8. ShowsFrom(e, 0)' BY <2>3, <2>4, <2>6, <2>7, IngestShows
  <2>9. Seen' = Seen /\ selected' = e /\ stage' = "follow" /\ cursor' = p + 1
      BY <2>1, <2>3, <2>4, SeenSame DEF Ingest
  <2>10. ShowsFrom(selected, 0)' BY <2>8, <2>9, Zenon DEF ShowsFrom
  <2>11. e \in Seen BY <2>3 DEF ToolInv
  <2>12. remaining' \in 0 .. MaxBytes BY <1>0, <2>1
  <2>13. QED BY <2>4, <2>9, <2>10, <2>11, <2>12 DEF ToolInv, ToolStages
<1>8. QED BY <1>1, <1>2, <1>3, <1>4, <1>5, <1>6, <1>7, Zenon DEF ToolStep

-----------------------------------------------------------------------------
(* The programs beside loomd. *)

ProgramInv ==
    /\ program \in {"ui", "watch", "tool"}
    /\ program = "ui" => UiReader
    /\ program = "watch" => WatchReader
    /\ program = "tool" => ToolInv

OperatorInv ==
    /\ WorldInv /\ WatchInv /\ NoWatcher /\ ProgramInv
    /\ UiInv /\ WatchTypeOK /\ remaining \in 0 .. MaxBytes

LEMMA UiInitInv ==
    ASSUME NEW k \in Sessions \cup {None}, UiInit(k)
    PROVE  UiInv
BY DEF UiInit, UiInv, Everything

LEMMA OperatorInvInit == Init => OperatorInv
<1> SUFFICES ASSUME Init PROVE OperatorInv
    OBVIOUS
<1>1. WorldInv /\ WatchInv /\ NoWatcher BY WorldInvInit, WatchInvInit, NoWatcherInit
<1>2. MaxBytes \in 0 .. MaxBytes BY BytesAssumption
<1>3. PICK some \in Executions : TRUE BY ReaderAssumption
<1>4. NotWatching => WatchTypeOK BY DEF NotWatching, WatchTypeOK
<1>5. CASE /\ program = "ui" /\ UiStarts
           /\ \E k \in Sessions \cup {None} : UiInit(k)
           /\ NotWatching /\ remaining = MaxBytes
  <2>1. UiInv BY <1>5, UiInitInv
  <2>2. selected = None /\ pane = <<>> /\ cursor = 0 /\ sub = None /\ stage = "start"
      BY <1>5 DEF UiStarts
  <2>3. Shows(some) BY <1>1, <2>2, EmptyShows
  <2>4. UiReader BY <2>1, <2>2, <2>3 DEF UiReader, PaneInv, SubInv, UiStages
  <2>5. program = "ui" BY <1>5
  <2>6. ProgramInv BY <2>4, <2>5 DEF ProgramInv
  <2>7. QED BY <1>1, <1>2, <1>4, <1>5, <2>1, <2>6, Zenon DEF OperatorInv
<1>6. CASE /\ program = "watch" /\ \E k \in Sessions : WatchStarts(k)
           /\ UiInit(None) /\ remaining = MaxBytes
  <2>1. UiInv BY <1>6, UiInitInv
  <2>2. PICK k \in Sessions :
            /\ watched = Reading(k) /\ asked = None
            /\ selected = Newest(InSession(k))
            /\ pane = <<>> /\ cursor = 0 /\ sub = None /\ stage = "load"
      BY <1>6, Zenon DEF WatchStarts
  <2>3. WatchTypeOK BY <2>2, ReadingType DEF WatchTypeOK
  <2>4. InSession(k) \subseteq Seen BY DEF InSession, Stored, Seen
  <2>5. selected \in Seen \cup {None} BY <1>1, <2>2, <2>4, NewestOf, Zenon
  <2>6. \A e \in Executions : Shows(e) BY <1>1, <2>2, EmptyShows, Zenon
  <2>7. PaneInv
    <3>1. CASE selected = None BY <1>3, <2>5, <2>6, <3>1 DEF PaneInv
    <3>2. CASE selected # None BY <2>5, <2>6, <3>2 DEF PaneInv, Seen
    <3>3. QED BY <3>1, <3>2
  <2>8. WatchReader BY <2>2, <2>3, <2>7 DEF WatchReader
  <2>9. program = "watch" BY <1>6
  <2>10. ProgramInv BY <2>8, <2>9 DEF ProgramInv
  <2>11. QED BY <1>1, <1>2, <1>6, <2>1, <2>3, <2>10, Zenon DEF OperatorInv
<1>7. CASE /\ program = "tool"
           /\ \E e \in Executions, at \in {"run", "logs", "follow"} : ToolStarts(e, at)
           /\ UiInit(None) /\ NotWatching
  <2>1. UiInv BY <1>7, UiInitInv
  <2>2. PICK e \in Executions, at \in {"run", "logs", "follow"} :
            /\ selected = e /\ fate[e] = "running"
            /\ pane = <<>> /\ cursor = 0 /\ sub = None
            /\ remaining = MaxBytes /\ stage = at
      BY <1>7, Zenon DEF ToolStarts
  <2>3. ShowsFrom(e, 0) BY <1>1, <2>2, EmptyShows
  <2>4. ToolInv BY <1>2, <2>2, <2>3 DEF ToolInv, ToolStages, Seen
  <2>5. program = "tool" BY <1>7
  <2>6. ProgramInv BY <2>4, <2>5 DEF ProgramInv
  <2>7. QED BY <1>1, <1>2, <1>4, <1>7, <2>1, <2>2, <2>6, Zenon DEF OperatorInv
<1>8. QED BY <1>5, <1>6, <1>7, Zenon DEF Init

\* What loomd does leaves a reader behind, and never wrong.
LEMMA LoomdKeeps ==
    ASSUME OperatorInv, WorldNext, UNCHANGED <<uiVars, watchVars, remaining, program>>
    PROVE  WorldInv' /\ ProgramInv' /\ UiInv' /\ WatchTypeOK'
<1>1. WorldInv /\ ProgramInv /\ UiInv /\ WatchTypeOK BY DEF OperatorInv
<1>2. WorldInv' /\ \A e \in Executions : Grows(e) BY <1>1, WorldInvNext
<1>3. Seen \subseteq Seen' BY <1>2, Zenon DEF Grows, Seen
<1>4. UNCHANGED readerVars BY DEF WorldNext
<1>5. UNCHANGED <<selected, pane, cursor, sub, stage>> BY <1>4 DEF readerVars
<1>6. UiInv'
  <2>1. UNCHANGED <<chosen, listed, detail, shown, editing, dialog>> BY DEF uiVars
  <2>2. UiInv BY <1>1
  <2>3. QED BY <1>3, <2>1, <2>2 DEF UiInv, Everything
<1>7. WatchTypeOK' BY <1>1 DEF WatchTypeOK, watchVars
<1>8. ASSUME PaneInv PROVE PaneInv'
  <2>1. PICK e \in IF selected = None THEN Executions ELSE {selected} : Shows(e)
      BY <1>8, Zenon DEF PaneInv
  <2>2. e \in Executions BY <1>8, <2>1 DEF PaneInv, Seen
  <2>3. PICK from \in Nat : ShowsFrom(e, from) BY <2>1 DEF Shows
  <2>4. Grows(e) BY <1>2, <2>2
  <2>5. ShowsFrom(e, from)' BY <1>1, <1>2, <1>4, <2>2, <2>3, <2>4, WorldShows, Zenon
  <2>6. Shows(e)' BY <2>5, Zenon DEF Shows
  <2>7. QED BY <1>3, <1>5, <1>8, <2>1, <2>6 DEF PaneInv
<1>9. ASSUME SubInv PROVE SubInv'
  <2>1. CASE sub = None BY <1>5, <2>1 DEF SubInv
  <2>2. CASE sub # None
    <3>1. /\ sub \in [exec : Executions, pos : 0 .. MaxEvents]
          /\ sub.exec = selected /\ sub.pos <= len[sub.exec]
          /\ stage \in {"idle", "follow", "over"}
          /\ sub.pos = cursor \/ (pane = <<>> /\ cursor <= sub.pos)
        BY <1>9, <2>2, Zenon DEF SubInv
    <3>2. PICK e \in Executions, p \in Nat : e = sub.exec /\ p = sub.pos BY <3>1
    <3>3. len[e] <= len'[e] BY <1>2, <3>2 DEF Grows
    <3>4. len[e] \in Nat /\ len'[e] \in Nat
      <4>1. MaxEvents \in Nat BY ReaderAssumption
      <4>2. QED BY <1>1, <1>2, <4>1 DEF WorldInv
    <3>5. p <= len'[e] BY <3>1, <3>2, <3>3, <3>4, SMT
    <3>6. QED BY <1>5, <3>1, <3>2, <3>5, Zenon DEF SubInv
  <2>3. QED BY <2>1, <2>2
<1>10. ASSUME ToolInv PROVE ToolInv'
  <2>1. PICK e \in Executions : e = selected /\ e \in Seen BY <1>10 DEF ToolInv
  <2>2. ShowsFrom(e, 0) BY <1>10, <2>1 DEF ToolInv
  <2>3. Grows(e) BY <1>2
  <2>4. ShowsFrom(e, 0)' BY <1>1, <1>2, <1>4, <2>2, <2>3, WorldShows, Zenon
  <2>5. ShowsFrom(selected, 0)' BY <1>5, <2>1, <2>4, Zenon DEF ShowsFrom
  <2>6. stage' = "complete" =>
            fate'[selected'] \in {"finished", "pruned"} /\ cursor' = len'[selected']
    <3>1. SUFFICES ASSUME stage = "complete"
                   PROVE  fate'[e] \in {"finished", "pruned"} /\ cursor = len'[e]
        BY <1>5, <2>1
    <3>2. fate[e] \in {"finished", "pruned"} /\ cursor = len[e]
        BY <1>10, <2>1, <3>1, Zenon DEF ToolInv
    <3>3. QED BY <2>3, <3>2, Zenon DEF Grows
  <2>7. e \in Seen' BY <1>3, <2>1
  <2>8. UNCHANGED remaining OBVIOUS
  <2>9. QED BY <1>5, <1>10, <2>1, <2>5, <2>6, <2>7, <2>8, Zenon DEF ToolInv
<1>11. program' = program OBVIOUS
<1>12. program \in {"ui", "watch", "tool"} BY <1>1 DEF ProgramInv
<1>13. ASSUME program = "ui" PROVE UiReader'
  <2>1. PaneInv /\ SubInv /\ stage \in UiStages
      BY <1>1, <1>13, Zenon DEF ProgramInv, UiReader
  <2>2. QED BY <1>5, <1>6, <1>8, <1>9, <2>1, Zenon DEF UiReader, UiStages
<1>14. ASSUME program = "watch" PROVE WatchReader'
  <2>1. PaneInv /\ sub = None /\ stage \in {"idle", "load", "over"}
      BY <1>1, <1>14, Zenon DEF ProgramInv, WatchReader
  <2>2. QED BY <1>5, <1>7, <1>8, <2>1, Zenon DEF WatchReader
<1>15. program = "tool" => ToolInv' BY <1>1, <1>10, Zenon DEF ProgramInv
<1>16. ProgramInv' BY <1>11, <1>12, <1>13, <1>14, <1>15, Zenon DEF ProgramInv
<1>17. QED BY <1>2, <1>6, <1>7, <1>16

LEMMA OperatorInvNext == OperatorInv /\ [Next]_vars => OperatorInv'
<1> SUFFICES ASSUME OperatorInv, [Next]_vars PROVE OperatorInv'
    OBVIOUS
<1>1. /\ WorldInv /\ WatchInv /\ NoWatcher /\ ProgramInv
      /\ UiInv /\ WatchTypeOK /\ remaining \in 0 .. MaxBytes
    BY DEF OperatorInv
<1>2. WatchInv' /\ NoWatcher' BY <1>1, WatchInvNext
<1>3. CASE WorldNext /\ UNCHANGED <<uiVars, watchVars, remaining, program>>
  <2>1. WorldInv' /\ ProgramInv' /\ UiInv' /\ WatchTypeOK' BY <1>3, LoomdKeeps
  <2>2. remaining' \in 0 .. MaxBytes BY <1>1, <1>3
  <2>3. QED BY <1>2, <2>1, <2>2, Zenon DEF OperatorInv
<1>4. CASE InUi(UiStep)
  <2>1. /\ program = "ui" /\ UiStep /\ UNCHANGED worldVars /\ UNCHANGED watchVars
        /\ remaining' = remaining /\ program' = program
      BY <1>4, Zenon DEF InUi
  <2>2. UiReader' BY <1>1, <2>1, UiStepKeeps, Zenon DEF ProgramInv
  <2>3. WorldInv' BY <1>1, <2>1, WorldInvSame
  <2>4. WatchTypeOK' BY <1>1, <2>1, Zenon DEF watchVars, WatchTypeOK
  <2>5. ProgramInv' BY <2>1, <2>2 DEF ProgramInv
  <2>6. UiInv' BY <2>2, Zenon DEF UiReader
  <2>7. QED BY <1>1, <1>2, <2>1, <2>3, <2>4, <2>5, <2>6, Zenon DEF OperatorInv
<1>5. CASE InWatch(WatchStep)
  <2>1. /\ program = "watch" /\ WatchStep /\ UNCHANGED worldVars /\ UNCHANGED uiVars
        /\ remaining' = remaining /\ program' = program
      BY <1>5, Zenon DEF InWatch
  <2>2. WatchReader' BY <1>1, <2>1, WatchStepKeeps, Zenon DEF ProgramInv
  <2>3. WorldInv' BY <1>1, <2>1, WorldInvSame
  <2>4. dialog \in BOOLEAN BY <1>1 DEF UiInv
  <2>5. UiInv' BY <1>1, <2>1, <2>4, UiInvSame, Zenon DEF uiVars
  <2>6. ProgramInv' BY <2>1, <2>2 DEF ProgramInv
  <2>7. WatchTypeOK' BY <2>2, Zenon DEF WatchReader
  <2>8. QED BY <1>1, <1>2, <2>1, <2>3, <2>5, <2>6, <2>7, Zenon DEF OperatorInv
<1>6. CASE InTool(ToolStep)
  <2>1. /\ program = "tool" /\ ToolStep /\ UNCHANGED worldVars /\ UNCHANGED uiVars
        /\ UNCHANGED watchVars /\ program' = program
      BY <1>6, Zenon DEF InTool
  <2>2. ToolInv' BY <1>1, <2>1, ToolStepKeeps, Zenon DEF ProgramInv
  <2>3. WorldInv' BY <1>1, <2>1, WorldInvSame
  <2>4. dialog \in BOOLEAN BY <1>1 DEF UiInv
  <2>5. UiInv' BY <1>1, <2>1, <2>4, UiInvSame, Zenon DEF uiVars
  <2>6. WatchTypeOK' BY <1>1, <2>1, Zenon DEF watchVars, WatchTypeOK
  <2>7. ProgramInv' BY <2>1, <2>2 DEF ProgramInv
  <2>8. remaining' \in 0 .. MaxBytes BY <2>2, Zenon DEF ToolInv
  <2>9. QED BY <1>2, <2>3, <2>5, <2>6, <2>7, <2>8, Zenon DEF OperatorInv
<1>7. CASE UNCHANGED vars
  <2>1. /\ UNCHANGED worldVars /\ UNCHANGED readerVars /\ UNCHANGED uiVars
        /\ UNCHANGED watchVars /\ remaining' = remaining /\ program' = program
      BY <1>7, Zenon DEF vars
  <2>2. WorldInv' BY <1>1, <2>1, WorldInvSame
  <2>3. dialog \in BOOLEAN BY <1>1 DEF UiInv
  <2>4. UiInv' BY <1>1, <2>1, <2>3, UiInvSame, Zenon DEF uiVars
  <2>5. WatchTypeOK' BY <1>1, <2>1, Zenon DEF watchVars, WatchTypeOK
  <2>6. UNCHANGED <<selected, pane, cursor, sub, stage>> BY <2>1 DEF readerVars
  <2>7. Seen' = Seen /\ fate' = fate /\ len' = len BY <2>1, SeenSame
  <2>8. PaneInv => PaneInv' BY <2>6, <2>7, SameShows, Zenon DEF PaneInv
  <2>9. SubInv => SubInv' BY <2>6, <2>7, Zenon DEF SubInv
  <2>10. UiReader => UiReader' BY <2>4, <2>6, <2>8, <2>9, Zenon DEF UiReader, UiStages
  <2>11. WatchReader => WatchReader' BY <2>5, <2>6, <2>8, Zenon DEF WatchReader
  <2>12. ToolInv => ToolInv'
      BY <2>1, <2>6, <2>7, Zenon DEF ToolInv, ShowsFrom, LastOutput
  <2>13. ProgramInv' BY <1>1, <2>1, <2>10, <2>11, <2>12, Zenon DEF ProgramInv
  <2>14. QED BY <1>1, <1>2, <2>1, <2>2, <2>4, <2>5, <2>13, Zenon DEF OperatorInv
<1>8. QED BY <1>3, <1>4, <1>5, <1>6, <1>7, Zenon DEF Next

-----------------------------------------------------------------------------
(* What the invariant says of the pane. *)

LEMMA PaneTyped ==
    ASSUME WorldInv, NEW e \in Executions, NEW from \in Nat, ShowsFrom(e, from)
    PROVE  /\ \A i \in DOMAIN pane : pane[i] \in Executions \X (1 .. MaxEvents)
           /\ cursor \in 0 .. MaxEvents
<1> DEFINE last == Lesser(cursor, LastOutput(e))
           s == Slice(e, from, last)
<1>1. /\ len[e] \in 0 .. MaxEvents /\ len[e] \in Nat /\ MaxEvents \in Nat
      /\ LastOutput(e) \in Nat
    BY LenTypes
<1>2. cursor \in 0 .. len[e] /\ pane = Kept(s) BY Zenon DEF ShowsFrom
<1>3. cursor \in 0 .. MaxEvents BY <1>1, <1>2, SMT
<1>4. last \in Nat /\ last <= MaxEvents BY <1>1, <1>3, SMT DEF Lesser
<1> HIDE DEF last
<1>5. /\ s \in Seq(Pieces) /\ Len(s) = Count(from, last)
      /\ \A i \in 1 .. Count(from, last) : s[i] = <<e, Before(from) + i>>
  <2>1. last \in Int BY <1>4
  <2>2. QED BY <2>1, SliceIs, Zenon
<1> HIDE DEF s
<1>6. /\ pane \in Seq(Pieces) /\ Len(pane) = Lesser(Len(s), Cap)
      /\ \A i \in 1 .. Len(pane) : pane[i] = s[Len(s) - Len(pane) + i]
    BY <1>2, <1>5, KeptIs, Zenon
<1>7. DOMAIN pane = 1 .. Len(pane) /\ Len(pane) \in Nat /\ Len(s) \in Nat
    BY <1>5, <1>6, LenProperties
<1>8. ASSUME NEW i \in 1 .. Len(pane) PROVE pane[i] \in Executions \X (1 .. MaxEvents)
  <2>1. PICK j \in Int : j = Len(s) - Len(pane) + i BY <1>7
  <2>2. j \in 1 .. Len(s)
    <3>1. Len(pane) <= Len(s)
      <4>1. Cap \in Nat BY ReaderAssumption
      <4>2. QED BY <1>6, <1>7, <4>1, SMT DEF Lesser
    <3>2. QED BY <1>7, <2>1, <3>1, SMT
  <2>3. pane[i] = <<e, Before(from) + j>> BY <1>5, <1>6, <2>1, <2>2
  <2>4. Before(from) \in Nat BY DEF Before, FirstOutput
  <2>5. Len(s) = last - Before(from) \/ Len(s) = 0 BY <1>5, Zenon DEF Count
  <2>6. Before(from) + j \in 1 .. MaxEvents BY <1>1, <1>4, <1>7, <2>1, <2>2, <2>4, <2>5, SMT
  <2>7. QED BY <2>3, <2>6
<1>9. QED BY <1>3, <1>7, <1>8

LEMMA OperatorPane == OperatorInv => PaneInv
BY ToolReads, Zenon DEF OperatorInv, ProgramInv, UiReader, WatchReader

LEMMA OperatorInvTyped == OperatorInv => OperatorTypeOK
<1> SUFFICES ASSUME OperatorInv PROVE OperatorTypeOK
    OBVIOUS
<1>1. /\ WorldInv /\ ProgramInv /\ UiInv /\ WatchTypeOK
      /\ remaining \in 0 .. MaxBytes /\ PaneInv
    BY OperatorPane, Zenon DEF OperatorInv
<1>2. PICK e \in IF selected = None THEN Executions ELSE {selected} : Shows(e)
    BY <1>1, Zenon DEF PaneInv
<1>3. e \in Executions /\ selected \in Executions \cup {None}
    BY <1>1, <1>2 DEF PaneInv, Seen
<1>4. PICK from \in Nat : ShowsFrom(e, from) BY <1>2 DEF Shows
<1>5. /\ \A i \in DOMAIN pane : pane[i] \in Executions \X (1 .. MaxEvents)
      /\ cursor \in 0 .. MaxEvents
    BY <1>1, <1>3, <1>4, PaneTyped, Zenon
<1>6. /\ stage \in {"start", "idle", "load", "subscribe", "over",
                    "run", "asked", "logs", "follow", "complete"}
      /\ sub = None \/ sub \in [exec : Executions, pos : 0 .. MaxEvents]
  <2>1. CASE program = "ui"
      BY <1>1, <2>1 DEF ProgramInv, UiReader, UiStages, SubInv
  <2>2. CASE program = "watch" BY <1>1, <2>2 DEF ProgramInv, WatchReader
  <2>3. CASE program = "tool"
    <3>1. ToolInv BY <1>1, <2>3, Zenon DEF ProgramInv
    <3>2. selected \in Executions /\ stage \in ToolStages
          /\ (sub # None => sub = [exec |-> selected, pos |-> cursor])
        BY <3>1, Zenon DEF ToolInv
    <3>3. QED BY <1>5, <3>2 DEF ToolStages
  <2>4. QED BY <1>1, <2>1, <2>2, <2>3 DEF ProgramInv
<1>7. OutputTypeOK BY <1>1, <1>3, <1>5, <1>6 DEF OutputTypeOK, WorldInv
<1>8. UiTypeOK
  <2>1. Seen \subseteq Executions BY DEF Seen
  <2>2. QED BY <1>1, <2>1 DEF UiInv, UiTypeOK, Everything
<1>9. QED BY <1>1, <1>7, <1>8, Zenon DEF OperatorTypeOK, ToolTypeOK, ProgramInv

LEMMA OperatorInvSegment == OperatorInv => PaneIsSegment
<1> SUFFICES ASSUME OperatorInv PROVE PaneIsSegment
    OBVIOUS
<1>1. PaneInv BY OperatorPane
<1>2. PICK e \in IF selected = None THEN Executions ELSE {selected} : Shows(e)
    BY <1>1, Zenon DEF PaneInv
<1>3. PICK from \in Nat : ShowsFrom(e, from) BY <1>2 DEF Shows
<1>4. from \in 0 .. cursor /\ pane = Kept(Chunks(e, from, cursor))
    BY <1>3, ChunksAreSlices, Zenon DEF ShowsFrom
<1>5. QED BY <1>2, <1>4, Zenon DEF PaneIsSegment

LEMMA OperatorInvComplete == OperatorInv => CompleteMeansAll
<1> SUFFICES ASSUME OperatorInv, stage = "complete"
             PROVE  /\ fate[selected] \in {"finished", "pruned"}
                    /\ pane = Kept(Chunks(selected, 0, len[selected]))
    BY Zenon DEF CompleteMeansAll
<1>1. ToolInv
    BY SMT DEF OperatorInv, ProgramInv, UiReader, UiStages, WatchReader
<1>2. ShowsFrom(selected, 0) /\ cursor = len[selected]
      /\ fate[selected] \in {"finished", "pruned"}
    BY <1>1, Zenon DEF ToolInv
<1>3. pane = Kept(Slice(selected, 0, Lesser(len[selected], LastOutput(selected))))
    BY <1>2, Zenon DEF ShowsFrom
<1>4. QED BY <1>2, <1>3, ChunksAreSlices, Zenon

LEMMA OperatorInvAlways == Spec => []OperatorInv
BY OperatorInvInit, OperatorInvNext, PTL DEF Spec

(***************************************************************************)
(* ui.rs, watch.rs and mcp.rs: type correctness; what is shown is numbered *)
(* as loomd numbers it, and a selection is of an execution.                *)
(***************************************************************************)
THEOREM TypeCorrectness == Spec => []OperatorTypeOK
BY OperatorInvAlways, OperatorInvTyped, PTL

(***************************************************************************)
(* ui.rs ingest, sync_subscription and ensure_execution_selection,         *)
(* watch.rs refresh, mcp.rs convert_events: a pane never mixes executions  *)
(* and has no hole, whatever is selected, pruned or delivered late.        *)
(***************************************************************************)
THEOREM PanesHaveNoHole == Spec => []PaneIsSegment
BY OperatorInvAlways, OperatorInvSegment, PTL

(***************************************************************************)
(* mcp.rs run, read and wait, loom.rs stream_until_finished and            *)
(* follow_logs: who is told that this was all has had all of it, although  *)
(* an answer is cut off at a number of bytes.                              *)
(***************************************************************************)
THEOREM NoOutputIsLeftOut == Spec => []CompleteMeansAll
BY OperatorInvAlways, OperatorInvComplete, PTL
================================================================================
