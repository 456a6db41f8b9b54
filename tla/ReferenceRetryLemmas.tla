------------------------ MODULE ReferenceRetryLemmas ------------------------
(***************************************************************************)
(* The operators of ReferenceRetry keep a pass a pass over the same kind   *)
(* of entries, whatever these are, lose none of them and double none, go   *)
(* into the last round with entries only whose reference is missing, and   *)
(* come to an end.                                                         *)
(***************************************************************************)
EXTENDS ReferenceRetry, TLAPS

(* A new pass over a sequence of entries.                                  *)
LEMMA StartPassType ==
  ASSUME NEW Entry, NEW round \in Rounds, NEW entries \in Seq(Entry)
  PROVE  StartPass(round, entries) \in PassOf(Entry)
  BY DEF StartPass, PassOf

(* The pass of a session or run that has not begun.                        *)
LEMMA NoPassType ==
  ASSUME NEW Entry
  PROVE  NoPass \in PassOf(Entry)
  <1>1. "only" \in Rounds /\ << >> \in Seq(Entry)
    BY DEF Rounds
  <1> QED
    BY <1>1, StartPassType DEF NoPass

(* Settling or putting off the head of a queue that is not empty.          *)
LEMMA HeadType ==
  ASSUME NEW Entry, NEW p \in PassOf(Entry), p.queue # << >>
  PROVE  /\ Head(p.queue) \in Entry
         /\ SettleHead(p) \in PassOf(Entry)
         /\ DeferHead(p) \in PassOf(Entry)
  <1>1. p.queue \in Seq(Entry) /\ p.deferred \in Seq(Entry)
    BY DEF PassOf
  <1>2. Head(p.queue) \in Entry /\ Tail(p.queue) \in Seq(Entry)
    BY <1>1
  <1>3. Append(p.deferred, Head(p.queue)) \in Seq(Entry)
    BY <1>1, <1>2
  <1> QED
    BY <1>2, <1>3 DEF PassOf, SettleHead, DeferHead

(* Going over to the next pass, if this one is over.                       *)
LEMMA ContinueType ==
  ASSUME NEW Entry, NEW p \in PassOf(Entry)
  PROVE  /\ Continue(p) \in PassOf(Entry)
         /\ ~AllDone(p) => Continue(p).queue # << >>
  <1>1. RoundAfter(p) \in Rounds /\ p.deferred \in Seq(Entry)
    BY DEF RoundAfter, Rounds, PassOf
  <1>2. StartPass(RoundAfter(p), p.deferred) \in PassOf(Entry)
    BY <1>1, StartPassType
  <1>3. StartPass(RoundAfter(p), p.deferred).queue = p.deferred
    BY DEF StartPass
  <1> QED
    BY <1>2, <1>3 DEF Continue, AllDone, PassOver

(* An entry of a kind is an entry of any wider kind.                       *)
LEMMA PassOfWider ==
  ASSUME NEW Entry, NEW Wider, Entry \subseteq Wider, NEW p \in PassOf(Entry)
  PROVE  p \in PassOf(Wider)
  <1>1. Seq(Entry) \subseteq Seq(Wider)
    OBVIOUS
  <1> QED
    BY <1>1 DEF PassOf

-----------------------------------------------------------------------------
(* Where the entries of a pass go. *)

Queued(p, e) == \E i \in DOMAIN p.queue : p.queue[i] = e

Deferred(p, e) == \E i \in DOMAIN p.deferred : p.deferred[i] = e

(* Settling the head of the queue removes it, putting it off moves it.     *)
LEMMA HeadWaits ==
  ASSUME NEW Entry, NEW p \in PassOf(Entry), p.queue # << >>, NEW e
  PROVE  /\ Queued(p, e) <=> e = Head(p.queue) \/ Queued(SettleHead(p), e)
         /\ Deferred(SettleHead(p), e) <=> Deferred(p, e)
         /\ Queued(DeferHead(p), e) <=> Queued(SettleHead(p), e)
         /\ Deferred(DeferHead(p), e) <=> e = Head(p.queue) \/ Deferred(p, e)
  <1> DEFINE q == p.queue
             d == p.deferred
  <1>1. q \in Seq(Entry) /\ d \in Seq(Entry) /\ q # << >>
    BY DEF PassOf
  <1>2. /\ SettleHead(p).queue = Tail(q) /\ SettleHead(p).deferred = d
        /\ DeferHead(p).queue = Tail(q) /\ DeferHead(p).deferred = Append(d, Head(q))
    BY DEF PassOf, SettleHead, DeferHead
  <1>3. /\ Len(q) \in Nat \ {0}
        /\ DOMAIN q = 1 .. Len(q)
        /\ DOMAIN Tail(q) = 1 .. Len(q) - 1
        /\ Head(q) = q[1]
        /\ \A i \in 1 .. Len(q) - 1 : Tail(q)[i] = q[i + 1]
    BY <1>1
  <1>4. /\ DOMAIN Append(d, Head(q)) = DOMAIN d \cup {Len(d) + 1}
        /\ Append(d, Head(q))[Len(d) + 1] = Head(q)
        /\ \A i \in DOMAIN d : Append(d, Head(q))[i] = d[i]
    BY <1>1, <1>3
  <1> HIDE DEF q, d
  <1>5. (\E i \in DOMAIN q : q[i] = e)
          <=> e = Head(q) \/ \E i \in DOMAIN Tail(q) : Tail(q)[i] = e
    <2>1. ASSUME NEW i \in DOMAIN q, q[i] = e, e # Head(q)
          PROVE  \E j \in DOMAIN Tail(q) : Tail(q)[j] = e
      <3>1. i - 1 \in DOMAIN Tail(q) /\ Tail(q)[i - 1] = q[i - 1 + 1] /\ i - 1 + 1 = i
        BY <1>3, <2>1
      <3> QED
        BY <2>1, <3>1
    <2>2. ASSUME NEW i \in DOMAIN Tail(q), Tail(q)[i] = e
          PROVE  \E j \in DOMAIN q : q[j] = e
      <3>1. i + 1 \in DOMAIN q /\ q[i + 1] = e
        BY <1>3, <2>2
      <3> QED
        BY <3>1
    <2>3. e = Head(q) => \E j \in DOMAIN q : q[j] = e
      <3>1. 1 \in DOMAIN q
        BY <1>3
      <3> QED
        BY <1>3, <3>1
    <2> QED
      BY <2>1, <2>2, <2>3
  <1>6. (\E i \in DOMAIN Append(d, Head(q)) : Append(d, Head(q))[i] = e)
          <=> e = Head(q) \/ \E i \in DOMAIN d : d[i] = e
    BY <1>4
  <1> QED
    BY <1>2, <1>5, <1>6 DEF Queued, Deferred, q, d

(* Going over to the next pass loses no entry, and goes on until all is    *)
(* done.                                                                   *)
LEMMA ContinueWaits ==
  ASSUME NEW Entry, NEW p \in PassOf(Entry), NEW e
  PROVE  /\ Queued(Continue(p), e) \/ Deferred(Continue(p), e)
                <=> Queued(p, e) \/ Deferred(p, e)
         /\ AllDone(p) => Continue(p) = p
         /\ PassOver(Continue(p)) => AllDone(Continue(p))
  <1>1. CASE PassOver(p) /\ ~AllDone(p)
    <2>1. Continue(p) = StartPass(RoundAfter(p), p.deferred)
      BY <1>1 DEF Continue
    <2>2. Continue(p).queue = p.deferred /\ Continue(p).deferred = << >>
      BY <2>1 DEF StartPass
    <2>3. p.deferred # << >>
      BY <1>1 DEF AllDone
    <2> QED
      BY <1>1, <2>2, <2>3 DEF PassOver, Queued, Deferred
  <1>2. CASE ~(PassOver(p) /\ ~AllDone(p))
    BY <1>2 DEF Continue
  <1> QED
    BY <1>1, <1>2

(* A round that puts nothing off begins with nothing put off.              *)
LEMMA ContinueTidy ==
  ASSUME NEW p, ~PutsOff(p) => p.deferred = << >>
  PROVE  ~PutsOff(Continue(p)) => Continue(p).deferred = << >>
  <1>1. Continue(p) = p \/ Continue(p) = StartPass(RoundAfter(p), p.deferred)
    BY DEF Continue
  <1>2. StartPass(RoundAfter(p), p.deferred).deferred = << >>
    BY DEF StartPass
  <1> QED
    BY <1>1, <1>2

(* A round that puts nothing off has no other after it, and no other round *)
(* comes before the first.                                                 *)
LEMMA ContinueRound ==
  ASSUME NEW p
  PROVE  /\ ~PutsOff(p) => Continue(p) = p
         /\ Continue(p) = p \/ Continue(p).round \in {"retry", "final"}
  <1>1. Continue(p) = p \/ Continue(p) = StartPass(RoundAfter(p), p.deferred)
    BY DEF Continue
  <1>2. StartPass(RoundAfter(p), p.deferred).round \in {"retry", "final"}
    BY DEF StartPass, RoundAfter
  <1>3. ~PutsOff(p) => Continue(p) = p
    BY DEF Continue, AllDone
  <1> QED
    BY <1>1, <1>2, <1>3

-----------------------------------------------------------------------------
(* Why the last round is the last one. *)

(* M are the entries whose reference is missing.  As long as a retry has   *)
(* submitted none of its entries, all that it put off are in M; the last   *)
(* round goes through such entries only.                                   *)
Remaining(p) == Len(p.queue) + Len(p.deferred)

Resigned(p, M) ==
  /\ p.round = "retry" => Remaining(p) <= p.size
  /\ p.round = "retry" /\ Remaining(p) = p.size => \A e : Deferred(p, e) => e \in M
  /\ p.round = "final" => \A e : Queued(p, e) \/ Deferred(p, e) => e \in M

(* A pass that has put nothing off, and is not the last one.               *)
LEMMA FreshResigned ==
  ASSUME NEW Entry, NEW round \in Rounds \ {"final"}, NEW entries \in Seq(Entry), NEW M
  PROVE  Resigned(StartPass(round, entries), M)
  <1> DEFINE new == StartPass(round, entries)
  <1>1. /\ new.queue = entries /\ new.deferred = << >> /\ new.round # "final"
        /\ new.size = Len(entries)
    BY DEF StartPass, Rounds
  <1>2. Remaining(new) <= new.size
    BY <1>1 DEF Remaining
  <1>3. \A e : ~Deferred(new, e)
    BY <1>1 DEF Deferred
  <1> HIDE DEF new
  <1> QED
    BY <1>1, <1>2, <1>3 DEF Resigned, new

(* Settling the head of the queue leaves one entry less, putting it off    *)
(* leaves as many as before.                                               *)
LEMMA RemainingStep ==
  ASSUME NEW Entry, NEW p \in PassOf(Entry), p.queue # << >>
  PROVE  /\ Remaining(p) \in Nat
         /\ Remaining(SettleHead(p)) = Remaining(p) - 1
         /\ Remaining(DeferHead(p)) = Remaining(p)
  <1> DEFINE lq == Len(p.queue)
             ld == Len(p.deferred)
             lt == Len(Tail(p.queue))
             la == Len(Append(p.deferred, Head(p.queue)))
  <1>1. p.queue \in Seq(Entry) /\ p.deferred \in Seq(Entry) /\ p.queue # << >>
    BY DEF PassOf
  <1>2. lq \in Nat /\ lt = lq - 1
    BY <1>1
  <1>3. ld \in Nat /\ la = ld + 1
    BY <1>1
  <1>4. Remaining(p) = lq + ld
    BY DEF Remaining
  <1>5. Remaining(SettleHead(p)) = lt + ld
    BY DEF PassOf, SettleHead, Remaining
  <1>6. Remaining(DeferHead(p)) = lt + la
    BY DEF PassOf, DeferHead, Remaining
  <1> HIDE DEF lq, ld, lt, la
  <1>7. Remaining(p) \in Nat
    BY <1>2, <1>3, <1>4
  <1>8. Remaining(SettleHead(p)) = Remaining(p) - 1
    BY <1>2, <1>3, <1>4, <1>5
  <1>9. Remaining(DeferHead(p)) = Remaining(p)
    BY <1>2, <1>3, <1>4, <1>6
  <1> QED
    BY <1>7, <1>8, <1>9

(* The head of the queue is settled; in the last round that leaves M as it *)
(* is.                                                                     *)
LEMMA SettleResigned ==
  ASSUME NEW Entry, NEW p \in PassOf(Entry), p.queue # << >>, NEW M, NEW N,
         Resigned(p, M), p.round = "final" => N = M
  PROVE  Resigned(SettleHead(p), N)
  <1> DEFINE t == SettleHead(p)
  <1>1. t.round = p.round /\ t.size = p.size /\ p.size \in Nat
    BY DEF SettleHead, PassOf
  <1>2. Remaining(p) \in Nat /\ Remaining(t) = Remaining(p) - 1
    BY RemainingStep
  <1>3. \A e : Queued(t, e) \/ Deferred(t, e) => Queued(p, e) \/ Deferred(p, e)
    BY HeadWaits
  <1> HIDE DEF t
  <1>4. t.round = "retry" => Remaining(t) <= t.size /\ Remaining(t) # t.size
    BY <1>1, <1>2 DEF Resigned
  <1>5. ASSUME t.round = "final", NEW e, Queued(t, e) \/ Deferred(t, e)
        PROVE  e \in N
    <2>1. e \in M
      BY <1>1, <1>3, <1>5 DEF Resigned
    <2> QED
      BY <1>1, <1>5, <2>1
  <1>6. Resigned(t, N)
    BY <1>4, <1>5 DEF Resigned
  <1> QED
    BY <1>6 DEF t

(* A pass with as many entries left as before, of which one in M has moved *)
(* to those that are put off.                                              *)
LEMMA ResignedWith ==
  ASSUME NEW p, NEW t, NEW h, NEW M, Resigned(p, M), h \in M,
         t.round = p.round, t.size = p.size, Remaining(t) = Remaining(p),
         \A e : /\ Queued(t, e) => Queued(p, e)
                /\ Deferred(t, e) => e = h \/ Deferred(p, e)
  PROVE  Resigned(t, M)
  <1>1. t.round = "retry" => Remaining(t) <= t.size
    BY DEF Resigned
  <1>2. ASSUME t.round = "retry", Remaining(t) = t.size, NEW e, Deferred(t, e)
        PROVE  e \in M
    BY <1>2 DEF Resigned
  <1>3. ASSUME t.round = "final", NEW e, Queued(t, e) \/ Deferred(t, e)
        PROVE  e \in M
    BY <1>3 DEF Resigned
  <1> QED
    BY <1>1, <1>2, <1>3 DEF Resigned

(* The head of the queue is put off because its reference is missing.      *)
LEMMA DeferResigned ==
  ASSUME NEW Entry, NEW p \in PassOf(Entry), p.queue # << >>, NEW M,
         Resigned(p, M), Head(p.queue) \in M
  PROVE  Resigned(DeferHead(p), M)
  <1>1. DeferHead(p).round = p.round /\ DeferHead(p).size = p.size
    BY DEF DeferHead, PassOf
  <1>2. Remaining(DeferHead(p)) = Remaining(p)
    BY RemainingStep
  <1>3. \A e : /\ Queued(DeferHead(p), e) => Queued(p, e)
               /\ Deferred(DeferHead(p), e) => e = Head(p.queue) \/ Deferred(p, e)
    BY HeadWaits
  <1> QED
    BY <1>1, <1>2, <1>3, ResignedWith

(* Going over to the next pass.                                            *)
LEMMA ContinueResigned ==
  ASSUME NEW Entry, NEW p \in PassOf(Entry), NEW M, Resigned(p, M)
  PROVE  Resigned(Continue(p), M)
  <1>1. CASE PassOver(p) /\ ~AllDone(p)
    <2>1. Continue(p) = StartPass(RoundAfter(p), p.deferred) /\ p.deferred \in Seq(Entry)
      BY <1>1 DEF Continue, PassOf
    <2>2. CASE RoundAfter(p) = "retry"
      BY <2>1, <2>2, FreshResigned DEF Rounds
    <2>3. CASE RoundAfter(p) # "retry"
      <3>1. p.round = "retry" /\ Len(p.deferred) = p.size /\ RoundAfter(p) = "final"
        BY <2>3 DEF RoundAfter
      <3>2. Remaining(p) = p.size
        <4>1. p.queue = << >> /\ p.size \in Nat
          BY <1>1 DEF PassOver, PassOf
        <4>2. Len(p.queue) = 0
          BY <4>1
        <4> QED
          BY <3>1, <4>1, <4>2 DEF Remaining
      <3>3. \A e : Deferred(p, e) => e \in M
        BY <3>1, <3>2 DEF Resigned
      <3>4. /\ Continue(p).queue = p.deferred /\ Continue(p).deferred = << >>
            /\ Continue(p).round = "final"
        BY <2>1, <3>1 DEF StartPass
      <3>5. \A e : Queued(Continue(p), e) \/ Deferred(Continue(p), e) => e \in M
        BY <3>3, <3>4 DEF Queued, Deferred
      <3> QED
        BY <3>4, <3>5 DEF Resigned
    <2> QED
      BY <2>2, <2>3
  <1>2. CASE ~(PassOver(p) /\ ~AllDone(p))
    BY <1>2 DEF Continue
  <1> QED
    BY <1>1, <1>2

-----------------------------------------------------------------------------
(* Why the passes come to an end. *)

(* No pass has more entries left than it began with.                       *)
Paced(p) == Remaining(p) <= p.size

(* What is left to do after a retry is less than what its entries allowed  *)
(* for when it began.                                                      *)
LEMMA FewerEntries ==
  ASSUME NEW k \in Nat, NEW d \in Nat, d <= k
  PROVE  /\ d * (d + 1) <= k * (k + 1)
         /\ d < k => d * (d + 1) <= k * (k - 1)
         /\ 2 * k <= k * (k - 1) + 2
  <1>1. ASSUME NEW a \in Nat, d <= a PROVE d * (d + 1) <= a * (a + 1)
    <2>1. PICK c \in Nat : a = d + c
      <3>1. a - d \in Nat /\ a = d + (a - d)
        BY <1>1
      <3> QED
        BY <3>1
    <2>2. a * (a + 1) = d * (d + 1) + (2 * (d * c) + c * c + c)
      BY <2>1
    <2>3. d * c \in Nat /\ c * c \in Nat
      BY <2>1
    <2> QED
      BY <2>1, <2>2, <2>3
  <1>2. d < k => d * (d + 1) <= k * (k - 1)
    <2> SUFFICES ASSUME d < k PROVE d * (d + 1) <= k * (k - 1)
      OBVIOUS
    <2>1. k - 1 \in Nat /\ d <= k - 1
      OBVIOUS
    <2>2. d * (d + 1) <= (k - 1) * (k - 1 + 1)
      BY <1>1, <2>1
    <2>3. (k - 1) * (k - 1 + 1) = k * (k - 1)
      OBVIOUS
    <2> QED
      BY <2>2, <2>3
  <1>3. 2 * k <= k * (k - 1) + 2
    <2>1. CASE k \in {0, 1}
      BY <2>1
    <2>2. CASE k \notin {0, 1}
      <3>1. PICK c \in Nat : k = c + 2
        <4>1. k - 2 \in Nat /\ k = (k - 2) + 2
          BY <2>2
        <4> QED
          BY <4>1
      <3>2. k * (k - 1) = c * c + 3 * c + 2
        BY <3>1
      <3>3. c * c \in Nat
        BY <3>1
      <3> QED
        BY <3>1, <3>2, <3>3
    <2> QED
      BY <2>1, <2>2
  <1> QED
    BY <1>1, <1>2, <1>3

(* A pass that has one entry less to go through, and whatever follows it,  *)
(* is further on.                                                          *)
LEMMA ShorterAdvances ==
  ASSUME NEW Entry, NEW p \in PassOf(Entry), NEW t \in PassOf(Entry),
         t.round = p.round, t.size = p.size, Len(p.queue) = Len(t.queue) + 1, Paced(t)
  PROVE  FurtherOn(Continue(t), p)
  <1> DEFINE k == p.size
             d == Len(t.deferred)
             q == Len(t.queue)
  <1>1. /\ k \in Nat /\ d \in Nat /\ q \in Nat /\ q + d <= k
        /\ t.size = k /\ Len(p.queue) = q + 1
        /\ t.deferred \in Seq(Entry)
        /\ p.round \in Rounds
    BY DEF PassOf, Paced, Remaining
  <1>2. CASE PassOver(t) /\ ~AllDone(t)
    <2> DEFINE new == Continue(t)
    <2>1. /\ new.round = RoundAfter(t)
          /\ Len(new.queue) = d /\ new.size = d
          /\ p.round \in {"first", "retry"}
      BY <1>2 DEF Continue, StartPass, AllDone, PutsOff
    <2>2. q = 0 /\ p.size = k /\ Len(p.queue) = 1
      BY <1>1, <1>2 DEF PassOver
    <2> HIDE DEF k, d, q, new
    <2>3. CASE p.round = "first"
      <3>1. new.round = "retry"
        BY <2>1, <2>3 DEF RoundAfter
      <3>2. /\ WorkLeft(new) = 2 * d + d * (d - 1) + 2
            /\ WorkLeft(p) = 2 * 1 + k * (k + 1) + 2
        <4>1. WorkLeft(new) = 2 * Len(new.queue) + new.size * (new.size - 1) + 2
          BY <3>1 DEF WorkLeft
        <4>2. WorkLeft(p) = 2 * Len(p.queue) + p.size * (p.size + 1) + 2
          BY <2>3 DEF WorkLeft
        <4> QED
          BY <2>1, <2>2, <4>1, <4>2
      <3>3. d * (d + 1) <= k * (k + 1)
        BY <1>1, <2>2, FewerEntries
      <3>4. 2 * d + d * (d - 1) = d * (d + 1)
        BY <1>1
      <3>5. d * (d + 1) \in Nat /\ k * (k + 1) \in Nat
        BY <1>1
      <3> QED
        BY <3>2, <3>3, <3>4, <3>5 DEF FurtherOn, new
    <2>4. CASE p.round = "retry" /\ d = k
      <3>1. new.round = "final"
        BY <1>1, <2>1, <2>4 DEF RoundAfter, d
      <3>2. /\ WorkLeft(new) = 2 * k
            /\ WorkLeft(p) = 2 * 1 + k * (k - 1) + 2
        <4>1. WorkLeft(new) = 2 * Len(new.queue)
          BY <3>1 DEF WorkLeft
        <4>2. WorkLeft(p) = 2 * Len(p.queue) + p.size * (p.size - 1) + 2
          BY <2>4 DEF WorkLeft
        <4> QED
          BY <2>1, <2>2, <2>4, <4>1, <4>2
      <3>3. 2 * k <= k * (k - 1) + 2
        BY <1>1, FewerEntries
      <3>4. k * (k - 1) \in Int
        BY <1>1
      <3> QED
        BY <1>1, <3>2, <3>3, <3>4 DEF FurtherOn, new
    <2>5. CASE p.round = "retry" /\ d # k
      <3>1. new.round = "retry"
        BY <1>1, <2>1, <2>5 DEF RoundAfter, d
      <3>2. /\ WorkLeft(new) = 2 * d + d * (d - 1) + 2
            /\ WorkLeft(p) = 2 * 1 + k * (k - 1) + 2
        <4>1. WorkLeft(new) = 2 * Len(new.queue) + new.size * (new.size - 1) + 2
          BY <3>1 DEF WorkLeft
        <4>2. WorkLeft(p) = 2 * Len(p.queue) + p.size * (p.size - 1) + 2
          BY <2>5 DEF WorkLeft
        <4> QED
          BY <2>1, <2>2, <4>1, <4>2
      <3>3. d * (d + 1) <= k * (k - 1)
        BY <1>1, <2>2, <2>5, FewerEntries
      <3>4. 2 * d + d * (d - 1) = d * (d + 1)
        BY <1>1
      <3>5. d * (d + 1) \in Nat /\ k * (k - 1) \in Int
        BY <1>1
      <3> QED
        BY <3>2, <3>3, <3>4, <3>5 DEF FurtherOn, new
    <2> QED
      BY <2>1, <2>3, <2>4, <2>5
  <1>3. CASE ~(PassOver(t) /\ ~AllDone(t))
    <2>1. Continue(t) = t
      BY <1>3 DEF Continue
    <2>2. /\ k * (k + 1) \in Int /\ k * (k - 1) \in Int
          /\ t.round = p.round /\ Len(t.queue) = q /\ p.size = k
      BY <1>1
    <2> HIDE DEF k, q
    <2>3. CASE p.round = "first"
      <3>1. /\ WorkLeft(t) = 2 * q + k * (k + 1) + 2
            /\ WorkLeft(p) = 2 * (q + 1) + k * (k + 1) + 2
        BY <1>1, <2>2, <2>3 DEF WorkLeft
      <3> QED
        BY <1>1, <2>1, <2>2, <3>1 DEF FurtherOn
    <2>4. CASE p.round = "retry"
      <3>1. /\ WorkLeft(t) = 2 * q + k * (k - 1) + 2
            /\ WorkLeft(p) = 2 * (q + 1) + k * (k - 1) + 2
        BY <1>1, <2>2, <2>4 DEF WorkLeft
      <3> QED
        BY <1>1, <2>1, <2>2, <3>1 DEF FurtherOn
    <2>5. CASE p.round \in {"only", "final"}
      <3>1. WorkLeft(t) = 2 * q /\ WorkLeft(p) = 2 * (q + 1)
        BY <1>1, <2>2, <2>5 DEF WorkLeft
      <3> QED
        BY <1>1, <2>1, <3>1 DEF FurtherOn
    <2> QED
      BY <1>1, <2>3, <2>4, <2>5 DEF Rounds
  <1> QED
    BY <1>2, <1>3

LEMMA StartPaced ==
  ASSUME NEW Entry, NEW round, NEW entries \in Seq(Entry)
  PROVE  Paced(StartPass(round, entries))
  <1>1. /\ StartPass(round, entries).queue = entries
        /\ StartPass(round, entries).deferred = << >>
        /\ StartPass(round, entries).size = Len(entries)
    BY DEF StartPass
  <1>2. Len(entries) \in Nat /\ Len(<< >>) = 0
    OBVIOUS
  <1> QED
    BY <1>1, <1>2 DEF Paced, Remaining

LEMMA HeadPaced ==
  ASSUME NEW Entry, NEW p \in PassOf(Entry), p.queue # << >>, Paced(p)
  PROVE  Paced(SettleHead(p)) /\ Paced(DeferHead(p))
  <1>1. /\ SettleHead(p).round = p.round /\ SettleHead(p).size = p.size
        /\ DeferHead(p).round = p.round /\ DeferHead(p).size = p.size
        /\ p.size \in Nat
    BY DEF SettleHead, DeferHead, PassOf
  <1>2. /\ Remaining(p) \in Nat
        /\ Remaining(SettleHead(p)) = Remaining(p) - 1
        /\ Remaining(DeferHead(p)) = Remaining(p)
    BY RemainingStep
  <1> QED
    BY <1>1, <1>2 DEF Paced

LEMMA ContinuePaced ==
  ASSUME NEW Entry, NEW p \in PassOf(Entry), Paced(p)
  PROVE  Paced(Continue(p))
  <1>1. p.deferred \in Seq(Entry)
    BY DEF PassOf
  <1> QED
    BY <1>1, StartPaced DEF Continue

(* Every submission takes its share off the work that is left, whether it  *)
(* settles its event or puts it off, and whatever round follows            *)
(* (submit_events_with_reference_retry).                                   *)
THEOREM HeadAdvances ==
  ASSUME NEW Entry, NEW p \in PassOf(Entry), p.queue # << >>, Paced(p)
  PROVE  /\ FurtherOn(Continue(SettleHead(p)), p)
         /\ FurtherOn(Continue(DeferHead(p)), p)
  <1>1. /\ SettleHead(p) \in PassOf(Entry)
        /\ DeferHead(p) \in PassOf(Entry)
    BY HeadType
  <1>2. /\ SettleHead(p).round = p.round /\ SettleHead(p).size = p.size
        /\ SettleHead(p).queue = Tail(p.queue)
        /\ DeferHead(p).round = p.round /\ DeferHead(p).size = p.size
        /\ DeferHead(p).queue = Tail(p.queue)
    BY DEF SettleHead, DeferHead, PassOf
  <1>3. Len(p.queue) = Len(Tail(p.queue)) + 1
    <2>1. p.queue \in Seq(Entry) /\ p.queue # << >>
      BY DEF PassOf
    <2>2. Len(p.queue) \in Nat /\ Len(Tail(p.queue)) = Len(p.queue) - 1
      BY <2>1
    <2> QED
      BY <2>2
  <1>4. Paced(SettleHead(p)) /\ Paced(DeferHead(p))
    BY HeadPaced
  <1> QED
    BY <1>1, <1>2, <1>3, <1>4, ShorterAdvances

(* The work that is left is a natural number, so it cannot go down for     *)
(* ever, and a batch of n events begins with (n + 1) * (n + 2) of it:      *)
(* submit_events_with_reference_retry makes at most half as many           *)
(* submissions.                                                            *)
LEMMA WorkLeftNat ==
  ASSUME NEW Entry, NEW p \in PassOf(Entry)
  PROVE  WorkLeft(p) \in Nat
  <1> DEFINE k == p.size
             q == Len(p.queue)
  <1>1. k \in Nat /\ q \in Nat /\ p.round \in Rounds
    BY DEF PassOf
  <1> HIDE DEF k, q
  <1>2. k * (k + 1) \in Nat
    BY <1>1
  <1>3. k * (k - 1) + 2 \in Nat
    <2>1. k * (k - 1) + 2 \in Int /\ 2 * k <= k * (k - 1) + 2
      BY <1>1, FewerEntries
    <2> QED
      BY <1>1, <2>1
  <1>4. CASE p.round = "first"
    <2>1. WorkLeft(p) = 2 * q + k * (k + 1) + 2
      BY <1>4 DEF WorkLeft, k, q
    <2> QED
      BY <1>1, <1>2, <2>1
  <1>5. CASE p.round = "retry"
    <2>1. WorkLeft(p) = 2 * q + k * (k - 1) + 2
      BY <1>5 DEF WorkLeft, k, q
    <2> QED
      BY <1>1, <1>3, <2>1
  <1>6. CASE p.round \in {"only", "final"}
    <2>1. WorkLeft(p) = 2 * q
      BY <1>6 DEF WorkLeft, q
    <2> QED
      BY <1>1, <2>1
  <1> QED
    BY <1>1, <1>4, <1>5, <1>6 DEF Rounds

LEMMA FirstWork ==
  ASSUME NEW Entry, NEW entries \in Seq(Entry)
  PROVE  WorkLeft(StartPass("first", entries)) = (Len(entries) + 1) * (Len(entries) + 2)
  <1> DEFINE n == Len(entries)
  <1>1. n \in Nat
    OBVIOUS
  <1>2. WorkLeft(StartPass("first", entries)) = 2 * n + n * (n + 1) + 2
    BY DEF WorkLeft, StartPass
  <1> HIDE DEF n
  <1>3. 2 * n + n * (n + 1) + 2 = (n + 1) * (n + 2)
    BY <1>1
  <1> QED
    BY <1>2, <1>3 DEF n

-----------------------------------------------------------------------------
(* No entry waits twice. *)

Once(p) ==
  /\ \A i, j \in DOMAIN p.queue : p.queue[i] = p.queue[j] => i = j
  /\ \A i, j \in DOMAIN p.deferred : p.deferred[i] = p.deferred[j] => i = j
  /\ \A e : ~(Queued(p, e) /\ Deferred(p, e))

(* The head of the queue waits nowhere else, so it is gone when it is      *)
(* settled, and waits once when it is put off.                             *)
LEMMA HeadOnce ==
  ASSUME NEW Entry, NEW p \in PassOf(Entry), p.queue # << >>, Once(p)
  PROVE  /\ ~Queued(SettleHead(p), Head(p.queue))
         /\ ~Deferred(p, Head(p.queue))
         /\ Once(SettleHead(p))
         /\ Once(DeferHead(p))
  <1> DEFINE q == p.queue
             d == p.deferred
             h == Head(p.queue)
  <1>1. q \in Seq(Entry) /\ d \in Seq(Entry) /\ q # << >>
    BY DEF PassOf
  <1>2. /\ SettleHead(p).queue = Tail(q) /\ SettleHead(p).deferred = d
        /\ DeferHead(p).queue = Tail(q) /\ DeferHead(p).deferred = Append(d, h)
    BY DEF PassOf, SettleHead, DeferHead
  <1>3. /\ Len(q) \in Nat \ {0}
        /\ DOMAIN q = 1 .. Len(q)
        /\ DOMAIN Tail(q) = 1 .. Len(q) - 1
        /\ h = q[1]
        /\ \A i \in 1 .. Len(q) - 1 : Tail(q)[i] = q[i + 1]
    BY <1>1
  <1>4. /\ DOMAIN Append(d, h) = DOMAIN d \cup {Len(d) + 1}
        /\ Append(d, h)[Len(d) + 1] = h
        /\ \A i \in DOMAIN d : Append(d, h)[i] = d[i]
    BY <1>1, <1>3
  <1>5. \A i, j \in DOMAIN Tail(q) : Tail(q)[i] = Tail(q)[j] => i = j
    BY <1>3 DEF Once, q
  <1>6. \A i \in DOMAIN Tail(q) : Tail(q)[i] # h
    BY <1>3 DEF Once, q
  <1>7. ~Queued(SettleHead(p), h)
    BY <1>2, <1>6 DEF Queued
  <1>8. Queued(p, h)
    BY HeadWaits
  <1>9. ~Deferred(p, h)
    BY <1>8 DEF Once
  <1>10. \A i, j \in DOMAIN Append(d, h) : Append(d, h)[i] = Append(d, h)[j] => i = j
    <2>1. \A i \in DOMAIN d : d[i] # h
      BY <1>9 DEF Deferred, d
    <2>2. \A i, j \in DOMAIN d : d[i] = d[j] => i = j
      BY DEF Once, d
    <2> HIDE DEF d, h
    <2> QED
      BY <1>4, <2>1, <2>2
  <1>11. \A e : ~(Queued(SettleHead(p), e) /\ Deferred(SettleHead(p), e))
    BY HeadWaits DEF Once
  <1>12. \A e : ~(Queued(DeferHead(p), e) /\ Deferred(DeferHead(p), e))
    <2> TAKE e
    <2>1. Queued(DeferHead(p), e) => Queued(SettleHead(p), e)
      BY HeadWaits
    <2>2. Deferred(DeferHead(p), e) => e = h \/ Deferred(p, e)
      BY HeadWaits
    <2>3. ~(Queued(SettleHead(p), e) /\ Deferred(p, e))
      BY HeadWaits DEF Once
    <2> HIDE DEF h
    <2> QED
      BY <1>7, <2>1, <2>2, <2>3 DEF h
  <1>13. \A i, j \in DOMAIN d : d[i] = d[j] => i = j
    BY DEF Once, d
  <1>14. Once(SettleHead(p))
    BY <1>2, <1>5, <1>11, <1>13 DEF Once
  <1>15. Once(DeferHead(p))
    BY <1>2, <1>5, <1>10, <1>12 DEF Once
  <1> QED
    BY <1>7, <1>9, <1>14, <1>15

(* Going over to the next pass keeps it so.                                *)
LEMMA ContinueOnce ==
  ASSUME NEW p, Once(p)
  PROVE  Once(Continue(p))
  <1>1. Continue(p) = p \/ Continue(p) = StartPass(RoundAfter(p), p.deferred)
    BY DEF Continue
  <1>2. /\ StartPass(RoundAfter(p), p.deferred).queue = p.deferred
        /\ StartPass(RoundAfter(p), p.deferred).deferred = << >>
    BY DEF StartPass
  <1>3. Once(StartPass(RoundAfter(p), p.deferred))
    BY <1>2 DEF Once, Queued, Deferred
  <1> QED
    BY <1>1, <1>3
==============================================================================
