------------------------- MODULE UsbTransfersProofs -------------------------
EXTENDS UsbTransfers, FiniteSetTheorems, SequenceTheorems, TLAPS

USE TransfersAssumption

(****************************************************************************)
(* The inductive invariant.  First one transfer: its record t, the list r   *)
(* of its completed URBs and its lock l, with the device d and the time w.  *)
(****************************************************************************)
Device == IF ~gone THEN "present" ELSE IF reapAfter THEN "gone" ELSE "forgotten"

Ends == {"remove", "clear", "callback"}

\* The results with which a URB cuts off those behind it, and the statuses that
\* the completion routines find.
Breaks == {"short", "error", "stall"}
Fates  == {"COMPLETED", "ERROR", "NO_DEVICE", "STALL", "OVERFLOW"}
USE DEF Breaks, Fates

\* r lists each URB that has a result, once.
Mirrors(t, r) ==
  /\ r \in Seq(DOMAIN t.urb)
  /\ \A p \in 1 .. Len(r) : t.urb[r[p]] \in Results
  /\ \A p, q \in 1 .. Len(r) : r[p] = r[q] => p = q
  /\ \A i \in DOMAIN t.urb : t.urb[i] \in Results => \E p \in 1 .. Len(r) : r[p] = i

\* The URBs are retired or with the kernel, those still queued are the last
\* ones, and nothing is queued that was to be discarded.
Counted(n, t, l, d) ==
  /\ t.urbs => t.inFlight
  /\ t.inFlight => l = "free"
  /\ ~t.urbs => Held(t) = {}
  /\ t.urbs => t.retired + Cardinality(Held(t)) <= n
  /\ t.urbs /\ d # "forgotten" => t.retired + Cardinality(Held(t)) = n
  /\ d # "present" => Queued(t) = {}
  /\ d = "forgotten" => Held(t) = {}
  /\ \A i \in DOMAIN t.urb : t.urb[i] = "gone" => d # "present"
  /\ \A i \in Queued(t), j \in DOMAIN t.urb : i <= j => j \in Queued(t)
  /\ t.urbs /\ (t.cancelling \/ t.action # "NORMAL" \/ t.status # "COMPLETED") => Queued(t) = {}

Left(t) == {t.urb[i] : i \in Held(t)}

\* Of a bulk transfer, the URBs behind a short one or a failed one are cut off,
\* and no other; one that overflows is the last.
CutOff(t, r) ==
  /\ \A p \in 1 .. Len(r) : t.urb[r[p]] = "cancelled" =>
       \E q \in 1 .. p - 1 : t.urb[r[q]] \in Breaks
  /\ \A p \in 1 .. Len(r) : t.urb[r[p]] \in Breaks =>
       Queued(t) = {} /\ \A q \in p + 1 .. Len(r) : t.urb[r[q]] = "cancelled"
  /\ \A p \in 1 .. Len(r) : t.urb[r[p]] = "overflow" => Queued(t) = {} /\ p = Len(r)

\* What a stall has left of one.
Stalled(t) == t.status # "COMPLETED" /\ Left(t) \subseteq {"cancelled"}

Lossless(S) == S \subseteq {"ok", "short", "cancelled"} /\ ("cancelled" \in S => "short" \in S)

Whole(t, r) ==
  /\ t.status \in Fates
  /\ t.kind = "control" /\ t.urbs =>
       t.seen = {} /\ ("cancelled" \in Left(t) => t.action = "CANCELLED")
  /\ t.kind = "bulk" /\ t.urbs /\ t.action = "NORMAL" =>
       Stalled(t) \/ (CutOff(t, r) /\ (t.status = "COMPLETED" => t.seen \subseteq {"ok"}))
  /\ t.kind = "bulk" /\ t.urbs /\ t.action = "COMPLETED_EARLY" /\ t.status = "COMPLETED" =>
       /\ Left(t) \subseteq {"ok", "short", "cancelled"} /\ Lossless(t.seen)
       /\ "short" \in t.seen \/ "cancelled" \notin Left(t)

Reason(t, l, w) ==
  /\ l # "free" => t.seen = {} /\ ~t.cancelling
  /\ l = "free" /\ t.action = "CANCELLED" => t.asked \/ t.timedOut
  /\ t.asked \/ t.timedOut => t.cancelling
  /\ ~(t.asked /\ t.timedOut)
  /\ t.timedOut => t.kind # "control" /\ t.deadline <= w

Sound(x, t, r, l, d, w) ==
  /\ t \in TransferSet(x) /\ Mirrors(t, r) /\ Counted(NumUrbs[x], t, l, d)
  /\ Whole(t, r) /\ Reason(t, l, w)

\* The event thread and the transfer that it ends.
Ending ==
  LET t == xfer[event.x] IN
  /\ event.pc \in Ends \cup {"resubmit"} => event.x \in Transfers
  /\ event.pc \in Ends => lock[event.x] = "free" /\ ~t.urbs
  /\ event.pc \in {"remove", "clear"} => t.inFlight
  /\ event.pc = "callback" => ~t.inFlight
  /\ event.pc = "lost" \/ event.back = "lost" => gone
  /\ closed => event.pc = "poll" /\ \A x \in Transfers : lock[x] = "free"
  /\ event.pc \in Ends /\ event.result = "COMPLETED" /\ t.kind # "iso" => Lossless(t.seen)
  /\ event.pc = "remove" => event.result \notin {"TIMED_OUT", "CANCELLED"}
  /\ event.pc = "remove" /\ event.result = "cancellation" => t.action = "CANCELLED"
  /\ event.pc \in {"clear", "callback"} =>
       /\ event.result = "CANCELLED" => t.asked
       /\ event.result = "TIMED_OUT" => t.timedOut

\* The list of flying transfers, in the order of the deadlines; the timer is
\* set for the first one, unless its timeout has been handled.
Listed(x) == \E n \in 1 .. Len(flying) : flying[n] = x

Distinct == \A m, n \in 1 .. Len(flying) : flying[m] = flying[n] => m = n

Members ==
  /\ \A x \in Transfers : Listed(x) => xfer[x].inFlight \/ lock[x] # "free"
  /\ \A x \in Transfers : lock[x] # "free" => Listed(x)
  /\ \A x \in Transfers : xfer[x].inFlight =>
       Listed(x) \/ closed \/ (event.pc = "clear" /\ event.x = x)
  /\ event.pc = "clear" => ~Listed(event.x)

Ordered ==
  /\ \A m, n \in 1 .. Len(flying) : m < n /\ Timed(flying[n]) =>
       Timed(flying[m]) /\ xfer[flying[m]].deadline <= xfer[flying[n]].deadline
  /\ \A n \in 1 .. Len(flying) : Timed(flying[n]) => xfer[flying[n]].deadline >= 1

HeadArmed ==
  flying # <<>> /\ Timed(flying[1]) /\ ~xfer[flying[1]].handled =>
    armed # 0 /\ armed <= xfer[flying[1]].deadline

AllSound == \A x \in Transfers : Sound(x, xfer[x], reapable[x], lock[x], Device, now)

IInv == TypeOK /\ AllSound /\ Ending /\ Distinct /\ Members /\ Ordered /\ HeadArmed

(****************************************************************************)
(* Minima, sequences and the library's operators on them.                   *)
(****************************************************************************)

LEMMA MinIs ==
  ASSUME NEW S \in SUBSET Nat, S # {}
  PROVE  Min(S) \in S /\ \A y \in S : Min(S) <= y
<1> DEFINE Upto(x) == {y \in S : y <= x}
           All     == {Upto(x) : x \in S}
<1>1. All \subseteq FiniteSubsetsOf(S) /\ All # {}
  <2>1. ASSUME NEW x \in S  PROVE  IsFiniteSet(Upto(x))
    BY FS_BoundedSetOfNaturals, \A s \in Upto(x) : s <= x, Upto(x) \in SUBSET Nat
  <2>2. All \subseteq SUBSET S
    OBVIOUS
  <2>3. \A T \in All : IsFiniteSet(T)
    BY <2>1
  <2>4. All # {}
    <3>1. PICK x : x \in S
      OBVIOUS
    <3>2. QED
      BY <3>1, Upto(x) \in All, Upto(x) \in {Upto(y) : y \in S}
  <2> HIDE DEF All
  <2>5. QED
    BY <2>2, <2>3, <2>4 DEF FiniteSubsetsOf
<1>2. PICK U \in All : \A V \in All : ~(<<V, U>> \in StrictSubsetOrdering(S))
  <2> HIDE DEF All
  <2>1. QED
    BY <1>1, FS_StrictSubsetOrderingWellFounded, WFMin
<1>3. PICK x \in S : U = Upto(x)
  OBVIOUS
<1>4. ASSUME NEW y \in S  PROVE  x <= y
  <2>1. SUFFICES ASSUME y < x  PROVE  FALSE
    OBVIOUS
  <2>2. x \in Upto(x) /\ x \notin Upto(y)
    BY <2>1
  <2>3. \A z \in Upto(y) : z \in Upto(x)
    BY <2>1
  <2>4. <<Upto(y), U>> \in StrictSubsetOrdering(S)
    BY <1>3, <2>2, <2>3 DEF StrictSubsetOrdering
  <2>5. QED
    BY <1>2, <2>4
<1>5. QED
  BY <1>4 DEF Min

LEMMA SetToSeqIs ==
  ASSUME NEW S, IsFiniteSet(S)
  PROVE  /\ SetToSeq(S) \in Seq(S) /\ Len(SetToSeq(S)) = Cardinality(S)
         /\ Cardinality(S) \in Nat
         /\ \A a, b \in 1 .. Cardinality(S) : SetToSeq(S)[a] = SetToSeq(S)[b] => a = b
         /\ \A s \in S : \E a \in 1 .. Cardinality(S) : SetToSeq(S)[a] = s
<1> DEFINE n == Cardinality(S)
           f == SetToSeq(S)
<1>1. n \in Nat /\ ExistsBijection(1 .. n, S)
  BY FS_CardinalityType
<1>2. PICK g : g \in Bijection(1 .. n, S)
  BY <1>1 DEF ExistsBijection
<1>3. g \in [1 .. n -> S] /\ IsInjective(g)
  BY <1>2 DEF Bijection, Injection, Surjection, IsInjective
<1>4. f \in [1 .. n -> S] /\ IsInjective(f)
  BY <1>3 DEF SetToSeq
<1> HIDE DEF f
<1>5. f \in Seq(S) /\ Len(f) = n
  BY <1>1, <1>4
<1>6. f \in Injection(1 .. n, S)
  BY <1>4 DEF Injection, IsInjective
<1>7. IsFiniteSet(1 .. n) /\ Cardinality(1 .. n) = n
  BY <1>1, FS_Interval
<1>8. f \in Surjection(1 .. n, S)
  BY <1>6, <1>7, FS_Injection
<1>9. QED
  BY <1>1, <1>4, <1>5, <1>8 DEF f, Surjection, IsInjective

LEMMA ConcatIs ==
  ASSUME NEW S, NEW a \in Seq(S), NEW b \in Seq(S)
  PROVE  /\ a \o b \in Seq(S) /\ Len(a \o b) = Len(a) + Len(b)
         /\ \A n \in 1 .. Len(a) : (a \o b)[n] = a[n]
         /\ \A n \in 1 .. Len(b) : (a \o b)[Len(a) + n] = b[n]
<1>1. Len(a) \in Nat /\ Len(b) \in Nat
  OBVIOUS
<1>2. /\ a \o b \in Seq(S) /\ Len(a \o b) = Len(a) + Len(b)
      /\ \A n \in 1 .. Len(a) + Len(b) :
           (a \o b)[n] = IF n <= Len(a) THEN a[n] ELSE b[n - Len(a)]
  BY ConcatProperties
<1>3. ASSUME NEW n \in 1 .. Len(b)  PROVE  (a \o b)[Len(a) + n] = b[n]
  <2>1. Len(a) + n \in 1 .. Len(a) + Len(b) /\ ~(Len(a) + n <= Len(a)) /\ Len(a) + n - Len(a) = n
    BY <1>1
  <2>2. QED
    BY <1>2, <2>1
<1>4. ASSUME NEW n \in 1 .. Len(a)  PROVE  (a \o b)[n] = a[n]
  <2>1. n \in 1 .. Len(a) + Len(b) /\ n <= Len(a)
    BY <1>1
  <2>2. QED
    BY <1>2, <2>1
<1>5. QED
  BY <1>2, <1>3, <1>4

\* A part of a sequence.
LEMMA SubSeqIs ==
  ASSUME NEW S, NEW s \in Seq(S), NEW m \in 1 .. Len(s) + 1, NEW n \in m - 1 .. Len(s)
  PROVE  /\ SubSeq(s, m, n) \in Seq(S) /\ Len(SubSeq(s, m, n)) = n - m + 1
         /\ \A k \in 1 .. n - m + 1 : SubSeq(s, m, n)[k] = s[m + k - 1]
<1>1. Len(s) \in Nat
  OBVIOUS
<1>2. m \in Int /\ n \in Int /\ \A k \in m .. n : s[k] \in S
  BY <1>1
<1>3. QED
  BY <1>1, <1>2, SubSeqProperties

\* t is the sequence s of members of S with e inserted before place p, or
\* without the one at place p.
IsInserted(S, s, p, e, t) ==
  /\ t \in Seq(S) /\ Len(t) = Len(s) + 1
  /\ \A n \in 1 .. Len(s) : n < p => t[n] = s[n]
  /\ \A n \in 1 .. Len(s) : n >= p => t[n + 1] = s[n]
  /\ t[p] = e

IsRemoved(S, s, p, t) ==
  /\ t \in Seq(S) /\ Len(t) = Len(s) - 1
  /\ \A n \in 1 .. Len(s) - 1 : n < p => t[n] = s[n]
  /\ \A n \in 1 .. Len(s) - 1 : n >= p => t[n] = s[n + 1]

LEMMA InsertAtIs ==
  ASSUME NEW S, NEW s \in Seq(S), NEW p \in 1 .. Len(s) + 1, NEW e \in S
  PROVE  IsInserted(S, s, p, e, InsertAt(s, p, e))
<1> DEFINE a  == SubSeq(s, 1, p - 1)
           b  == <<e>>
           ab == a \o b
           c  == SubSeq(s, p, Len(s))
           t  == ab \o c
<1>0. Len(s) \in Nat /\ p \in Nat /\ p >= 1 /\ p <= Len(s) + 1
  OBVIOUS
<1>1. /\ a \in Seq(S) /\ Len(a) = p - 1 /\ \A n \in 1 .. p - 1 : a[n] = s[n]
  BY <1>0, SubSeqIs
<1>2. /\ c \in Seq(S) /\ Len(c) = Len(s) - p + 1
      /\ \A n \in 1 .. Len(s) - p + 1 : c[n] = s[p + n - 1]
  BY <1>0, SubSeqIs
<1>3. b \in Seq(S) /\ Len(b) = 1 /\ b[1] = e
  OBVIOUS
<1>4. InsertAt(s, p, e) = t
  BY DEF InsertAt
<1> HIDE DEF a, b, c
<1>5. /\ ab \in Seq(S) /\ Len(ab) = Len(a) + Len(b)
      /\ \A n \in 1 .. Len(a) : ab[n] = a[n]
      /\ \A n \in 1 .. Len(b) : ab[Len(a) + n] = b[n]
  <2>1. a \in Seq(S) /\ b \in Seq(S)
    BY <1>1, <1>3
  <2>2. QED
    BY <2>1, ConcatIs
<1> HIDE DEF ab
<1>6. /\ ab \in Seq(S) /\ Len(ab) = p /\ \A n \in 1 .. p - 1 : ab[n] = s[n]
      /\ ab[p] = e
  BY <1>0, <1>1, <1>3, <1>5
<1>7. /\ t \in Seq(S) /\ Len(t) = Len(ab) + Len(c)
      /\ \A n \in 1 .. Len(ab) : t[n] = ab[n]
      /\ \A n \in 1 .. Len(c) : t[Len(ab) + n] = c[n]
  <2>1. ab \in Seq(S) /\ c \in Seq(S)
    BY <1>2, <1>6
  <2>2. QED
    BY <2>1, ConcatIs
<1> HIDE DEF t
<1>8. ASSUME NEW n \in 1 .. Len(s), n >= p  PROVE  t[n + 1] = s[n]
  <2>1. PICK k \in 1 .. Len(s) - p + 1 : k = n - p + 1
    BY <1>0, <1>8
  <2>2. c[k] = s[p + k - 1] /\ p + k - 1 = n /\ Len(ab) + k = n + 1 /\ k \in 1 .. Len(c)
    BY <1>0, <1>2, <1>6, <2>1
  <2>3. t[Len(ab) + k] = c[k]
    BY <1>7, <2>2
  <2>4. QED
    BY <2>2, <2>3
<1>9. ASSUME NEW n \in 1 .. Len(s), n < p  PROVE  t[n] = s[n]
  <2>1. n \in 1 .. p - 1 /\ n \in 1 .. p
    BY <1>0, <1>9
  <2>2. QED
    BY <1>6, <1>7, <2>1
<1>10. t[p] = e /\ Len(t) = Len(s) + 1
  BY <1>0, <1>2, <1>6, <1>7
<1>11. QED
  BY <1>4, <1>7, <1>8, <1>9, <1>10 DEF IsInserted

LEMMA RemoveAtIs ==
  ASSUME NEW S, NEW s \in Seq(S), NEW p \in 1 .. Len(s)
  PROVE  IsRemoved(S, s, p, RemoveAt(s, p))
<1> DEFINE a == SubSeq(s, 1, p - 1)
           c == SubSeq(s, p + 1, Len(s))
           t == a \o c
<1>0. Len(s) \in Nat /\ p \in Nat /\ p >= 1 /\ p <= Len(s)
  OBVIOUS
<1>1. /\ a \in Seq(S) /\ Len(a) = p - 1 /\ \A n \in 1 .. p - 1 : a[n] = s[n]
  BY <1>0, SubSeqIs
<1>2. /\ c \in Seq(S) /\ Len(c) = Len(s) - p
      /\ \A n \in 1 .. Len(s) - p : c[n] = s[p + n]
  BY <1>0, SubSeqIs
<1>3. RemoveAt(s, p) = t
  BY DEF RemoveAt
<1> HIDE DEF a, c
<1>4. /\ t \in Seq(S) /\ Len(t) = Len(a) + Len(c)
      /\ \A n \in 1 .. Len(a) : t[n] = a[n]
      /\ \A n \in 1 .. Len(c) : t[Len(a) + n] = c[n]
  <2>1. a \in Seq(S) /\ c \in Seq(S)
    BY <1>1, <1>2
  <2>2. QED
    BY <2>1, ConcatIs
<1> HIDE DEF t
<1>5. ASSUME NEW n \in 1 .. Len(s) - 1, n >= p  PROVE  t[n] = s[n + 1]
  <2>1. PICK k \in 1 .. Len(s) - p : k = n - p + 1
    BY <1>0, <1>5
  <2>2. c[k] = s[p + k] /\ p + k = n + 1 /\ Len(a) + k = n /\ k \in 1 .. Len(c)
    BY <1>0, <1>1, <1>2, <2>1
  <2>3. t[Len(a) + k] = c[k]
    BY <1>4, <2>2
  <2>4. QED
    BY <2>2, <2>3
<1>6. ASSUME NEW n \in 1 .. Len(s) - 1, n < p  PROVE  t[n] = s[n]
  <2>1. n \in 1 .. p - 1
    BY <1>0, <1>6
  <2>2. QED
    BY <1>1, <1>4, <2>1
<1>7. Len(t) = Len(s) - 1
  BY <1>0, <1>1, <1>2, <1>4
<1>8. QED
  BY <1>3, <1>4, <1>5, <1>6, <1>7 DEF IsRemoved

(****************************************************************************)
(* The URBs of one transfer                                                 *)
(****************************************************************************)
LEMMA UrbSets ==
  ASSUME NEW x \in Transfers, NEW t \in TransferSet(x)
  PROVE  /\ NumUrbs[x] \in Nat \ {0} /\ Urbs(x) = 1 .. NumUrbs[x] /\ DOMAIN t.urb = Urbs(x)
         /\ t.urb \in [Urbs(x) -> {"none", "queued"} \cup Results]
         /\ Queued(t) \subseteq Held(t) /\ Held(t) \subseteq Urbs(x)
         /\ \A i \in Urbs(x) : i \in Held(t) \ Queued(t) <=> t.urb[i] \in Results
         /\ IsFiniteSet(Queued(t)) /\ IsFiniteSet(Held(t))
         /\ Cardinality(Held(t)) \in 0 .. NumUrbs[x]
         /\ Cardinality(Held(t)) = 0 <=> Held(t) = {}
<1>1. NumUrbs[x] \in Nat \ {0} /\ Urbs(x) = 1 .. NumUrbs[x]
  BY DEF Urbs
<1>2. DOMAIN t.urb = Urbs(x) /\ t.urb \in [Urbs(x) -> {"none", "queued"} \cup Results]
  BY DEF TransferSet
<1>3. /\ Queued(t) \subseteq Held(t) /\ Held(t) \subseteq Urbs(x)
      /\ \A i \in Urbs(x) : i \in Held(t) \ Queued(t) <=> t.urb[i] \in Results
  BY <1>2 DEF Queued, Held, Results
<1>4. IsFiniteSet(Urbs(x)) /\ Cardinality(Urbs(x)) = NumUrbs[x]
  BY <1>1, FS_Interval
<1>5. /\ IsFiniteSet(Held(t)) /\ Cardinality(Held(t)) <= NumUrbs[x]
      /\ IsFiniteSet(Queued(t))
  BY <1>3, <1>4, FS_Subset
<1>6. Cardinality(Held(t)) \in Nat /\ (Cardinality(Held(t)) = 0 <=> Held(t) = {})
  BY <1>5, FS_CardinalityType, FS_EmptySet
<1>7. QED
  BY <1>1, <1>2, <1>3, <1>5, <1>6

\* s lists the members of S, once; from t to u the URBs of S get a result; q
\* is r with members of S behind it.
Enumerates(s, S) ==
  /\ s \in Seq(S)
  /\ \A a, b \in 1 .. Len(s) : s[a] = s[b] => a = b
  /\ \A i \in S : \E a \in 1 .. Len(s) : s[a] = i

Completes(t, u, S) ==
  /\ DOMAIN u.urb = DOMAIN t.urb /\ S \subseteq DOMAIN t.urb
  /\ \A i \in S : t.urb[i] \notin Results /\ u.urb[i] \in Results
  /\ \A i \in DOMAIN t.urb : i \notin S => u.urb[i] = t.urb[i]

Longer(r, q, S) ==
  /\ Len(r) \in Nat /\ Len(q) \in Nat /\ Len(q) >= Len(r)
  /\ \A p \in 1 .. Len(r) : q[p] = r[p]
  /\ \A p \in Len(r) + 1 .. Len(q) : q[p] \in S

LEMMA SetEnumerated ==
  ASSUME NEW S, IsFiniteSet(S)
  PROVE  Enumerates(SetToSeq(S), S)
BY SetToSeqIs DEF Enumerates

\* URBs that get a result are appended to the list, in any order.
LEMMA MirrorsMore ==
  ASSUME NEW t, NEW u, NEW r, NEW S, NEW s,
         Mirrors(t, r), Completes(t, u, S), Enumerates(s, S)
  PROVE  Mirrors(u, r \o s) /\ Longer(r, r \o s, S) /\ Len(r \o s) = Len(r) + Len(s)
<1> DEFINE D == DOMAIN t.urb
           q == r \o s
<1>0. /\ DOMAIN u.urb = D /\ S \subseteq D /\ s \in Seq(S)
      /\ \A a, b \in 1 .. Len(s) : s[a] = s[b] => a = b
      /\ \A i \in S : \E a \in 1 .. Len(s) : s[a] = i
      /\ \A i \in S : t.urb[i] \notin Results /\ u.urb[i] \in Results
      /\ \A i \in D : i \notin S => u.urb[i] = t.urb[i]
  BY DEF Completes, Enumerates
<1>1. r \in Seq(D) /\ s \in Seq(D)
  BY <1>0, SeqMonotonic DEF Mirrors
<1>2. Len(r) \in Nat /\ Len(s) \in Nat /\ \A p \in 1 .. Len(s) : s[p] \in S
  BY <1>0, <1>1
<1>3. /\ q \in Seq(D) /\ Len(q) = Len(r) + Len(s)
      /\ \A p \in 1 .. Len(r) : q[p] = r[p]
      /\ \A p \in 1 .. Len(s) : q[Len(r) + p] = s[p]
  BY <1>1, ConcatIs
<1> HIDE DEF q
<1>4. ASSUME NEW p \in 1 .. Len(q)
      PROVE  \/ p \in 1 .. Len(r) /\ q[p] = r[p] /\ q[p] \in D \ S
             \/ \E k \in 1 .. Len(s) : p = Len(r) + k /\ q[p] = s[k] /\ q[p] \in S
  <2>1. CASE p <= Len(r)
    <3>1. p \in 1 .. Len(r)
      BY <1>2, <2>1
    <3>2. t.urb[r[p]] \in Results /\ r[p] \in D
      BY <1>1, <3>1 DEF Mirrors
    <3>3. r[p] \notin S /\ q[p] = r[p]
      BY <1>0, <1>3, <3>1, <3>2
    <3>4. QED
      BY <3>1, <3>2, <3>3
  <2>2. CASE p > Len(r)
    <3>1. PICK k \in 1 .. Len(s) : p = Len(r) + k
      BY <1>2, <1>3, <2>2, p - Len(r) \in 1 .. Len(s), p = Len(r) + (p - Len(r))
    <3>2. QED
      BY <1>2, <1>3, <3>1
  <2>3. QED
    BY <1>2, <2>1, <2>2
<1>m. /\ \A p \in 1 .. Len(r) : t.urb[r[p]] \in Results
      /\ \A a, b \in 1 .. Len(r) : r[a] = r[b] => a = b
  BY DEF Mirrors
<1>5. ASSUME NEW p \in 1 .. Len(q)  PROVE  u.urb[q[p]] \in Results
  <2>1. CASE p \in 1 .. Len(r) /\ q[p] = r[p] /\ q[p] \in D \ S
    BY <1>0, <1>m, <2>1
  <2>2. CASE q[p] \in S
    BY <1>0, <2>2
  <2>3. QED
    BY <1>4, <2>1, <2>2
<1>6. ASSUME NEW p \in 1 .. Len(q), NEW k \in 1 .. Len(q), q[p] = q[k]  PROVE  p = k
  <2>1. CASE q[p] \in S
    <3>1. PICK a \in 1 .. Len(s) : p = Len(r) + a /\ q[p] = s[a]
      BY <1>4, <2>1
    <3>2. PICK b \in 1 .. Len(s) : k = Len(r) + b /\ q[k] = s[b]
      BY <1>4, <1>6, <2>1
    <3>3. s[a] = s[b]
      BY <1>6, <3>1, <3>2
    <3>4. a = b
      BY <1>0, <3>3, Zenon
    <3>5. QED
      BY <3>1, <3>2, <3>4
  <2>2. CASE q[p] \notin S
    <3>1. p \in 1 .. Len(r) /\ q[p] = r[p]
      BY <1>4, <2>2
    <3>2. k \in 1 .. Len(r) /\ q[k] = r[k]
      BY <1>4, <1>6, <2>2
    <3>3. QED
      BY <1>m, <1>6, <3>1, <3>2
  <2>3. QED
    BY <2>1, <2>2
<1>7. ASSUME NEW i \in D, u.urb[i] \in Results  PROVE  \E p \in 1 .. Len(q) : q[p] = i
  <2>1. CASE i \in S
    <3>1. PICK a \in 1 .. Len(s) : s[a] = i
      BY <1>0, <2>1
    <3>2. Len(r) + a \in 1 .. Len(q)
      BY <1>2, <1>3
    <3>3. QED
      BY <1>3, <3>1, <3>2
  <2>2. CASE i \notin S
    <3>1. PICK a \in 1 .. Len(r) : r[a] = i
      BY <1>0, <1>7, <2>2 DEF Mirrors
    <3>2. a \in 1 .. Len(q)
      BY <1>2, <1>3
    <3>3. QED
      BY <1>3, <3>1, <3>2
  <2>3. QED
    BY <2>1, <2>2
<1>8. Mirrors(u, q)
  BY <1>0, <1>3, <1>5, <1>6, <1>7 DEF Mirrors
<1>9. ASSUME NEW p \in Len(r) + 1 .. Len(q)  PROVE  q[p] \in S
  <2>1. p \in 1 .. Len(q) /\ p \notin 1 .. Len(r)
    BY <1>2
  <2>2. QED
    BY <1>4, <2>1
<1>10. Longer(r, q, S)
  BY <1>2, <1>3, <1>9 DEF Longer
<1>11. QED
  BY <1>3, <1>8, <1>10 DEF q

LEMMA MirrorsSet ==
  ASSUME NEW t, NEW u, NEW r, NEW S, IsFiniteSet(S), Mirrors(t, r), Completes(t, u, S)
  PROVE  Mirrors(u, r \o SetToSeq(S)) /\ Longer(r, r \o SetToSeq(S), S)
BY SetEnumerated, MirrorsMore

\* The first URB of the list is reaped.
LEMMA MirrorsLess ==
  ASSUME NEW t, NEW u, NEW r, Mirrors(t, r), r # <<>>, DOMAIN u.urb = DOMAIN t.urb,
         u.urb[Head(r)] = "none",
         \A i \in DOMAIN t.urb : i # Head(r) => u.urb[i] = t.urb[i]
  PROVE  /\ Mirrors(u, Tail(r)) /\ Len(Tail(r)) = Len(r) - 1 /\ Len(r) \in Nat \ {0}
         /\ Head(r) = r[1] /\ Head(r) \in DOMAIN t.urb /\ t.urb[Head(r)] \in Results
         /\ \A p \in 1 .. Len(r) - 1 : Tail(r)[p] = r[p + 1]
<1> DEFINE D == DOMAIN t.urb
           q == Tail(r)
<1>1. /\ r \in Seq(D) /\ Len(r) \in Nat \ {0} /\ Head(r) = r[1]
      /\ q \in Seq(D) /\ Len(q) = Len(r) - 1
  BY DEF Mirrors
<1>2. \A p \in 1 .. Len(r) - 1 : q[p] = r[p + 1]
  BY <1>1, HeadTailProperties
<1>3. Head(r) \in D /\ t.urb[Head(r)] \in Results
  BY <1>1 DEF Mirrors
<1> HIDE DEF q
<1>4. ASSUME NEW p \in 1 .. Len(q)
      PROVE  /\ q[p] = r[p + 1] /\ p + 1 \in 1 .. Len(r) /\ q[p] # Head(r)
             /\ q[p] \in D /\ u.urb[q[p]] = t.urb[q[p]]
  <2>1. q[p] = r[p + 1] /\ p + 1 \in 1 .. Len(r) /\ p + 1 # 1 /\ 1 \in 1 .. Len(r)
    BY <1>1, <1>2
  <2>2. q[p] # Head(r) /\ q[p] \in D
    BY <1>1, <2>1 DEF Mirrors
  <2>3. QED
    BY <2>1, <2>2
<1>5. \A p \in 1 .. Len(q) : u.urb[q[p]] \in Results
  BY <1>4 DEF Mirrors
<1>6. ASSUME NEW p \in 1 .. Len(q), NEW k \in 1 .. Len(q), q[p] = q[k]  PROVE  p = k
  <2>1. p + 1 = k + 1
    BY <1>4, <1>6 DEF Mirrors
  <2>2. QED
    BY <1>1, <2>1
<1>7. ASSUME NEW i \in D, u.urb[i] \in Results  PROVE  \E p \in 1 .. Len(q) : q[p] = i
  <2>1. i # Head(r)
    BY <1>7 DEF Results
  <2>2. PICK a \in 1 .. Len(r) : r[a] = i
    BY <1>7, <2>1 DEF Mirrors
  <2>3. a # 1
    BY <1>1, <2>1, <2>2
  <2>4. PICK k \in 1 .. Len(q) : k + 1 = a
    BY <1>1, <2>3, a - 1 \in 1 .. Len(q), (a - 1) + 1 = a
  <2>5. QED
    BY <1>4, <2>2, <2>4
<1>8. QED
  BY <1>1, <1>2, <1>3, <1>5, <1>6, <1>7 DEF Mirrors, q

\* What is left of a transfer's invariant when only its URBs change.
LEMMA OnlyUrbs ==
  ASSUME NEW x \in Transfers, NEW t, NEW r, NEW l, NEW d, NEW w, Sound(x, t, r, l, d, w),
         NEW f \in [Urbs(x) -> {"none", "queued"} \cup Results]
  PROVE  LET u == [t EXCEPT !.urb = f] IN
         /\ u \in TransferSet(x) /\ u.urb = f /\ DOMAIN u.urb = Urbs(x)
         /\ u.kind = t.kind /\ u.urbs = t.urbs /\ u.retired = t.retired
         /\ u.action = t.action /\ u.status = t.status /\ u.inFlight = t.inFlight
         /\ u.cancelling = t.cancelling /\ u.handled = t.handled /\ u.timedOut = t.timedOut
         /\ u.deadline = t.deadline /\ u.seen = t.seen /\ u.asked = t.asked
         /\ Reason(u, l, w)
<1>1. t \in TransferSet(x)
  BY DEF Sound
<1> DEFINE u == [t EXCEPT !.urb = f]
<1>2. /\ u \in TransferSet(x) /\ u.urb = f /\ DOMAIN u.urb = Urbs(x)
      /\ u.kind = t.kind /\ u.urbs = t.urbs /\ u.retired = t.retired
      /\ u.action = t.action /\ u.status = t.status /\ u.inFlight = t.inFlight
      /\ u.cancelling = t.cancelling /\ u.handled = t.handled /\ u.timedOut = t.timedOut
      /\ u.deadline = t.deadline /\ u.seen = t.seen /\ u.asked = t.asked
  BY <1>1 DEF TransferSet
<1> HIDE DEF u
<1>3. Reason(u, l, w)
  BY <1>2 DEF Sound, Reason
<1>4. QED
  BY <1>2, <1>3 DEF u

\* The kernel completes the first URB in the queue, and cuts off the others.
LEMMA CompleteSound ==
  ASSUME NEW x \in Transfers, NEW t, NEW r, NEW l, NEW d, NEW w, Sound(x, t, r, l, d, w),
         NEW i \in Queued(t), \A j \in Queued(t) : i <= j,
         NEW c \in {"ok", "overflow"} \cup Breaks, NEW rest,
         rest = IF t.kind = "bulk" /\ c # "ok" THEN Queued(t) \ {i} ELSE {},
         c = "short" => t.kind = "bulk", c = "overflow" => i = NumUrbs[x]
  PROVE  Sound(x, [t EXCEPT !.urb = [j \in Urbs(x) |-> IF j = i THEN c
                                     ELSE IF j \in rest THEN "cancelled" ELSE t.urb[j]]],
               Append(r, i) \o SetToSeq(rest), l, d, w)
<1> DEFINE f  == [j \in Urbs(x) |-> IF j = i THEN c
                                    ELSE IF j \in rest THEN "cancelled" ELSE t.urb[j]]
           u  == [t EXCEPT !.urb = f]
           f1 == [j \in Urbs(x) |-> IF j = i THEN c ELSE t.urb[j]]
           t1 == [t EXCEPT !.urb = f1]
           r1 == Append(r, i)
           r2 == r1 \o SetToSeq(rest)
<1>1. /\ t \in TransferSet(x) /\ Mirrors(t, r) /\ Counted(NumUrbs[x], t, l, d)
      /\ Whole(t, r)
  BY DEF Sound
<1>2. /\ DOMAIN t.urb = Urbs(x) /\ t.urb \in [Urbs(x) -> {"none", "queued"} \cup Results]
      /\ IsFiniteSet(Queued(t)) /\ Queued(t) \subseteq Urbs(x) /\ Queued(t) \subseteq Held(t)
  BY <1>1, UrbSets
<1>3. /\ i \in Urbs(x) /\ t.urb[i] = "queued" /\ rest \subseteq Queued(t) /\ i \notin rest
      /\ \A j \in rest : t.urb[j] = "queued"
  BY <1>2 DEF Queued
<1>4. f \in [Urbs(x) -> {"none", "queued"} \cup Results] /\ f1 \in [Urbs(x) -> {"none", "queued"} \cup Results]
  BY <1>2 DEF Results
<1>5. /\ u \in TransferSet(x) /\ u.urb = f /\ DOMAIN u.urb = Urbs(x)
      /\ u.kind = t.kind /\ u.urbs = t.urbs /\ u.retired = t.retired
      /\ u.action = t.action /\ u.status = t.status /\ u.inFlight = t.inFlight
      /\ u.cancelling = t.cancelling /\ u.seen = t.seen /\ Reason(u, l, w)
  <2> HIDE DEF f
  <2>1. QED
    BY <1>4, OnlyUrbs
<1>6. t1.urb = f1 /\ DOMAIN t1.urb = Urbs(x)
  <2> HIDE DEF f1
  <2>1. QED
    BY <1>4, OnlyUrbs
<1> HIDE DEF u, t1
<1>7. /\ Mirrors(t1, r1) /\ Len(r1) = Len(r) + 1 /\ Len(r) \in Nat
      /\ r1[Len(r) + 1] = i /\ \A p \in 1 .. Len(r) : r1[p] = r[p]
  <2>1. r \in Seq(Urbs(x)) /\ r1 = r \o <<i>> /\ Len(r) \in Nat
    BY <1>1, <1>2, <1>3, AppendIsConcat DEF Mirrors
  <2>2. Enumerates(<<i>>, {i})
    BY DEF Enumerates
  <2>3. Completes(t, t1, {i})
    BY <1>2, <1>3, <1>6 DEF Results, Completes
  <2>4. Mirrors(t1, r1) /\ Longer(r, r1, {i})
    BY <1>1, <2>1, <2>2, <2>3, MirrorsMore
  <2>5. Len(r1) = Len(r) + 1 /\ r1[Len(r) + 1] = i
    BY <2>1
  <2>6. QED
    BY <2>4, <2>5 DEF Longer
<1> HIDE DEF r1
<1>8. IsFiniteSet(rest) /\ rest \in SUBSET Urbs(x)
  BY <1>2, <1>3, FS_Subset
<1>9. /\ Mirrors(u, r2) /\ Len(r2) \in Nat /\ Len(r2) >= Len(r1)
      /\ \A p \in 1 .. Len(r1) : r2[p] = r1[p]
      /\ \A p \in Len(r1) + 1 .. Len(r2) : r2[p] \in rest
  <2>1. Completes(t1, u, rest)
    BY <1>2, <1>3, <1>5, <1>6 DEF Results, Completes
  <2>2. Mirrors(u, r2) /\ Longer(r1, r2, rest)
    BY <1>7, <1>8, <2>1, MirrorsSet
  <2> HIDE DEF r2
  <2>3. QED
    BY <2>2 DEF Longer
<1> HIDE DEF r2
<1>10. /\ Held(u) = Held(t) /\ Queued(u) = Queued(t) \ ({i} \cup rest)
       /\ t.urbs /\ d = "present" /\ ~t.cancelling /\ t.action = "NORMAL"
  <2>1. Held(u) = Held(t) /\ Queued(u) = Queued(t) \ ({i} \cup rest)
    BY <1>2, <1>3, <1>5 DEF Held, Queued, Results
  <2>2. QED
    BY <1>1, <1>2, <2>1 DEF Counted
<1>11. Counted(NumUrbs[x], u, l, d)
  <2>1. ASSUME NEW a \in Queued(u), NEW b \in DOMAIN u.urb, a <= b  PROVE  b \in Queued(u)
    <3>1. a \in Queued(t) /\ b \in Queued(t)
      BY <1>1, <1>2, <1>5, <1>10, <2>1 DEF Counted
    <3>2. b # i
      <4>1. i <= a /\ i # a /\ i \in Nat /\ a \in Nat /\ b \in Nat
        BY <1>2, <1>3, <1>10, <3>1 DEF Urbs
      <4>2. QED
        BY <2>1, <4>1
    <3>3. rest = {}
      BY <1>10, <3>1
    <3>4. QED
      BY <1>10, <3>1, <3>2, <3>3
  <2>2. \A j \in DOMAIN u.urb : u.urb[j] = "gone" => d # "present"
    BY <1>1, <1>2, <1>5 DEF Counted
  <2>3. QED
    BY <1>1, <1>5, <1>10, <2>1, <2>2 DEF Counted
<1>12. Whole(u, r2)
  <2>1. u.kind = "bulk" => CutOff(u, r2)
    <3> SUFFICES ASSUME t.kind = "bulk"  PROVE  CutOff(u, r2)
      BY <1>5
    <3>1. CutOff(t, r)
      BY <1>1, <1>10 DEF Whole, Stalled, Counted
    <3>2. ASSUME NEW p \in 1 .. Len(r)
          PROVE  /\ u.urb[r2[p]] = t.urb[r[p]]
                 /\ u.urb[r2[p]] \notin (Breaks \cup {"cancelled", "overflow"})
      <4>1. r2[p] = r[p] /\ p \in Nat
        BY <1>7, <1>9
      <4>2. r[p] \in Urbs(x) /\ t.urb[r[p]] \in Results
        BY <1>1, <1>2 DEF Mirrors
      <4>3. r[p] # i /\ r[p] \notin rest
        BY <1>3, <4>2 DEF Results
      <4>4. \A q \in 1 .. Len(r) : t.urb[r[q]] \notin Breaks \cup {"overflow"}
        BY <3>1 DEF CutOff
      <4>5. t.urb[r[p]] # "cancelled"
        BY <1>7, <3>1, <4>1, <4>4 DEF CutOff
      <4>6. QED
        BY <1>5, <4>1, <4>2, <4>3, <4>4, <4>5
    <3>3. u.urb[r2[Len(r) + 1]] = c
      BY <1>3, <1>5, <1>7, <1>9
    <3>0. c = "overflow" => rest = {} /\ Queued(u) = {}
      <4>1. ASSUME NEW j \in Queued(t), c = "overflow"  PROVE  j = i
        BY <1>2, <4>1 DEF Urbs
      <4>2. QED
        BY <1>3, <1>10, <4>1
    <3>4. ASSUME NEW p \in Len(r) + 2 .. Len(r2)
          PROVE  u.urb[r2[p]] = "cancelled" /\ c \in Breaks
      <4>1. r2[p] \in rest
        BY <1>7, <1>9
      <4>2. QED
        BY <1>2, <1>3, <1>5, <3>0, <4>1
    <3>5. Len(r2) \in Nat /\ Len(r2) >= Len(r) + 1 /\ Len(r) \in Nat
      BY <1>7, <1>9
    <3>6. ASSUME NEW p \in 1 .. Len(r2), u.urb[r2[p]] = "cancelled"
          PROVE  \E q \in 1 .. p - 1 : u.urb[r2[q]] \in Breaks
      <4>1. p \notin 1 .. Len(r) /\ p # Len(r) + 1
        BY <3>2, <3>3, <3>6
      <4>2. p \in Len(r) + 2 .. Len(r2) /\ Len(r) + 1 \in 1 .. p - 1
        BY <3>5, <4>1
      <4>3. QED
        BY <3>3, <3>4, <4>2
    <3>7. ASSUME NEW p \in 1 .. Len(r2), u.urb[r2[p]] \in Breaks
          PROVE  Queued(u) = {} /\ \A q \in p + 1 .. Len(r2) : u.urb[r2[q]] = "cancelled"
      <4>1. p \notin 1 .. Len(r) /\ p \notin Len(r) + 2 .. Len(r2)
        BY <3>2, <3>4, <3>7
      <4>2. p = Len(r) + 1
        BY <3>5, <4>1
      <4>3. c \in Breaks
        BY <3>3, <3>7, <4>2
      <4>4. Queued(u) = {}
        BY <1>10, <4>3
      <4>5. QED
        BY <3>4, <3>5, <4>2, <4>4
    <3>8. ASSUME NEW p \in 1 .. Len(r2), u.urb[r2[p]] = "overflow"
          PROVE  Queued(u) = {} /\ p = Len(r2)
      <4>1. p \notin 1 .. Len(r) /\ p \notin Len(r) + 2 .. Len(r2)
        BY <3>2, <3>4, <3>8
      <4>2. p = Len(r) + 1
        BY <3>5, <4>1
      <4>3. c = "overflow"
        BY <3>3, <3>8, <4>2
      <4>4. Len(r2) \notin Len(r) + 2 .. Len(r2)
        <5>1. Len(r) + 2 .. Len(r2) = {}
          BY <3>4, <4>3
        <5>2. QED
          BY <5>1
      <4>5. QED
        BY <3>0, <3>5, <4>2, <4>3, <4>4
    <3>9. QED
      BY <3>6, <3>7, <3>8 DEF CutOff
  <2>2. u.kind = "control" /\ u.urbs => "cancelled" \notin Left(u)
    <3> SUFFICES ASSUME t.kind = "control"
                 PROVE  "cancelled" \notin Left(u)
      BY <1>5
    <3>1. "cancelled" \notin Left(t)
      BY <1>1, <1>10 DEF Whole
    <3>2. rest = {}
      OBVIOUS
    <3>3. QED
      BY <1>2, <1>5, <1>10, <3>1, <3>2 DEF Held, Left
  <2>3. QED
    BY <1>1, <1>5, <1>10, <2>1, <2>2 DEF Whole, Stalled
<1>13. Sound(x, u, r2, l, d, w)
  BY <1>5, <1>9, <1>11, <1>12 DEF Sound
<1>14. QED
  BY <1>13 DEF u, r1, r2
(****************************************************************************)
(* The same for the other steps of one transfer.                            *)
(****************************************************************************)

\* A transfer without URBs.
LEMMA NoUrbsSound ==
  ASSUME NEW x \in Transfers, NEW t \in TransferSet(x), ~t.urbs, Held(t) = {}, NEW l, NEW d, NEW w,
         t.inFlight => l = "free", t.status \in Fates,
         Reason(t, l, w)
  PROVE  Sound(x, t, <<>>, l, d, w)
<1>0. DOMAIN t.urb = Urbs(x) /\ Queued(t) \subseteq Held(t)
  BY UrbSets
<1>1. /\ DOMAIN t.urb = Urbs(x) /\ Queued(t) = {}
      /\ \A i \in Urbs(x) : t.urb[i] = "none"
  BY <1>0 DEF Held
<1>2. Mirrors(t, <<>>)
  BY <1>1 DEF Mirrors, Results
<1>3. Counted(NumUrbs[x], t, l, d)
  BY <1>1 DEF Counted
<1>4. Whole(t, <<>>)
  BY DEF Whole
<1>5. QED
  BY <1>2, <1>3, <1>4 DEF Sound

LEMMA NoUrbs ==
  ASSUME NEW x \in Transfers, NEW t, NEW r, NEW l, NEW d, NEW w, Sound(x, t, r, l, d, w),
         ~t.urbs
  PROVE  Held(t) = {} /\ Queued(t) = {} /\ r = <<>>
<1>1. t \in TransferSet(x) /\ Mirrors(t, r) /\ Held(t) = {}
  BY DEF Sound, Counted
<1>2. Queued(t) = {} /\ \A i \in DOMAIN t.urb : t.urb[i] \notin Results
  BY <1>1, UrbSets
<1>3. r \in Seq(DOMAIN t.urb) /\ \A p \in 1 .. Len(r) : t.urb[r[p]] \in Results
  BY <1>1 DEF Mirrors
<1>4. Len(r) = 0
  BY <1>2, <1>3
<1>5. QED
  BY <1>1, <1>2, <1>3, <1>4

LEMMA NothingMore ==
  ASSUME NEW S, NEW r \in Seq(S)
  PROVE  r \o SetToSeq({}) = r
<1>1. SetToSeq({}) \in Seq({}) /\ Len(SetToSeq({})) = 0
  BY SetToSeqIs, FS_EmptySet
<1>2. SetToSeq({}) = <<>>
  BY <1>1
<1>3. QED
  BY <1>2

\* The fields other than the URBs.
Besides(t, u) ==
  /\ u.kind = t.kind /\ u.urbs = t.urbs /\ u.retired = t.retired
  /\ u.action = t.action /\ u.status = t.status /\ u.inFlight = t.inFlight
  /\ u.cancelling = t.cancelling /\ u.handled = t.handled /\ u.timedOut = t.timedOut
  /\ u.deadline = t.deadline /\ u.seen = t.seen /\ u.asked = t.asked

LEMMA Discards ==
  ASSUME NEW x \in Transfers, NEW t \in TransferSet(x), NEW a, NEW b, NEW m
  PROVE  LET u == Discarded(t, a, b, m)
             h == Hit(t, a, b) IN
         /\ u \in TransferSet(x) /\ Besides(t, u) /\ IsFiniteSet(h) /\ h \subseteq Queued(t)
         /\ Completes(t, u, h) /\ Held(u) = Held(t) /\ Queued(u) = Queued(t) \ h
         /\ \A i \in h : u.urb[i] \in {"ok", "cancelled"}
         /\ Queued(t) = {} => u = t
<1> DEFINE h == Hit(t, a, b)
           f == [i \in DOMAIN t.urb |-> IF i \notin h THEN t.urb[i]
                                        ELSE IF i <= m THEN "ok" ELSE "cancelled"]
           u == [t EXCEPT !.urb = f]
<1>1. /\ DOMAIN t.urb = Urbs(x) /\ t.urb \in [Urbs(x) -> {"none", "queued"} \cup Results]
      /\ IsFiniteSet(Queued(t)) /\ Queued(t) \subseteq Urbs(x)
  BY UrbSets
<1>2. h \subseteq Queued(t) /\ IsFiniteSet(h)
  BY <1>1, FS_Subset DEF Hit
<1>3. /\ f \in [Urbs(x) -> {"none", "queued"} \cup Results]
      /\ \A i \in Urbs(x) : i \notin h => f[i] = t.urb[i]
      /\ \A i \in h : f[i] \in {"ok", "cancelled"}
  BY <1>1, <1>2 DEF Results
<1>4. h = {} => f = t.urb
  BY <1>1
<1> HIDE DEF f, h
<1>5. u \in TransferSet(x) /\ u.urb = f /\ Besides(t, u) /\ (f = t.urb => u = t)
  BY <1>3 DEF TransferSet, Besides
<1> HIDE DEF u
<1>6. \A i \in h : t.urb[i] = "queued"
  BY <1>2 DEF Queued
<1>7. Completes(t, u, h) /\ Held(u) = Held(t) /\ Queued(u) = Queued(t) \ h
  BY <1>1, <1>2, <1>3, <1>5, <1>6 DEF Completes, Held, Queued, Results
<1>8. u = Discarded(t, a, b, m)
  BY DEF Discarded, u, f, h
<1>9. Queued(t) = {} => u = t
  BY <1>2, <1>4, <1>5
<1>10. QED
  BY <1>2, <1>3, <1>5, <1>7, <1>8, <1>9 DEF h
\* Only whether its timeout has been handled is written.
LEMMA HandledSound ==
  ASSUME NEW x \in Transfers, NEW t, NEW r, NEW l, NEW d, NEW w, Sound(x, t, r, l, d, w)
  PROVE  Sound(x, [t EXCEPT !.handled = TRUE], r, l, d, w)
<1> DEFINE u == [t EXCEPT !.handled = TRUE]
<1>1. t \in TransferSet(x)
  BY DEF Sound
<1>2. /\ u \in TransferSet(x) /\ u.urb = t.urb
      /\ u.kind = t.kind /\ u.urbs = t.urbs /\ u.retired = t.retired
      /\ u.action = t.action /\ u.status = t.status /\ u.inFlight = t.inFlight
      /\ u.cancelling = t.cancelling /\ u.timedOut = t.timedOut
      /\ u.deadline = t.deadline /\ u.seen = t.seen /\ u.asked = t.asked
  BY <1>1 DEF TransferSet
<1> HIDE DEF u
<1>3. Held(u) = Held(t) /\ Queued(u) = Queued(t) /\ Left(u) = Left(t)
  BY <1>2 DEF Held, Queued, Left
<1>4. Mirrors(u, r) /\ Counted(NumUrbs[x], u, l, d) /\ Whole(u, r) /\ Reason(u, l, w)
  BY <1>2, <1>3 DEF Sound, Mirrors, Counted, Whole, CutOff, Stalled, Reason
<1>5. QED
  BY <1>2, <1>4 DEF Sound, u

\* op_cancel_transfer: u is what t becomes, with the ghosts of who asked.
Cancels(x, t, m, w, u) ==
  LET v == IF t.urbs THEN Discarded(t, 1, NumUrbs[x], m) ELSE t
      s == t.urbs /\ Success(t, NumUrbs[x])
  IN  /\ t.inFlight /\ ~t.cancelling
      /\ u \in TransferSet(x) /\ u.urb = v.urb
      /\ u.kind = t.kind /\ u.urbs = t.urbs /\ u.retired = t.retired /\ u.status = t.status
      /\ u.inFlight = t.inFlight /\ u.seen = t.seen /\ u.cancelling = TRUE
      /\ u.action = IF s /\ ~(t.kind = "bulk" /\ t.action = "ERROR") THEN "CANCELLED"
                    ELSE t.action
      /\ (s <=> u.asked \/ u.timedOut) /\ ~(u.asked /\ u.timedOut)
      /\ u.timedOut => u.kind # "control" /\ u.deadline <= w

LEMMA CancelSound ==
  ASSUME NEW x \in Transfers, NEW t, NEW r, NEW l, NEW d, NEW w, Sound(x, t, r, l, d, w),
         NEW m, NEW u, Cancels(x, t, m, w, u)
  PROVE  Sound(x, u, r \o (IF t.urbs THEN GivenBack(t, 1, NumUrbs[x]) ELSE <<>>), l, d, w)
<1>v. PICK v : v = IF t.urbs THEN Discarded(t, 1, NumUrbs[x], m) ELSE t
  OBVIOUS
<1>s. PICK s \in BOOLEAN : s <=> t.urbs /\ Success(t, NumUrbs[x])
  OBVIOUS
<1>0.   /\ t.inFlight /\ ~t.cancelling
        /\ u \in TransferSet(x) /\ u.urb = v.urb
        /\ u.kind = t.kind /\ u.urbs = t.urbs /\ u.retired = t.retired /\ u.status = t.status
        /\ u.inFlight = t.inFlight /\ u.seen = t.seen /\ u.cancelling = TRUE
        /\ u.action = IF s /\ ~(t.kind = "bulk" /\ t.action = "ERROR") THEN "CANCELLED"
                      ELSE t.action
        /\ (s <=> u.asked \/ u.timedOut) /\ ~(u.asked /\ u.timedOut)
        /\ u.timedOut => u.kind # "control" /\ u.deadline <= w
  BY <1>v, <1>s DEF Cancels
<1> DEFINE n == NumUrbs[x]
           h == Hit(t, 1, n)
           q == r \o (IF t.urbs THEN GivenBack(t, 1, n) ELSE <<>>)
<1>1. /\ t \in TransferSet(x) /\ Mirrors(t, r) /\ Counted(n, t, l, d)
      /\ Whole(t, r) /\ Reason(t, l, w)
  BY DEF Sound
<1>2. /\ n \in Nat \ {0} /\ DOMAIN t.urb = 1 .. n /\ Queued(t) \subseteq 1 .. n
      /\ Queued(t) \subseteq Held(t) /\ DOMAIN u.urb = 1 .. n /\ r \in Seq(1 .. n)
  <2>1. DOMAIN u.urb = Urbs(x)
    BY <1>0, UrbSets
  <2>2. QED
    BY <1>1, <2>1, UrbSets DEF Mirrors
<1>3. l = "free" /\ t.action # "CANCELLED"
  BY <1>0, <1>1 DEF Counted, Reason
<1>4. Reason(u, l, w)
  BY <1>0, <1>1, <1>3 DEF Reason
<1>5. h = Queued(t)
  BY <1>2 DEF Hit
<1>6. CASE Queued(t) = {}
  <2>1. ~s
    BY <1>s, <1>2, <1>6 DEF Success, Queued
  <2>2. v = t
    BY <1>v, <1>1, <1>6, Discards
  <2>3. q = r
    <3>1. GivenBack(t, 1, n) = SetToSeq({})
      BY <1>5, <1>6 DEF GivenBack
    <3>2. r \o SetToSeq({}) = r /\ r \o <<>> = r
      BY <1>2, NothingMore
    <3>3. QED
      BY <3>1, <3>2
  <2> HIDE DEF q
  <2>4. Held(u) = Held(t) /\ Queued(u) = Queued(t) /\ Left(u) = Left(t)
    BY <1>0, <2>2 DEF Held, Queued, Left
  <2>5. Mirrors(u, r)
    BY <1>0, <1>1, <2>2 DEF Mirrors
  <2>6. Counted(n, u, l, d)
    BY <1>0, <1>1, <1>6, <2>2, <2>4 DEF Counted
  <2>7. Whole(u, r)
    BY <1>0, <1>1, <2>1, <2>2, <2>4 DEF Whole, CutOff, Stalled
  <2>8. Sound(x, u, q, l, d, w)
    BY <1>0, <1>4, <2>3, <2>5, <2>6, <2>7 DEF Sound
  <2>9. QED
    BY <2>8 DEF q
<1>7. CASE Queued(t) # {}
  <2>1. t.urbs /\ t.action = "NORMAL"
    BY <1>1, <1>2, <1>7 DEF Counted
  <2>2. n \in Queued(t)
    <3>1. PICK i \in Queued(t) : TRUE
      BY <1>7
    <3>2. QED
      BY <1>1, <1>2, <3>1, i <= n, n \in DOMAIN t.urb DEF Counted
  <2>3. s /\ u.action = "CANCELLED"
    BY <1>0, <1>s, <2>1, <2>2 DEF Success, Queued
  <2>4. /\ v \in TransferSet(x) /\ IsFiniteSet(h) /\ Completes(t, v, h)
        /\ Held(v) = Held(t) /\ Queued(v) = {}
    <3>1. v = Discarded(t, 1, n, m)
      BY <1>v, <2>1
    <3>2. QED
      BY <1>1, <1>5, <3>1, Discards
  <2>5. Completes(t, u, h)
    BY <1>0, <2>4 DEF Completes
  <2>6. q = r \o SetToSeq(h)
    BY <2>1 DEF GivenBack
  <2> HIDE DEF q
  <2>7. Mirrors(u, q)
    BY <1>1, <2>4, <2>5, <2>6, MirrorsSet
  <2>8. Held(u) = Held(t) /\ Queued(u) = {}
    BY <1>0, <2>4 DEF Held, Queued
  <2>9. Counted(n, u, l, d)
    <3>1. \A i \in DOMAIN u.urb : u.urb[i] = "gone" => d # "present"
      <4>1. \A i \in h : v.urb[i] \in {"ok", "cancelled"}
        BY <1>v, <1>1, <2>1, Discards
      <4>2. QED
        BY <1>0, <1>1, <1>2, <2>5, <4>1 DEF Counted, Completes
    <3>2. QED
      BY <1>0, <1>1, <2>1, <2>8, <3>1 DEF Counted
  <2>10. Whole(u, q)
    BY <1>0, <1>1, <2>1, <2>3 DEF Whole
  <2>11. Sound(x, u, q, l, d, w)
    BY <1>0, <1>4, <2>7, <2>9, <2>10 DEF Sound
  <2>12. QED
    BY <2>11 DEF q
<1>8. QED
  BY <1>6, <1>7

\* The device of a queued or idle transfer is unplugged.
LEMMA GoneSound ==
  ASSUME NEW x \in Transfers, NEW t, NEW r, NEW l, NEW w, Sound(x, t, r, l, "present", w)
  PROVE  Sound(x, [t EXCEPT !.urb = [i \in Urbs(x) |->
                                       IF t.urb[i] = "queued" THEN "gone" ELSE t.urb[i]]],
               r \o SetToSeq(Queued(t)), l, "gone", w)
<1> DEFINE f == [i \in Urbs(x) |-> IF t.urb[i] = "queued" THEN "gone" ELSE t.urb[i]]
           u == [t EXCEPT !.urb = f]
           q == r \o SetToSeq(Queued(t))
<1>1. /\ t \in TransferSet(x) /\ Mirrors(t, r) /\ Counted(NumUrbs[x], t, l, "present")
      /\ Whole(t, r)
  BY DEF Sound
<1>2. /\ DOMAIN t.urb = Urbs(x) /\ t.urb \in [Urbs(x) -> {"none", "queued"} \cup Results]
      /\ IsFiniteSet(Queued(t)) /\ Queued(t) \subseteq Urbs(x)
  BY <1>1, UrbSets
<1>3. f \in [Urbs(x) -> {"none", "queued"} \cup Results]
  BY <1>2 DEF Results
<1>4. /\ u \in TransferSet(x) /\ u.urb = f /\ DOMAIN u.urb = Urbs(x)
      /\ u.kind = t.kind /\ u.urbs = t.urbs /\ u.retired = t.retired
      /\ u.action = t.action /\ u.status = t.status /\ u.inFlight = t.inFlight
      /\ u.cancelling = t.cancelling /\ u.seen = t.seen /\ Reason(u, l, w)
  <2> HIDE DEF f
  <2>1. QED
    BY <1>3, OnlyUrbs
<1> HIDE DEF u
<1>5. Completes(t, u, Queued(t)) /\ Held(u) = Held(t) /\ Queued(u) = {}
  BY <1>2, <1>4 DEF Completes, Held, Queued, Results
<1>6. Mirrors(u, q) /\ Longer(r, q, Queued(t))
  BY <1>1, <1>2, <1>5, MirrorsSet
<1> HIDE DEF q
<1>7. Counted(NumUrbs[x], u, l, "gone")
  BY <1>1, <1>4, <1>5 DEF Counted
<1>8. \A c \in Left(u) : c \in Left(t) \/ (c = "gone" /\ Queued(t) # {})
  <2>1. ASSUME NEW i \in Held(u)
        PROVE  u.urb[i] \in Left(t) \/ (u.urb[i] = "gone" /\ Queued(t) # {})
    <3>1. i \in Held(t) /\ i \in Urbs(x)
      BY <1>2, <1>5 DEF Held
    <3>2. CASE t.urb[i] = "queued"
      BY <1>2, <1>4, <3>1, <3>2 DEF Queued
    <3>3. CASE t.urb[i] # "queued"
      BY <1>4, <3>1, <3>3 DEF Left
    <3>4. QED
      BY <3>2, <3>3
  <2>2. QED
    BY <2>1 DEF Left
<1>9. Queued(t) # {} =>
        t.urbs /\ ~t.cancelling /\ t.action = "NORMAL" /\ t.status = "COMPLETED"
  <2>1. Queued(t) \subseteq Held(t)
    BY <1>1, UrbSets
  <2>2. QED
    BY <1>1, <2>1 DEF Counted
<1>10. ASSUME CutOff(t, r)  PROVE  CutOff(u, q)
  <2>1. ASSUME NEW p \in 1 .. Len(r)  PROVE  q[p] = r[p] /\ u.urb[q[p]] = t.urb[r[p]]
    <3>1. q[p] = r[p] /\ r[p] \in Urbs(x) /\ t.urb[r[p]] \in Results
      BY <1>1, <1>2, <1>6 DEF Longer, Mirrors
    <3>2. QED
      BY <1>4, <3>1 DEF Results
  <2>2. ASSUME NEW p \in Len(r) + 1 .. Len(q)
        PROVE  u.urb[q[p]] = "gone" /\ Queued(t) # {}
    <3>1. q[p] \in Queued(t)
      BY <1>6 DEF Longer
    <3>2. QED
      BY <1>2, <1>4, <3>1 DEF Queued
  <2>3. Len(r) \in Nat /\ Len(q) \in Nat /\ Len(q) >= Len(r)
    BY <1>6 DEF Longer
  <2>4. ASSUME NEW p \in 1 .. Len(q), u.urb[q[p]] = "cancelled"
        PROVE  \E k \in 1 .. p - 1 : u.urb[q[k]] \in Breaks
    <3>1. p \in 1 .. Len(r)
      BY <2>2, <2>3, <2>4
    <3>2. PICK k \in 1 .. p - 1 : t.urb[r[k]] \in Breaks
      BY <1>10, <2>1, <2>4, <3>1 DEF CutOff
    <3>3. k \in 1 .. Len(r)
      BY <2>3, <3>1
    <3>4. QED
      BY <2>1, <3>2, <3>3
  <2>5. ASSUME NEW p \in 1 .. Len(q), u.urb[q[p]] \in Breaks
        PROVE  \A k \in p + 1 .. Len(q) : u.urb[q[k]] = "cancelled"
    <3>1. p \in 1 .. Len(r)
      BY <2>2, <2>3, <2>5
    <3>2. t.urb[r[p]] \in Breaks
      BY <2>1, <2>5, <3>1
    <3>3. Queued(t) = {} /\ \A k \in p + 1 .. Len(r) : t.urb[r[k]] = "cancelled"
      BY <1>10, <3>1, <3>2 DEF CutOff
    <3>4. \A k \in p + 1 .. Len(q) : k \in p + 1 .. Len(r) /\ k \in 1 .. Len(r)
      BY <2>2, <2>3, <3>3
    <3>5. QED
      BY <2>1, <3>3, <3>4
  <2>6. ASSUME NEW p \in 1 .. Len(q), u.urb[q[p]] = "overflow"  PROVE  p = Len(q)
    <3>1. p \in 1 .. Len(r)
      BY <2>2, <2>3, <2>6
    <3>2. t.urb[r[p]] = "overflow"
      BY <2>1, <2>6, <3>1
    <3>3. Queued(t) = {} /\ p = Len(r)
      BY <1>10, <3>1, <3>2 DEF CutOff
    <3>4. Len(q) \notin Len(r) + 1 .. Len(q)
      BY <2>2, <3>3
    <3>5. QED
      BY <2>3, <3>3, <3>4
  <2>7. QED
    BY <1>5, <2>4, <2>5, <2>6 DEF CutOff
<1>s. Stalled(t) => u.status # "COMPLETED" /\ Left(u) \subseteq {"cancelled"}
  BY <1>4, <1>8, <1>9 DEF Stalled
<1>11. Whole(u, q)
  BY <1>1, <1>4, <1>8, <1>9, <1>10, <1>s DEF Whole, Stalled
<1>12. QED
  BY <1>4, <1>6, <1>7, <1>11 DEF Sound, u, q

LEMMA ForgottenSound ==
  ASSUME NEW x \in Transfers, NEW t, NEW r, NEW l, NEW w, Sound(x, t, r, l, "present", w)
  PROVE  Sound(x, [t EXCEPT !.urb = [i \in Urbs(x) |-> "none"]], <<>>, l, "forgotten", w)
<1> DEFINE f == [i \in Urbs(x) |-> "none"]
           u == [t EXCEPT !.urb = f]
<1>1. t \in TransferSet(x) /\ Counted(NumUrbs[x], t, l, "present") /\ Whole(t, r)
  BY DEF Sound
<1>2. f \in [Urbs(x) -> {"none", "queued"} \cup Results]
  OBVIOUS
<1>3. /\ u \in TransferSet(x) /\ u.urb = f /\ DOMAIN u.urb = Urbs(x)
      /\ u.kind = t.kind /\ u.urbs = t.urbs /\ u.retired = t.retired
      /\ u.action = t.action /\ u.status = t.status /\ u.inFlight = t.inFlight
      /\ u.cancelling = t.cancelling /\ u.seen = t.seen /\ Reason(u, l, w)
  <2> HIDE DEF f
  <2>1. QED
    BY <1>2, OnlyUrbs
<1> HIDE DEF u
<1>4. Held(u) = {} /\ Queued(u) = {} /\ Left(u) = {}
  BY <1>3 DEF Held, Queued, Left
<1>5. Mirrors(u, <<>>) /\ CutOff(u, <<>>)
  BY <1>3 DEF Mirrors, CutOff, Results
<1>6. Counted(NumUrbs[x], u, l, "forgotten")
  <2>1. t.retired \in 0 .. NumUrbs[x] /\ NumUrbs[x] \in Nat /\ Cardinality({}) = 0
    BY <1>1, FS_EmptySet, UrbSets DEF TransferSet
  <2>2. QED
    BY <1>1, <1>3, <1>4, <2>1 DEF Counted
<1>7. Whole(u, <<>>)
  BY <1>1, <1>3, <1>4, <1>5 DEF Whole, Stalled
<1>8. QED
  BY <1>3, <1>5, <1>6, <1>7 DEF Sound, u

\* The submissions.  t is the transfer on the list, u what it becomes: k URBs
\* are with the kernel.
Started(t, u) ==
  /\ u.kind = t.kind /\ u.urbs = TRUE /\ u.status = "COMPLETED" /\ u.inFlight = TRUE
  /\ u.cancelling = t.cancelling /\ u.timedOut = t.timedOut /\ u.deadline = t.deadline
  /\ u.seen = t.seen /\ u.asked = t.asked

LEMMA StartedIs ==
  ASSUME NEW x \in Transfers, NEW t, NEW r, NEW l, NEW d, NEW w, Sound(x, t, r, l, d, w),
         l # "free"
  PROVE  /\ t \in TransferSet(x) /\ ~t.inFlight /\ ~t.urbs /\ ~t.cancelling /\ t.seen = {}
         /\ ~t.asked /\ ~t.timedOut /\ r = <<>>
         /\ DOMAIN t.urb = Urbs(x) /\ \A i \in Urbs(x) : t.urb[i] = "none"
<1>1. /\ t \in TransferSet(x) /\ ~t.inFlight /\ ~t.urbs /\ ~t.cancelling /\ t.seen = {}
      /\ ~t.asked /\ ~t.timedOut
  BY DEF Sound, Counted, Reason
<1>2. Held(t) = {} /\ r = <<>>
  BY <1>1, NoUrbs
<1>3. DOMAIN t.urb = Urbs(x)
  BY <1>1, UrbSets
<1>4. QED
  BY <1>1, <1>2, <1>3 DEF Held

LEMMA SubmitSound ==
  ASSUME NEW x \in Transfers, NEW t, NEW r, NEW l, NEW w, Sound(x, t, r, l, "present", w),
         l # "free", NEW u \in TransferSet(x), Started(t, u), u.retired = 0, u.action = "NORMAL",
         u.urb = [i \in Urbs(x) |-> "queued"]
  PROVE  Sound(x, u, r, "free", "present", w)
<1>1. r = <<>> /\ ~t.cancelling /\ t.seen = {} /\ ~t.asked /\ ~t.timedOut
  BY StartedIs
<1>2. NumUrbs[x] \in Nat \ {0} /\ Urbs(x) = 1 .. NumUrbs[x] /\ DOMAIN u.urb = Urbs(x)
  BY UrbSets
<1>3. Held(u) = Urbs(x) /\ Queued(u) = Urbs(x) /\ Left(u) \subseteq {"queued"}
  BY <1>2 DEF Held, Queued, Left
<1>4. Cardinality(Held(u)) = NumUrbs[x]
  BY <1>2, <1>3, FS_Interval
<1>5. Mirrors(u, <<>>) /\ CutOff(u, <<>>)
  BY <1>2 DEF Mirrors, CutOff, Results
<1>6. Counted(NumUrbs[x], u, "free", "present")
  BY <1>1, <1>2, <1>3, <1>4 DEF Counted, Started
<1>7. Whole(u, <<>>)
  BY <1>1, <1>3, <1>5 DEF Whole, Started
<1>8. Reason(u, "free", w)
  BY <1>1 DEF Reason, Started
<1>9. QED
  BY <1>1, <1>5, <1>6, <1>7, <1>8 DEF Sound

\* In both other cases the URBs that the kernel has taken are done with.
LEMMA PartlySubmittedSound ==
  ASSUME NEW x \in Transfers, NEW t, NEW r, NEW l, NEW w, Sound(x, t, r, l, "present", w),
         l # "free", NEW k \in 1 .. NumUrbs[x] - 1, NEW q,
         NEW u \in TransferSet(x), Started(t, u), u.retired = NumUrbs[x] - k,
         u.action \in {"SUBMIT_FAILED", "COMPLETED_EARLY"},
         \A i \in Urbs(x) : u.urb[i] \in IF i <= k THEN {"ok", "short", "cancelled"} ELSE {"none"},
         u.action = "COMPLETED_EARLY" => \A i \in Urbs(x) : u.urb[i] # "cancelled",
         Mirrors(u, q)
  PROVE  Sound(x, u, q, "free", "present", w)
<1>1. ~t.cancelling /\ t.seen = {} /\ ~t.asked /\ ~t.timedOut
  BY StartedIs
<1>2. NumUrbs[x] \in Nat \ {0} /\ Urbs(x) = 1 .. NumUrbs[x] /\ DOMAIN u.urb = Urbs(x)
  BY UrbSets
<1>3. Held(u) = 1 .. k /\ Queued(u) = {} /\ \A i \in Urbs(x) : u.urb[i] # "gone"
  BY <1>2 DEF Held, Queued
<1>4. Cardinality(Held(u)) = k
  BY <1>3, FS_Interval
<1>5. Left(u) \subseteq {"ok", "short", "cancelled"}
  BY <1>2, <1>3 DEF Left
<1>6. u.action = "COMPLETED_EARLY" => "cancelled" \notin Left(u)
  BY <1>2 DEF Left, Held
<1>7. u.kind # "control"
  BY DEF TransferSet
<1>8. Counted(NumUrbs[x], u, "free", "present")
  BY <1>1, <1>2, <1>3, <1>4 DEF Counted, Started
<1>9. Whole(u, q)
  BY <1>1, <1>5, <1>6, <1>7 DEF Whole, Started, Lossless
<1>10. Reason(u, "free", w)
  BY <1>1 DEF Reason, Started
<1>11. QED
  BY <1>8, <1>9, <1>10 DEF Sound
\* A transfer, and what Reaped makes of it.
OneLess(t, r, i, u) ==
  /\ i = Head(r) /\ r # <<>>
  /\ u = [t EXCEPT !.retired = @ + 1, !.urb[i] = "none", !.seen = @ \cup {t.urb[i]}]

LEMMA ReapedIs ==
  ASSUME NEW x \in Transfers, NEW t, NEW r, NEW l, NEW d, NEW w,
         Sound(x, t, r, l, d, w), NEW i, NEW u, OneLess(t, r, i, u)
  PROVE  /\ u \in TransferSet(x) /\ u.retired = t.retired + 1 /\ u.seen = t.seen \cup {t.urb[i]}
         /\ u.kind = t.kind /\ u.urbs = t.urbs /\ u.action = t.action /\ u.status = t.status
         /\ u.inFlight = t.inFlight /\ u.cancelling = t.cancelling /\ u.handled = t.handled
         /\ u.timedOut = t.timedOut /\ u.deadline = t.deadline /\ u.asked = t.asked
         /\ t.urbs /\ t.inFlight /\ l = "free" /\ d # "forgotten"
         /\ t.urb[i] \in Left(t) /\ t.urb[i] \in Results /\ Left(u) \subseteq Left(t)
         /\ Mirrors(u, Tail(r)) /\ Held(u) = Held(t) \ {i} /\ Queued(u) = Queued(t)
         /\ u.retired + Cardinality(Held(u)) = NumUrbs[x]
         /\ u.retired = NumUrbs[x] <=> Held(u) = {}
         /\ Counted(NumUrbs[x], u, l, d) /\ Reason(u, l, w)
<1>1. /\ t \in TransferSet(x) /\ Mirrors(t, r) /\ Counted(NumUrbs[x], t, l, d)
      /\ Reason(t, l, w)
  BY DEF Sound
<1>2. /\ DOMAIN t.urb = Urbs(x) /\ t.urb \in [Urbs(x) -> {"none", "queued"} \cup Results]
      /\ IsFiniteSet(Held(t)) /\ Cardinality(Held(t)) \in 0 .. NumUrbs[x]
      /\ NumUrbs[x] \in Nat \ {0}
  BY <1>1, UrbSets
<1>3. i \in Urbs(x) /\ t.urb[i] \in Results /\ r \in Seq(Urbs(x)) /\ r # <<>> /\ i = Head(r)
  BY <1>1, <1>2 DEF Mirrors, OneLess
<1>4. i \in Held(t) /\ i \notin Queued(t)
  BY <1>2, <1>3 DEF Held, Queued, Results
<1>5. t.urbs /\ t.inFlight /\ l = "free" /\ d # "forgotten"
  BY <1>1, <1>4 DEF Counted
<1>6. t.retired + Cardinality(Held(t)) = NumUrbs[x] /\ t.retired \in Nat
  BY <1>1, <1>5 DEF Counted, TransferSet
<1>7. IsFiniteSet(Held(t) \ {i}) /\ Cardinality(Held(t) \ {i}) = Cardinality(Held(t)) - 1
  BY <1>2, <1>4, FS_RemoveElement
<1>8. t.retired + 1 \in 0 .. NumUrbs[x]
  <2>1. Cardinality(Held(t) \ {i}) \in Nat
    BY <1>7, FS_CardinalityType
  <2>2. QED
    BY <1>2, <1>6, <1>7, <2>1
<1> DEFINE f == [t.urb EXCEPT ![i] = "none"]
<1>9. f \in [Urbs(x) -> {"none", "queued"} \cup Results] /\ f[i] = "none"
      /\ \A j \in Urbs(x) : j # i => f[j] = t.urb[j]
  BY <1>2, <1>3
<1>10. t.seen \cup {t.urb[i]} \in SUBSET Results
  BY <1>1, <1>3 DEF TransferSet
<1>11. u = [t EXCEPT !.retired = t.retired + 1, !.urb = f, !.seen = t.seen \cup {t.urb[i]}]
  BY <1>1 DEF OneLess, TransferSet
<1> HIDE DEF f
<1>12. /\ u \in TransferSet(x) /\ u.retired = t.retired + 1 /\ u.seen = t.seen \cup {t.urb[i]}
       /\ u.kind = t.kind /\ u.urbs = t.urbs /\ u.action = t.action /\ u.status = t.status
       /\ u.inFlight = t.inFlight /\ u.cancelling = t.cancelling /\ u.handled = t.handled
       /\ u.timedOut = t.timedOut /\ u.deadline = t.deadline /\ u.asked = t.asked
       /\ u.urb = f
  BY <1>1, <1>8, <1>9, <1>10, <1>11 DEF TransferSet
<1>13. /\ DOMAIN u.urb = Urbs(x) /\ u.urb[i] = "none"
       /\ \A j \in Urbs(x) : j # i => u.urb[j] = t.urb[j]
  BY <1>9, <1>12
<1>14. Mirrors(u, Tail(r))
  <2>1. DOMAIN u.urb = DOMAIN t.urb /\ u.urb[Head(r)] = "none"
        /\ \A j \in DOMAIN t.urb : j # Head(r) => u.urb[j] = t.urb[j]
    BY <1>2, <1>3, <1>13
  <2>2. QED
    BY <1>1, <1>3, <2>1, MirrorsLess
<1>15. Held(u) = Held(t) \ {i} /\ Queued(u) = Queued(t)
  BY <1>2, <1>3, <1>4, <1>13 DEF Held, Queued
<1>16. t.urb[i] \in Left(t) /\ Left(u) \subseteq Left(t)
  BY <1>2, <1>4, <1>13, <1>15 DEF Left, Held
<1>17. Cardinality(Held(u)) \in Nat /\ (Cardinality(Held(u)) = 0 <=> Held(u) = {})
  BY <1>12, UrbSets
<1>18. /\ u.retired + Cardinality(Held(u)) = NumUrbs[x]
       /\ u.retired = NumUrbs[x] <=> Held(u) = {}
  <2>1. Cardinality(Held(u)) = Cardinality(Held(t)) - 1
    BY <1>7, <1>15
  <2>2. u.retired + Cardinality(Held(u)) = NumUrbs[x]
    BY <1>2, <1>6, <1>12, <2>1
  <2>3. QED
    BY <1>2, <1>6, <1>12, <1>17, <2>2
<1>19. Counted(NumUrbs[x], u, l, d)
  <2>1. \A j \in DOMAIN u.urb : u.urb[j] = "gone" => d # "present"
    BY <1>1, <1>2, <1>13 DEF Counted
  <2>2. \A a \in Queued(u), j \in DOMAIN u.urb : a <= j => j \in Queued(u)
    BY <1>1, <1>2, <1>13, <1>15 DEF Counted
  <2>3. QED
    BY <1>1, <1>2, <1>5, <1>12, <1>15, <1>18, <2>1, <2>2 DEF Counted
<1>20. Reason(u, l, w)
  BY <1>1, <1>5, <1>12 DEF Reason
<1>21. QED
  BY <1>3, <1>5, <1>12, <1>14, <1>15, <1>16, <1>18, <1>19, <1>20

\* The cut is unchanged if the URB that is reaped has not made it, and one that
\* was cut off is never the first.
LEMMA CutOffLess ==
  ASSUME NEW x \in Transfers, NEW t, NEW r, NEW l, NEW d, NEW w,
         Sound(x, t, r, l, d, w), NEW i, NEW u, OneLess(t, r, i, u),
         CutOff(t, r)
  PROVE  /\ t.urb[i] # "cancelled"
         /\ t.urb[i] = "overflow" => Held(u) = {}
         /\ t.urb[i] \in Breaks => Queued(u) = {} /\ Left(u) \subseteq {"cancelled"}
         /\ t.urb[i] \notin Breaks => CutOff(u, Tail(r))
<1>1. t \in TransferSet(x) /\ Mirrors(t, r)
  BY DEF Sound
<1>2. Mirrors(u, Tail(r)) /\ Held(u) = Held(t) \ {i} /\ Queued(u) = Queued(t) /\ u \in TransferSet(x)
  BY ReapedIs
<1>3. DOMAIN t.urb = Urbs(x) /\ DOMAIN u.urb = Urbs(x)
  BY <1>1, <1>2, UrbSets
<1>f. r # <<>> /\ i = Head(r)
  BY DEF OneLess
<1>4. u.urb[i] = "none" /\ \A j \in Urbs(x) : j # i => u.urb[j] = t.urb[j]
  <2>1. i \in Urbs(x) /\ u.urb = [t.urb EXCEPT ![i] = "none"]
    BY <1>1, <1>f, <1>3 DEF OneLess, TransferSet, Mirrors
  <2>2. QED
    BY <1>3, <2>1
<1>5. /\ Len(Tail(r)) = Len(r) - 1 /\ Len(r) \in Nat \ {0} /\ i = r[1]
      /\ \A p \in 1 .. Len(r) - 1 : Tail(r)[p] = r[p + 1]
  <2>1. DOMAIN u.urb = DOMAIN t.urb /\ u.urb[Head(r)] = "none"
        /\ \A j \in DOMAIN t.urb : j # Head(r) => u.urb[j] = t.urb[j]
    BY <1>3, <1>4, <1>f
  <2>2. QED
    BY <1>1, <1>f, <2>1, MirrorsLess
<1> DEFINE q == Tail(r)
<1> HIDE DEF q
<1>6. ASSUME NEW p \in 1 .. Len(q)
      PROVE  q[p] = r[p + 1] /\ p + 1 \in 1 .. Len(r) /\ u.urb[q[p]] = t.urb[r[p + 1]]
  <2>1. q[p] = r[p + 1] /\ p + 1 \in 1 .. Len(r) /\ p + 1 # 1 /\ 1 \in 1 .. Len(r)
    BY <1>5 DEF q
  <2>2. r[p + 1] # i /\ r[p + 1] \in Urbs(x)
    BY <1>1, <1>3, <1>5, <2>1 DEF Mirrors
  <2>3. QED
    BY <1>4, <2>1, <2>2
<1>a. 1 \in 1 .. Len(r) /\ r[1] = i /\ Len(q) = Len(r) - 1
  BY <1>5 DEF q
<1>7. t.urb[i] # "cancelled"
  <2>1. 1 \in 1 .. Len(r) /\ 1 .. 1 - 1 = {}
    BY <1>5
  <2>2. QED
    BY <1>5, <2>1 DEF CutOff
<1>8. ASSUME t.urb[i] \in Breaks
      PROVE  Queued(u) = {} /\ Left(u) \subseteq {"cancelled"}
  <2>1. Queued(t) = {} /\ \A p \in 1 + 1 .. Len(r) : t.urb[r[p]] = "cancelled"
    BY <1>a, <1>8 DEF CutOff
  <2>2. ASSUME NEW j \in Held(u)  PROVE  u.urb[j] = "cancelled"
    <3>1. j \in Urbs(x) /\ u.urb[j] \in Results
      BY <1>2, <1>3, <2>1, <2>2, UrbSets
    <3>2. PICK p \in 1 .. Len(q) : q[p] = j
      BY <1>2, <1>3, <3>1 DEF Mirrors, q
    <3>3. p + 1 \in 1 + 1 .. Len(r)
      BY <1>6, <3>2
    <3>4. QED
      BY <1>6, <2>1, <3>2, <3>3
  <2>3. QED
    BY <1>2, <2>1, <2>2 DEF Left
<1>9. ASSUME t.urb[i] \notin Breaks  PROVE  CutOff(u, q)
  <2>1. ASSUME NEW p \in 1 .. Len(q), u.urb[q[p]] = "cancelled"
        PROVE  \E k \in 1 .. p - 1 : u.urb[q[k]] \in Breaks
    <3>1. PICK k \in 1 .. (p + 1) - 1 : t.urb[r[k]] \in Breaks
      BY <1>6, <2>1 DEF CutOff
    <3>2. k # 1
      BY <1>5, <1>9, <3>1
    <3>3. PICK a \in 1 .. p - 1 : a + 1 = k
      BY <3>2, k - 1 \in 1 .. p - 1, (k - 1) + 1 = k
    <3>4. a \in 1 .. Len(q)
      BY <1>5 DEF q
    <3>5. QED
      BY <1>6, <3>1, <3>3, <3>4
  <2>2. ASSUME NEW p \in 1 .. Len(q), u.urb[q[p]] \in Breaks
        PROVE  Queued(u) = {} /\ \A k \in p + 1 .. Len(q) : u.urb[q[k]] = "cancelled"
    <3>1. Queued(t) = {} /\ \A k \in p + 1 + 1 .. Len(r) : t.urb[r[k]] = "cancelled"
      BY <1>6, <2>2 DEF CutOff
    <3>2. ASSUME NEW k \in p + 1 .. Len(q)  PROVE  u.urb[q[k]] = "cancelled"
      <4>1. k \in 1 .. Len(q) /\ k + 1 \in p + 1 + 1 .. Len(r)
        BY <1>5 DEF q
      <4>2. QED
        BY <1>6, <3>1, <4>1
    <3>3. QED
      BY <1>2, <3>1, <3>2
  <2>3. ASSUME NEW p \in 1 .. Len(q), u.urb[q[p]] = "overflow"
        PROVE  Queued(u) = {} /\ p = Len(q)
    <3>1. Queued(t) = {} /\ p + 1 = Len(r)
      BY <1>6, <2>3 DEF CutOff
    <3>2. QED
      BY <1>2, <1>5, <3>1 DEF q
  <2>4. QED
    BY <2>1, <2>2, <2>3 DEF CutOff
<1>10. ASSUME t.urb[i] = "overflow"  PROVE  Held(u) = {}
  <2>1. Queued(t) = {} /\ Len(r) = 1
    BY <1>a, <1>10 DEF CutOff
  <2>2. Len(q) = 0
    <3>1. Len(q) = 1 - 1
      BY <1>a, <2>1
    <3>2. QED
      BY <3>1
  <2>3. ASSUME NEW j \in Held(u)  PROVE  FALSE
    <3>1. j \in Urbs(x) /\ u.urb[j] \in Results
      BY <1>2, <1>3, <2>1, <2>3, UrbSets
    <3>2. \E p \in 1 .. Len(q) : q[p] = j
      BY <1>2, <1>3, <3>1 DEF Mirrors, q
    <3>3. QED
      BY <2>2, <3>2
  <2>4. QED
    BY <2>3
<1>11. QED
  BY <1>7, <1>8, <1>9, <1>10 DEF q
\* What a completion routine makes of transfer t, and the result it reports.
Yields(t, u, result) ==
  /\ u.kind = t.kind /\ u.inFlight = t.inFlight /\ u.deadline = t.deadline
  /\ u.handled = t.handled
  /\ result \in Fates \cup {"none", "cancellation"}
  /\ result # "none" => ~u.urbs /\ t.inFlight
  /\ result = "cancellation" => u.action = "CANCELLED"
  /\ result = "COMPLETED" /\ u.kind # "iso" => Lossless(u.seen)

With(v, a, s, b, u) == u = [v EXCEPT !.action = a, !.status = s, !.urbs = b]

LEMMA WithIs ==
  ASSUME NEW x \in Transfers, NEW v \in TransferSet(x), NEW a \in Actions, NEW s \in Statuses,
         NEW b \in BOOLEAN, NEW u, With(v, a, s, b, u)
  PROVE  /\ u \in TransferSet(x) /\ u.urb = v.urb /\ u.urbs = b /\ u.status = s
         /\ u.action = a /\ u.retired = v.retired
         /\ u.kind = v.kind /\ u.inFlight = v.inFlight /\ u.cancelling = v.cancelling
         /\ u.handled = v.handled /\ u.timedOut = v.timedOut /\ u.deadline = v.deadline
         /\ u.seen = v.seen /\ u.asked = v.asked
BY DEF TransferSet, With

\* A transfer goes on, with action a and status s.
GoesOn(v, q, a, s) ==
  /\ a # v.action => a \in {"COMPLETED_EARLY", "ERROR"} /\ Queued(v) = {}
  /\ s # v.status => Queued(v) = {}
  /\ v.kind = "bulk" /\ a = "NORMAL" =>
       \/ s # "COMPLETED" /\ Left(v) \subseteq {"cancelled"}
       \/ CutOff(v, q) /\ (s = "COMPLETED" => v.seen \subseteq {"ok"})
  /\ v.kind = "bulk" /\ a = "COMPLETED_EARLY" /\ s = "COMPLETED" =>
       /\ Left(v) \subseteq {"ok", "short", "cancelled"} /\ Lossless(v.seen)
       /\ "short" \in v.seen \/ "cancelled" \notin Left(v)

\* The last URB is back.
LEMMA FinishSound ==
  ASSUME NEW x \in Transfers, NEW t, NEW r, NEW l, NEW d, NEW w,
         Sound(x, t, r, l, d, w), NEW i, NEW v, OneLess(t, r, i, v),
         v.retired = NumUrbs[x],
         NEW s \in Fates, NEW a \in Actions,
         a = "CANCELLED" => v.action = "CANCELLED",
         NEW b \in BOOLEAN, ~b, NEW u, With(v, a, s, b, u),
         NEW e, e \in Fates \cup {"cancellation"},
         e = "cancellation" => a = "CANCELLED",
         e = "COMPLETED" /\ t.kind # "iso" => Lossless(v.seen)
  PROVE  Sound(x, u, Tail(r), l, d, w) /\ Yields(t, u, e)
<1>1. /\ v \in TransferSet(x) /\ v.kind = t.kind /\ v.inFlight = t.inFlight
      /\ v.handled = t.handled /\ v.deadline = t.deadline /\ t.inFlight /\ l = "free"
      /\ Mirrors(v, Tail(r)) /\ Held(v) = {} /\ Reason(v, l, w)
  BY ReapedIs
<1>2. /\ u \in TransferSet(x) /\ u.urb = v.urb /\ ~u.urbs /\ u.status = s
      /\ u.action = a
      /\ u.kind = v.kind /\ u.inFlight = v.inFlight /\ u.cancelling = v.cancelling
      /\ u.handled = v.handled /\ u.timedOut = v.timedOut /\ u.deadline = v.deadline
      /\ u.seen = v.seen /\ u.asked = v.asked
  <2>1. s \in Statuses /\ v.urbs \in BOOLEAN
    BY <1>1 DEF Statuses, TransferSet
  <2>2. v \in TransferSet(x)
    BY <1>1
  <2>3. u \in TransferSet(x) /\ u.urb = v.urb /\ u.urbs = b
    BY <2>1, <2>2, WithIs
  <2>4. /\ u.status = s /\ u.action = a /\ u.kind = v.kind /\ u.inFlight = v.inFlight
        /\ u.cancelling = v.cancelling /\ u.handled = v.handled /\ u.timedOut = v.timedOut
        /\ u.deadline = v.deadline /\ u.seen = v.seen /\ u.asked = v.asked
    BY <2>1, <2>2, WithIs
  <2>5. QED
    BY <2>3, <2>4
<1>3. Held(u) = {} /\ Reason(u, l, w) /\ Mirrors(u, Tail(r))
  BY <1>1, <1>2 DEF Held, Reason, Mirrors
<1>4. Sound(x, u, <<>>, l, d, w)
  BY <1>1, <1>2, <1>3, NoUrbsSound
<1>5. Tail(r) = <<>>
  <2>1. \A j \in DOMAIN u.urb : u.urb[j] \notin Results
    BY <1>3 DEF Held, Results
  <2>2. Tail(r) \in Seq(DOMAIN u.urb) /\ \A p \in 1 .. Len(Tail(r)) : u.urb[Tail(r)[p]] \in Results
    BY <1>3 DEF Mirrors
  <2> DEFINE q == Tail(r)
  <2> HIDE DEF q
  <2>3. q \in Seq(DOMAIN u.urb) /\ \A p \in 1 .. Len(q) : u.urb[q[p]] \in Results
    BY <2>2 DEF q
  <2>4. Len(q) \in Nat /\ \A p \in 1 .. Len(q) : q[p] \in DOMAIN u.urb
    BY <2>3
  <2>5. Len(q) = 0
    BY <2>1, <2>3, <2>4
  <2>6. q = <<>>
    BY <2>3, <2>5
  <2>7. QED
    BY <2>6 DEF q
<1>6. Yields(t, u, e)
  BY <1>1, <1>2 DEF Yields
<1>7. QED
  BY <1>4, <1>5, <1>6

\* Others are still with the kernel.
LEMMA GoOnSound ==
  ASSUME NEW x \in Transfers, NEW t, NEW r, NEW l, NEW d, NEW w,
         Sound(x, t, r, l, d, w), NEW i, NEW v, OneLess(t, r, i, v),
         NEW s \in Fates, NEW a \in Actions,
         GoesOn(v, Tail(r), a, s), t.kind # "control",
         NEW u, With(v, a, s, v.urbs, u)
  PROVE  Sound(x, u, Tail(r), l, d, w) /\ Yields(t, u, "none")
<1>1. /\ v \in TransferSet(x) /\ v.kind = t.kind /\ v.inFlight = t.inFlight
      /\ v.handled = t.handled /\ v.deadline = t.deadline
      /\ Mirrors(v, Tail(r)) /\ Counted(NumUrbs[x], v, l, d) /\ Reason(v, l, w)
  BY ReapedIs
<1>2. /\ u \in TransferSet(x) /\ u.urb = v.urb /\ u.urbs = v.urbs /\ u.status = s
      /\ u.action = a /\ u.retired = v.retired
      /\ u.kind = v.kind /\ u.inFlight = v.inFlight /\ u.cancelling = v.cancelling
      /\ u.handled = v.handled /\ u.timedOut = v.timedOut /\ u.deadline = v.deadline
      /\ u.seen = v.seen /\ u.asked = v.asked
  <2>1. s \in Statuses /\ v.urbs \in BOOLEAN
    BY <1>1 DEF Statuses, TransferSet
  <2>2. QED
    BY <1>1, <2>1, WithIs
<1>3. Held(u) = Held(v) /\ Queued(u) = Queued(v) /\ Left(u) = Left(v)
  BY <1>2 DEF Held, Queued, Left
<1> DEFINE q == Tail(r)
<1>4. Mirrors(u, q) /\ (CutOff(v, q) => CutOff(u, q))
  <2> HIDE DEF q
  <2>1. (Mirrors(v, q) => Mirrors(u, q)) /\ (CutOff(v, q) => CutOff(u, q))
    BY <1>2, <1>3 DEF Mirrors, CutOff
  <2>2. QED
    BY <1>1, <2>1 DEF q
<1>5. Counted(NumUrbs[x], u, l, d)
  BY <1>1, <1>2, <1>3 DEF Counted, GoesOn
<1>6. Reason(u, l, w)
  BY <1>1, <1>2 DEF Reason, GoesOn
<1>7. Whole(u, Tail(r))
  BY <1>1, <1>2, <1>3, <1>4 DEF Whole, GoesOn, Stalled
<1>8. Yields(t, u, "none")
  BY <1>1, <1>2 DEF Yields
<1>9. QED
  BY <1>2, <1>4, <1>5, <1>6, <1>7, <1>8 DEF Sound
\* The same, of an outcome: what is discarded is nothing that is still queued.
Good(x, t, r, l, d, w, c) ==
  /\ Sound(x, c.t, Tail(r), l, d, w) /\ Yields(t, c.t, c.result)
  /\ c.discard \in BOOLEAN /\ (c.discard => Queued(c.t) = {})

LEMMA FinishedGood ==
  ASSUME NEW x \in Transfers, NEW t, NEW r, NEW l, NEW d, NEW w,
         Sound(x, t, r, l, d, w), NEW i, NEW v, OneLess(t, r, i, v),
         v.retired = NumUrbs[x],
         NEW s \in Fates, NEW a \in Actions,
         a = "CANCELLED" => v.action = "CANCELLED",
         NEW e, e \in Fates \cup {"cancellation"},
         e = "cancellation" => a = "CANCELLED",
         e = "COMPLETED" /\ t.kind # "iso" => Lossless(v.seen)
  PROVE  Good(x, t, r, l, d, w, Finished([v EXCEPT !.action = a, !.status = s], e))
<1> DEFINE c == Finished([v EXCEPT !.action = a, !.status = s], e)
<1>1. v \in TransferSet(x)
  BY ReapedIs
<1>2. c.t = [[v EXCEPT !.action = a, !.status = s] EXCEPT !.urbs = FALSE] /\ c.discard = FALSE
      /\ c.result = e
  BY DEF Finished, Outcome
<1> HIDE DEF c
<1>3. PICK b \in BOOLEAN : ~b /\ With(v, a, s, b, c.t)
  <2>1. c.t = [v EXCEPT !.action = a, !.status = s, !.urbs = FALSE]
    BY <1>1, <1>2 DEF TransferSet
  <2>2. QED
    BY <2>1 DEF With
<1>4. Sound(x, c.t, Tail(r), l, d, w) /\ Yields(t, c.t, e)
  BY <1>3, FinishSound
<1>5. QED
  BY <1>2, <1>4 DEF Good, c

LEMMA OutcomeGood ==
  ASSUME NEW x \in Transfers, NEW t, NEW r, NEW l, NEW d, NEW w,
         Sound(x, t, r, l, d, w), NEW i, NEW v, OneLess(t, r, i, v),
         NEW s \in Fates, NEW a \in Actions,
         GoesOn(v, Tail(r), a, s), t.kind # "control",
         NEW f \in BOOLEAN, f => Queued(v) = {}
  PROVE  Good(x, t, r, l, d, w, Outcome([v EXCEPT !.action = a, !.status = s], f, "none"))
<1> DEFINE c == Outcome([v EXCEPT !.action = a, !.status = s], f, "none")
<1>1. v \in TransferSet(x)
  BY ReapedIs
<1>2. c.t = [v EXCEPT !.action = a, !.status = s] /\ c.discard = f /\ c.result = "none"
  BY DEF Outcome
<1> HIDE DEF c
<1>3. With(v, a, s, v.urbs, c.t) /\ Queued(c.t) = Queued(v)
  <2> DEFINE u == [v EXCEPT !.action = a, !.status = s]
  <2>1. u = [v EXCEPT !.action = a, !.status = s, !.urbs = v.urbs] /\ u.urb = v.urb
    BY <1>1 DEF TransferSet
  <2> HIDE DEF u
  <2>2. c.t = u
    BY <1>2 DEF u
  <2>3. QED
    BY <2>1, <2>2 DEF With, Queued
<1>4. Sound(x, c.t, Tail(r), l, d, w) /\ Yields(t, c.t, "none")
  BY <1>3, GoOnSound
<1>5. QED
  BY <1>2, <1>3, <1>4 DEF Good, c

\* One that is only counted.
LEMMA CountedGood ==
  ASSUME NEW x \in Transfers, NEW t, NEW r, NEW l, NEW d, NEW w,
         Sound(x, t, r, l, d, w), NEW i, NEW v, OneLess(t, r, i, v),
         v.status \in Fates, GoesOn(v, Tail(r), v.action, v.status), t.kind # "control"
  PROVE  Good(x, t, r, l, d, w, Outcome(v, FALSE, "none"))
<1>1. v \in TransferSet(x)
  BY ReapedIs
<1>2. v = [v EXCEPT !.action = v.action, !.status = v.status]
  BY <1>1 DEF TransferSet
<1>3. PICK a \in Actions, s \in Fates, f \in BOOLEAN : a = v.action /\ s = v.status /\ f = FALSE
  BY <1>1 DEF TransferSet
<1>4. GoesOn(v, Tail(r), a, s) /\ (f => Queued(v) = {})
  BY <1>3
<1>5. Good(x, t, r, l, d, w, Outcome([v EXCEPT !.action = a, !.status = s], f, "none"))
  BY <1>4, OutcomeGood
<1>6. QED
  BY <1>2, <1>3, <1>5

LEMMA ReapedOne ==
  ASSUME NEW x \in Transfers, NEW r, r # <<>>
  PROVE  OneLess(xfer[x], r, Head(r), Reaped(x, Head(r)))
BY DEF OneLess, Reaped

LEMMA BulkGood ==
  ASSUME NEW x \in Transfers, NEW r, NEW l, NEW d, NEW w, Sound(x, xfer[x], r, l, d, w),
         r # <<>>, xfer[x].kind = "bulk"
  PROVE  Good(x, xfer[x], r, l, d, w, BulkCompletion(x, Head(r)))
<1> DEFINE t == xfer[x]
           i == Head(r)
           v == Reaped(x, i)
           n == NumUrbs[x]
           p == t.urb[i]
           last == v.retired = n
           failed == IF v.action # "COMPLETED_EARLY" /\ v.status = "COMPLETED"
                     THEN "ERROR" ELSE v.status
           next == CASE p = "gone"  -> [v EXCEPT !.status = "NO_DEVICE"]
                     [] p = "error" -> AfterError(v)
                     [] p = "stall" -> Blamed(v, "STALL")
                     [] p = "overflow" -> Blamed(v, "OVERFLOW")
                     [] p \in {"short", "cancelled"} /\ ~last
                                    -> [v EXCEPT !.action = "COMPLETED_EARLY"]
                     [] OTHER       -> v
           c == BulkCompletion(x, i)
           na == IF p = "error" THEN "ERROR"
                 ELSE IF p \in {"short", "cancelled"} /\ ~last THEN "COMPLETED_EARLY"
                 ELSE v.action
           ns == IF p = "gone" THEN "NO_DEVICE"
                 ELSE IF v.status # "COMPLETED" THEN v.status
                 ELSE CASE p = "error" -> "ERROR" [] p = "stall" -> "STALL"
                        [] p = "overflow" -> "OVERFLOW" [] OTHER -> "COMPLETED"
           more == [v EXCEPT !.action = na, !.status = ns]
<1>1. OneLess(t, r, i, v)
  BY ReapedOne
<1>2. /\ v.action # "NORMAL" /\ last =>
            c = Finished([v EXCEPT !.status = failed], Final(v, failed))
      /\ v.action # "NORMAL" /\ ~last => c = Outcome(v, FALSE, "none")
      /\ v.action = "NORMAL" /\ last => c = Finished(next, next.status)
      /\ v.action = "NORMAL" /\ ~last /\ p # "overflow" => c = Outcome(next, p # "ok", "none")
  BY DEF BulkCompletion
<1> HIDE DEF c
<1>3. AfterError(v) = [v EXCEPT !.action = "ERROR",
                                !.status = IF v.status = "COMPLETED" THEN "ERROR" ELSE v.status]
  <2>1. v \in TransferSet(x)
    BY <1>1, ReapedIs
  <2> HIDE DEF v
  <2>2. QED
    BY <2>1 DEF AfterError, TransferSet
<1>b. ASSUME NEW b
      PROVE  Blamed(v, b) = [v EXCEPT !.status = IF v.status = "COMPLETED" THEN b ELSE v.status]
  <2>1. v \in TransferSet(x)
    BY <1>1, ReapedIs
  <2> HIDE DEF v
  <2>2. QED
    BY <2>1 DEF Blamed, TransferSet
<1> HIDE DEF t, i, v
<1>4. /\ t \in TransferSet(x) /\ t.kind = "bulk" /\ Whole(t, r) /\ Sound(x, t, r, l, d, w)
  BY DEF Sound, t
<1>5. /\ v \in TransferSet(x) /\ v.kind = t.kind /\ v.action = t.action /\ v.status = t.status
      /\ v.seen = t.seen \cup {p} /\ t.urbs /\ p \in Left(t) /\ p \in Results
      /\ Left(v) \subseteq Left(t) /\ Queued(v) = Queued(t) /\ Counted(n, v, l, d) /\ v.urbs
      /\ d # "forgotten" /\ (last <=> Held(v) = {})
  BY <1>1, <1>4, ReapedIs
<1>6. /\ v.status \in Fates /\ v.action \in Actions
      /\ failed \in Fates
      /\ na \in Actions /\ ns \in Fates
  BY <1>4, <1>5 DEF Whole, Actions, TransferSet
<1>7. /\ v = [v EXCEPT !.action = v.action, !.status = v.status]
      /\ [v EXCEPT !.status = failed] = [v EXCEPT !.action = v.action, !.status = failed]
  <2> HIDE DEF failed
  <2>1. QED
    BY <1>5 DEF TransferSet
<1>8. next = more
  <2>1. CASE p = "gone"
    BY <1>5, <2>1 DEF TransferSet
  <2>2. CASE p = "error"
    BY <1>3, <1>5, <2>2 DEF TransferSet
  <2>3. CASE p \in {"short", "cancelled"} /\ ~last
    BY <1>5, <2>3 DEF TransferSet
  <2>4. CASE p = "stall"
    <3>1. next = [v EXCEPT !.status = ns]
      BY <1>b, <2>4
    <3> HIDE DEF next, ns
    <3>2. QED
      BY <1>5, <2>4, <3>1 DEF TransferSet
  <2>5. CASE p = "overflow"
    <3>1. next = [v EXCEPT !.status = ns]
      BY <1>b, <2>5
    <3> HIDE DEF next, ns
    <3>2. QED
      BY <1>5, <2>5, <3>1 DEF TransferSet
  <2>6. CASE p \notin {"gone", "error", "stall", "overflow"} /\ ~(p \in {"short", "cancelled"} /\ ~last)
    BY <1>5, <1>7, <2>6
  <2>7. QED
    BY <2>1, <2>2, <2>3, <2>4, <2>5, <2>6
<1> HIDE DEF next
<1>9. ASSUME v.action # "NORMAL", last  PROVE  Good(x, t, r, l, d, w, c)
  <2>1. Final(v, failed) = "cancellation" => v.action = "CANCELLED"
    BY <1>6 DEF Final
  <2>2. ASSUME Final(v, failed) = "COMPLETED"  PROVE  Lossless(v.seen)
    <3>1. v.status = "COMPLETED" /\ v.action = "COMPLETED_EARLY"
      BY <2>2 DEF Final
    <3>2. QED
      BY <1>4, <1>5, <3>1 DEF Whole, Lossless
  <2>3. Final(v, failed) \in Fates \cup {"cancellation"}
    BY <1>6 DEF Final
  <2> DEFINE e == Final(v, failed)
  <2> HIDE DEF e, failed
  <2>4. Good(x, t, r, l, d, w, Finished([v EXCEPT !.action = v.action, !.status = failed], e))
    BY <1>1, <1>4, <1>6, <1>9, <2>1, <2>2, <2>3, FinishedGood DEF e
  <2>5. QED
    BY <1>2, <1>7, <1>9, <2>4 DEF e
<1>10. ASSUME v.action # "NORMAL", ~last  PROVE  Good(x, t, r, l, d, w, c)
  <2>1. GoesOn(v, Tail(r), v.action, v.status)
    BY <1>4, <1>5, <1>10 DEF Whole, Lossless, GoesOn
  <2>2. Good(x, t, r, l, d, w, Outcome(v, FALSE, "none"))
    BY <1>1, <1>4, <1>6, <2>1, CountedGood
  <2>3. QED
    BY <1>2, <1>10, <2>2
<1>11. ASSUME v.action = "NORMAL", ~Stalled(t)
       PROVE  /\ CutOff(t, r) /\ (v.status = "COMPLETED" => t.seen \subseteq {"ok"})
              /\ p \in {"ok", "overflow", "gone"} \cup Breaks
              /\ p \in Breaks => Queued(v) = {} /\ Left(v) \subseteq {"cancelled"}
              /\ p \notin Breaks => CutOff(v, Tail(r))
              /\ p = "gone" => Queued(v) = {}
              /\ p = "overflow" => last
  <2>1. CutOff(t, r) /\ (v.status = "COMPLETED" => t.seen \subseteq {"ok"})
    BY <1>4, <1>5, <1>11 DEF Whole
  <2>2. /\ p # "cancelled"
        /\ p = "overflow" => Held(v) = {}
        /\ p \in Breaks => Queued(v) = {} /\ Left(v) \subseteq {"cancelled"}
        /\ p \notin Breaks => CutOff(v, Tail(r))
    BY <1>1, <1>4, <2>1, CutOffLess
  <2>3. p = "gone" => Queued(v) = {}
    <3>1. PICK j \in DOMAIN t.urb : t.urb[j] = p
      BY <1>5 DEF Left, Held
    <3>2. QED
      BY <1>4, <1>5, <3>1 DEF Sound, Counted
  <2>4. QED
    BY <1>5, <2>1, <2>2, <2>3 DEF Results
<1>s. ASSUME Stalled(t)
      PROVE  /\ v.status # "COMPLETED" /\ p = "cancelled"
             /\ Queued(v) = {} /\ Left(v) \subseteq {"cancelled"}
  BY <1>5, <1>s DEF Stalled, Counted
<1>o. v.action = "NORMAL" /\ p = "overflow" => last
  BY <1>11, <1>s
<1>12. ASSUME v.action = "NORMAL", last  PROVE  Good(x, t, r, l, d, w, c)
  <2>1. more.status = ns
    <3> HIDE DEF na, ns
    <3>1. QED
      BY <1>5 DEF TransferSet
  <2>2. na # "CANCELLED"
    BY <1>12
  <2>3. ns = "COMPLETED" => Lossless(v.seen)
    <3>1. ns = "COMPLETED" => v.status = "COMPLETED" /\ p \notin {"gone", "error", "stall", "overflow"}
      OBVIOUS
    <3>2. QED
      BY <1>5, <1>11, <1>12, <1>s, <3>1 DEF Lossless
  <2> HIDE DEF na, ns
  <2>4. Good(x, t, r, l, d, w, Finished(more, ns))
    BY <1>1, <1>4, <1>6, <1>12, <2>2, <2>3, FinishedGood
  <2>5. QED
    BY <1>2, <1>8, <1>12, <2>1, <2>4
<1>13. ASSUME v.action = "NORMAL", ~last  PROVE  Good(x, t, r, l, d, w, c)
  <2>0. p # "overflow"
    BY <1>13, <1>o
  <2>1. na # v.action => na \in {"COMPLETED_EARLY", "ERROR"} /\ Queued(v) = {}
    BY <1>11, <1>13, <1>s, <2>0
  <2>s. ns # v.status => Queued(v) = {}
    BY <1>11, <1>13, <1>s, <2>0
  <2>2. na = "NORMAL" =>
          \/ ns # "COMPLETED" /\ Left(v) \subseteq {"cancelled"}
          \/ CutOff(v, Tail(r)) /\ (ns = "COMPLETED" => v.seen \subseteq {"ok"})
    BY <1>5, <1>11, <1>13, <1>s, <2>0
  <2>3. na = "COMPLETED_EARLY" /\ ns = "COMPLETED" =>
           /\ Left(v) \subseteq {"ok", "short", "cancelled"} /\ Lossless(v.seen)
           /\ "short" \in v.seen \/ "cancelled" \notin Left(v)
    BY <1>5, <1>11, <1>13, <1>s DEF Lossless
  <2>4. PICK f \in BOOLEAN : f = (p # "ok")
    OBVIOUS
  <2>5. f => Queued(v) = {}
    BY <1>11, <1>13, <1>s, <2>0, <2>4
  <2>a. na \in Actions /\ ns \in Fates
    BY <1>6
  <2> HIDE DEF na, ns
  <2>g. GoesOn(v, Tail(r), na, ns)
    BY <2>1, <2>2, <2>3, <2>s DEF GoesOn
  <2>6. Good(x, t, r, l, d, w, Outcome(more, f, "none"))
    BY <1>1, <1>4, <2>5, <2>a, <2>g, OutcomeGood
  <2>7. QED
    BY <1>2, <1>8, <1>13, <2>0, <2>4, <2>6
<1>14. QED
  BY <1>9, <1>10, <1>12, <1>13 DEF t, i, c

LEMMA IsoGood ==
  ASSUME NEW x \in Transfers, NEW r, NEW l, NEW d, NEW w, Sound(x, xfer[x], r, l, d, w),
         r # <<>>, xfer[x].kind = "iso"
  PROVE  Good(x, xfer[x], r, l, d, w, IsoCompletion(x, Head(r)))
<1> DEFINE t == xfer[x]
           i == Head(r)
           v == Reaped(x, i)
           p == t.urb[i]
           status == CASE p = "gone" -> "NO_DEVICE" [] p = "error" -> "ERROR"
                       [] OTHER -> "COMPLETED"
           e == Final(v, IF v.action = "NORMAL" THEN status ELSE "ERROR")
           c == IsoCompletion(x, i)
<1>1. OneLess(t, r, i, v)
  BY ReapedOne
<1>2. /\ v.retired < NumUrbs[x] => c = Outcome(v, FALSE, "none")
      /\ ~(v.retired < NumUrbs[x]) => c = Finished(v, e)
  BY DEF IsoCompletion
<1> HIDE DEF c, t, i, v
<1>3. t.kind = "iso" /\ Whole(t, r) /\ Sound(x, t, r, l, d, w)
  BY DEF Sound, t
<1>4. v \in TransferSet(x) /\ v.kind = t.kind /\ v.action = t.action /\ v.status = t.status
  BY <1>1, <1>3, ReapedIs
<1>5. v.status \in Fates /\ v.action \in Actions
  BY <1>3, <1>4 DEF Whole, TransferSet
<1>6. v = [v EXCEPT !.action = v.action, !.status = v.status]
  BY <1>4 DEF TransferSet
<1>7. CASE v.retired < NumUrbs[x]
  <2>0. GoesOn(v, Tail(r), v.action, v.status)
    BY <1>3, <1>4 DEF GoesOn
  <2>1. Good(x, t, r, l, d, w, Outcome(v, FALSE, "none"))
    BY <1>1, <1>3, <1>5, <2>0, CountedGood
  <2>2. QED
    BY <1>2, <1>7, <2>1 DEF t, i, c
<1>8. CASE ~(v.retired < NumUrbs[x])
  <2>1. v.retired = NumUrbs[x]
    BY <1>4, <1>8 DEF TransferSet
  <2>2. /\ e \in Fates \cup {"cancellation"}
        /\ e = "cancellation" => v.action = "CANCELLED"
    BY DEF Final
  <2> HIDE DEF e
  <2>3. Good(x, t, r, l, d, w, Finished([v EXCEPT !.action = v.action, !.status = v.status], e))
    BY <1>1, <1>3, <1>5, <2>1, <2>2, FinishedGood
  <2>4. QED
    BY <1>2, <1>6, <1>8, <2>3 DEF t, i, c
<1>9. QED
  BY <1>7, <1>8

LEMMA ControlGood ==
  ASSUME NEW x \in Transfers, NEW r, NEW l, NEW d, NEW w, Sound(x, xfer[x], r, l, d, w),
         r # <<>>, xfer[x].kind = "control"
  PROVE  Good(x, xfer[x], r, l, d, w, ControlCompletion(x, Head(r)))
<1> DEFINE t == xfer[x]
           i == Head(r)
           v == Reaped(x, i)
           p == t.urb[i]
           status == CASE p = "gone" -> "NO_DEVICE" [] p = "error" -> "ERROR"
                       [] p = "stall" -> "STALL" [] p = "overflow" -> "OVERFLOW"
                       [] p = "cancelled" -> "CANCELLED" [] OTHER -> "COMPLETED"
           e == Final(v, status)
           c == ControlCompletion(x, i)
<1>1. OneLess(t, r, i, v)
  BY ReapedOne
<1>2. c = Finished(v, e)
  BY DEF ControlCompletion
<1> HIDE DEF c, t, i, v
<1>3. /\ t.kind = "control" /\ Whole(t, r) /\ Sound(x, t, r, l, d, w) /\ t \in TransferSet(x)
      /\ NumUrbs[x] = 1
  <2>1. t.kind = "control" /\ Whole(t, r) /\ Sound(x, t, r, l, d, w) /\ t \in TransferSet(x)
    BY DEF Sound, t
  <2>2. QED
    BY <2>1 DEF TransferSet
<1>4. /\ v \in TransferSet(x) /\ v.kind = t.kind /\ v.action = t.action /\ v.status = t.status
      /\ v.seen = t.seen \cup {p} /\ t.urbs /\ p \in Left(t) /\ p \in Results
      /\ v.retired = t.retired + 1
  BY <1>1, <1>3, ReapedIs
<1>5. v.status \in Fates /\ v.action \in Actions
  BY <1>3, <1>4 DEF Whole, TransferSet
<1>6. v = [v EXCEPT !.action = v.action, !.status = v.status]
  BY <1>4 DEF TransferSet
<1>7. v.retired = NumUrbs[x]
  <2>1. t.retired \in 0 .. 1 /\ v.retired \in 0 .. 1
    BY <1>3, <1>4 DEF TransferSet
  <2>2. QED
    BY <1>3, <1>4, <2>1
<1>8. t.seen = {} /\ (p = "cancelled" => v.action = "CANCELLED")
  BY <1>3, <1>4 DEF Whole
<1>9. /\ e \in Fates \cup {"cancellation"}
      /\ e = "cancellation" => v.action = "CANCELLED"
      /\ e = "COMPLETED" => Lossless(v.seen)
  BY <1>4, <1>8 DEF Final, Lossless, Results
<1> HIDE DEF e
<1>10. Good(x, t, r, l, d, w, Finished([v EXCEPT !.action = v.action, !.status = v.status], e))
  BY <1>1, <1>3, <1>5, <1>7, <1>9, FinishedGood
<1>11. QED
  BY <1>2, <1>6, <1>10 DEF t, i, c

\* One URB is reaped; the URBs behind it, if they are discarded, are not queued.
LEMMA ReapSound ==
  ASSUME NEW x \in Transfers, NEW r, NEW l, NEW d, NEW w, Sound(x, xfer[x], r, l, d, w),
         r # <<>>, NEW m, NEW n
  PROVE  LET i == Head(r)
             c == Completion(x, i)
             u == IF c.discard THEN Discarded(c.t, i + 1, n, m) ELSE c.t
             q == Tail(r) \o IF c.discard THEN GivenBack(c.t, i + 1, n) ELSE <<>>
         IN  Sound(x, u, q, l, d, w) /\ Yields(xfer[x], u, c.result)
<1> DEFINE i == Head(r)
           c == Completion(x, i)
           u == IF c.discard THEN Discarded(c.t, i + 1, n, m) ELSE c.t
           q == Tail(r) \o IF c.discard THEN GivenBack(c.t, i + 1, n) ELSE <<>>
<1>1. Good(x, xfer[x], r, l, d, w, c)
  <2>1. xfer[x].kind \in {"bulk", "iso", "control"}
    BY DEF Sound, TransferSet
  <2>2. CASE xfer[x].kind = "bulk"
    BY <2>2, BulkGood DEF Completion
  <2>3. CASE xfer[x].kind = "iso"
    BY <2>3, IsoGood DEF Completion
  <2>4. CASE xfer[x].kind = "control"
    BY <2>4, ControlGood DEF Completion
  <2>5. QED
    BY <2>1, <2>2, <2>3, <2>4
<1> HIDE DEF c, i
<1>2. /\ Sound(x, c.t, Tail(r), l, d, w) /\ Yields(xfer[x], c.t, c.result)
      /\ c.discard \in BOOLEAN /\ (c.discard => Queued(c.t) = {})
  BY <1>1 DEF Good
<1>3. u = c.t
  <2>1. c.t \in TransferSet(x)
    BY <1>2 DEF Sound
  <2>2. c.discard => Discarded(c.t, i + 1, n, m) = c.t
    BY <1>2, <2>1, Discards
  <2>3. QED
    BY <1>2, <2>2
<1>4. q = Tail(r)
  <2>1. c.discard => GivenBack(c.t, i + 1, n) = SetToSeq({})
    BY <1>2 DEF GivenBack, Hit
  <2>2. Tail(r) \in Seq(DOMAIN c.t.urb)
    BY <1>2 DEF Sound, Mirrors
  <2>3. Tail(r) \o SetToSeq({}) = Tail(r) /\ Tail(r) \o <<>> = Tail(r)
    BY <2>2, NothingMore
  <2>4. QED
    BY <1>2, <2>1, <2>3
<1>5. QED
  BY <1>2, <1>3, <1>4 DEF c, i
(****************************************************************************)
(* What the steps leave of the invariant.                                   *)
(****************************************************************************)

\* The bounds of what is not a transfer.
Bounds ==
  /\ flying \in Seq(Transfers) /\ armed \in 0 .. MaxTime
  /\ gone \in BOOLEAN /\ reapAfter \in BOOLEAN /\ event \in EventSet
  /\ fdRemoved \in BOOLEAN /\ closed \in BOOLEAN
  /\ submits \in 0 .. MaxSubmits /\ now \in 0 .. MaxTime

LEMMA SoundTyped ==
  ASSUME NEW x \in Transfers, NEW t, NEW r, NEW l, NEW d, NEW w, Sound(x, t, r, l, d, w)
  PROVE  t \in TransferSet(x) /\ r \in Seq(Urbs(x)) /\ r \in Seq(Nat)
<1>1. t \in TransferSet(x) /\ r \in Seq(DOMAIN t.urb)
  BY DEF Sound, Mirrors
<1>2. DOMAIN t.urb = Urbs(x) /\ Urbs(x) \subseteq Nat
  BY <1>1, UrbSets
<1>3. QED
  BY <1>1, <1>2, SeqMonotonic

\* A step of one transfer.
Becomes(y, t, r, l) ==
  /\ xfer' = [xfer EXCEPT ![y] = t] /\ reapable' = [reapable EXCEPT ![y] = r]
  /\ lock' = [lock EXCEPT ![y] = l] /\ l \in {"free", "held", "failed"}
  /\ UNCHANGED <<gone, reapAfter, now>>

LEMMA OneSound ==
  ASSUME TypeOK, AllSound, NEW y \in Transfers, NEW t, NEW r, NEW l, Becomes(y, t, r, l),
         Sound(y, t, r, l, Device, now), Bounds'
  PROVE  /\ TypeOK' /\ AllSound' /\ xfer'[y] = t /\ lock'[y] = l /\ reapable'[y] = r
         /\ \A x \in Transfers : x # y =>
              xfer'[x] = xfer[x] /\ lock'[x] = lock[x] /\ reapable'[x] = reapable[x]
<1>1. /\ xfer'[y] = t /\ lock'[y] = l /\ reapable'[y] = r
      /\ \A x \in Transfers : x # y =>
           xfer'[x] = xfer[x] /\ lock'[x] = lock[x] /\ reapable'[x] = reapable[x]
      /\ DOMAIN xfer' = Transfers /\ lock' \in [Transfers -> {"free", "held", "failed"}]
  BY DEF TypeOK, Becomes
<1>2. Device' = Device /\ now' = now
  BY DEF Device, Becomes
<1>3. AllSound'
  BY <1>1, <1>2 DEF AllSound
<1>4. r \in Seq(Nat)
  BY SoundTyped
<1>5. reapable' \in [Transfers -> Seq(Nat)]
  BY <1>4 DEF TypeOK, Becomes
<1>6. \A x \in Transfers : xfer'[x] \in TransferSet(x) /\ reapable'[x] \in Seq(Urbs(x))
  BY <1>3, SoundTyped DEF AllSound
<1>7. TypeOK'
  BY <1>1, <1>5, <1>6 DEF TypeOK, Bounds
<1>8. QED
  BY <1>1, <1>3, <1>7

\* A step that touches the records of no transfer.
LEMMA SameSound ==
  ASSUME TypeOK, AllSound, UNCHANGED <<xfer, reapable, lock, gone, reapAfter, now>>, Bounds'
  PROVE  TypeOK' /\ AllSound'
<1>1. AllSound'
  BY DEF AllSound, Device
<1>2. TypeOK'
  BY DEF TypeOK, Bounds
<1>3. QED
  BY <1>1, <1>2

\* The event thread does nothing, and its transfer stays as it is.
LEMMA EndingKept ==
  ASSUME Ending, UNCHANGED <<event, closed>>, gone => gone',
         closed => \A x \in Transfers : lock'[x] = "free",
         event.pc \in Ends =>
           /\ lock'[event.x] = lock[event.x]
           /\ xfer'[event.x].kind = xfer[event.x].kind
           /\ xfer'[event.x].urbs = xfer[event.x].urbs
           /\ xfer'[event.x].inFlight = xfer[event.x].inFlight
           /\ xfer'[event.x].action = xfer[event.x].action
           /\ xfer'[event.x].seen = xfer[event.x].seen
           /\ xfer'[event.x].asked = xfer[event.x].asked
           /\ xfer'[event.x].timedOut = xfer[event.x].timedOut
  PROVE  Ending'
BY DEF Ending, Ends

\* The list stays as it is, and so do the deadlines.
LEMMA OrderKept ==
  ASSUME flying \in Seq(Transfers), Distinct, Ordered, HeadArmed, UNCHANGED <<flying, armed>>,
         \A x \in Transfers : /\ xfer'[x].kind = xfer[x].kind
                              /\ xfer'[x].deadline = xfer[x].deadline
                              /\ xfer'[x].handled = xfer[x].handled
  PROVE  Distinct' /\ Ordered' /\ HeadArmed'
<1>1. \A n \in 1 .. Len(flying) : flying[n] \in Transfers
  OBVIOUS
<1>2. \A x \in Transfers : Timed(x)' = Timed(x)
  BY DEF Timed
<1>3. Distinct'
  BY DEF Distinct
<1>4. Ordered'
  BY <1>1, <1>2 DEF Ordered
<1>5. HeadArmed'
  BY <1>1, <1>2 DEF HeadArmed
<1>6. QED
  BY <1>3, <1>4, <1>5

LEMMA MembersKept ==
  ASSUME Members, UNCHANGED <<flying, closed, event>>,
         \A x \in Transfers : xfer'[x].inFlight = xfer[x].inFlight /\ lock'[x] = lock[x]
  PROVE  Members'
<1>1. \A x : Listed(x)' <=> Listed(x)
  BY DEF Listed
<1>2. QED
  BY <1>1 DEF Members
(****************************************************************************)
(* The steps of the kernel and of the application                           *)
(****************************************************************************)
LEMMA IInvIs ==
  ASSUME IInv
  PROVE  Bounds /\ \A x \in Transfers : Sound(x, xfer[x], reapable[x], lock[x], Device, now)
                                        /\ xfer[x] \in TransferSet(x)
BY DEF IInv, AllSound, TypeOK, Bounds

LEMMA UrbCompletesKeeps ==
  ASSUME IInv, NEW x \in Transfers, NEW c \in Results, UrbCompletes(x, c)
  PROVE  IInv'
<1> DEFINE q    == Queued(xfer[x])
           i    == Min(q)
           rest == IF xfer[x].kind = "bulk" /\ c # "ok" THEN q \ {i} ELSE {}
           f    == [j \in Urbs(x) |-> IF j = i THEN c
                                      ELSE IF j \in rest THEN "cancelled" ELSE xfer[x].urb[j]]
           t    == [xfer[x] EXCEPT !.urb = f]
           r    == Append(reapable[x], i) \o SetToSeq(rest)
<1>1. /\ Bounds /\ xfer[x] \in TransferSet(x)
      /\ Sound(x, xfer[x], reapable[x], lock[x], Device, now)
  BY IInvIs
<1>2. /\ q # {} /\ UNCHANGED <<lock, flying, armed, gone, reapAfter, event, fdRemoved, closed,
                               submits, now>>
      /\ c \in {"ok", "overflow"} \cup Breaks /\ (c = "short" => xfer[x].kind = "bulk")
      /\ c = "overflow" => i = NumUrbs[x]
  BY DEF UrbCompletes, EndsShort, FailsWith
<1>3. Becomes(x, t, r, lock[x])
  BY DEF UrbCompletes, IInv, TypeOK, Becomes
<1>4. i \in q /\ \A j \in q : i <= j
  <2>1. q \in SUBSET Nat
    BY <1>1, UrbSets DEF Urbs
  <2>2. QED
    BY <1>2, <2>1, MinIs
<1>5. Sound(x, t, r, lock[x], Device, now)
  <2> HIDE DEF i
  <2>1. QED
    BY <1>1, <1>2, <1>4, CompleteSound
<1>6. /\ t.kind = xfer[x].kind /\ t.urbs = xfer[x].urbs /\ t.inFlight = xfer[x].inFlight
      /\ t.action = xfer[x].action /\ t.seen = xfer[x].seen /\ t.asked = xfer[x].asked
      /\ t.timedOut = xfer[x].timedOut /\ t.deadline = xfer[x].deadline
      /\ t.handled = xfer[x].handled
  <2> HIDE DEF f
  <2>1. QED
    BY <1>1 DEF TransferSet
<1> HIDE DEF t, r
<1>7. Bounds'
  BY <1>1, <1>2 DEF Bounds
<1>8. /\ TypeOK' /\ AllSound' /\ xfer'[x] = t
      /\ \A y \in Transfers : y # x => xfer'[y] = xfer[y]
  BY <1>3, <1>5, <1>7, OneSound DEF IInv
<1>9. QED
  BY <1>2, <1>6, <1>8, EndingKept, OrderKept, MembersKept DEF IInv, TypeOK, Ending
LEMMA DeviceGoneKeeps ==
  ASSUME IInv, DeviceGone
  PROVE  IInv'
<1>1. /\ Bounds /\ gone' = TRUE
      /\ UNCHANGED <<lock, flying, armed, reapAfter, event, fdRemoved, closed, submits, now>>
      /\ ~gone
  BY IInvIs DEF DeviceGone
<1>2. Device = "present" /\ Device' = IF reapAfter THEN "gone" ELSE "forgotten"
  BY <1>1 DEF Device
<1>3. DOMAIN xfer' = Transfers /\ DOMAIN reapable' = Transfers
      /\ reapable' = [x \in Transfers |-> reapable'[x]]
  BY DEF DeviceGone
<1>4. ASSUME NEW x \in Transfers
      PROVE  /\ Sound(x, xfer'[x], reapable'[x], lock[x], Device', now)
             /\ xfer'[x].kind = xfer[x].kind /\ xfer'[x].urbs = xfer[x].urbs
             /\ xfer'[x].inFlight = xfer[x].inFlight /\ xfer'[x].action = xfer[x].action
             /\ xfer'[x].seen = xfer[x].seen /\ xfer'[x].asked = xfer[x].asked
             /\ xfer'[x].timedOut = xfer[x].timedOut /\ xfer'[x].deadline = xfer[x].deadline
             /\ xfer'[x].handled = xfer[x].handled
  <2>1. Sound(x, xfer[x], reapable[x], lock[x], "present", now) /\ xfer[x] \in TransferSet(x)
    BY <1>2, IInvIs
  <2> DEFINE f == [i \in Urbs(x) |-> IF ~reapAfter THEN "none"
                     ELSE IF xfer[x].urb[i] = "queued" THEN "gone" ELSE xfer[x].urb[i]]
             t == [xfer[x] EXCEPT !.urb = f]
  <2>2. xfer'[x] = t
    BY DEF DeviceGone
  <2>3. /\ t.kind = xfer[x].kind /\ t.urbs = xfer[x].urbs /\ t.inFlight = xfer[x].inFlight
        /\ t.action = xfer[x].action /\ t.seen = xfer[x].seen /\ t.asked = xfer[x].asked
        /\ t.timedOut = xfer[x].timedOut /\ t.deadline = xfer[x].deadline
        /\ t.handled = xfer[x].handled
    <3> HIDE DEF f
    <3>1. QED
      BY <2>1 DEF TransferSet
  <2>4. Sound(x, t, reapable'[x], lock[x], Device', now)
    <3>1. CASE reapAfter
      <4> DEFINE g == [i \in Urbs(x) |-> IF xfer[x].urb[i] = "queued" THEN "gone"
                                         ELSE xfer[x].urb[i]]
      <4>1. f = g
        BY <3>1
      <4>2. reapable'[x] = reapable[x] \o SetToSeq(Queued(xfer[x])) /\ Device' = "gone"
        BY <1>2, <3>1 DEF DeviceGone
      <4>3. Sound(x, [xfer[x] EXCEPT !.urb = g], reapable[x] \o SetToSeq(Queued(xfer[x])),
                  lock[x], "gone", now)
        BY <2>1, GoneSound
      <4> HIDE DEF f, g
      <4>4. QED
        BY <4>1, <4>2, <4>3
    <3>2. CASE ~reapAfter
      <4> DEFINE g == [i \in Urbs(x) |-> "none"]
      <4>1. f = g
        BY <3>2
      <4>2. reapable'[x] = <<>> /\ Device' = "forgotten"
        BY <1>2, <3>2 DEF DeviceGone
      <4>3. Sound(x, [xfer[x] EXCEPT !.urb = g], <<>>, lock[x], "forgotten", now)
        BY <2>1, ForgottenSound
      <4> HIDE DEF f, g
      <4>4. QED
        BY <4>1, <4>2, <4>3
    <3>3. QED
      BY <3>1, <3>2
  <2> HIDE DEF t
  <2>5. QED
    BY <2>2, <2>3, <2>4
<1>5. AllSound'
  BY <1>1, <1>4 DEF AllSound
<1>6. TypeOK'
  <2>1. \A x \in Transfers : /\ xfer'[x] \in TransferSet(x)
                             /\ reapable'[x] \in Seq(Urbs(x)) /\ reapable'[x] \in Seq(Nat)
    BY <1>4, SoundTyped
  <2>2. reapable' \in [Transfers -> Seq(Nat)]
    BY <1>3, <2>1
  <2>3. lock' \in [Transfers -> {"free", "held", "failed"}]
    BY <1>1 DEF IInv, TypeOK
  <2>4. QED
    BY <1>1, <1>3, <2>1, <2>2, <2>3 DEF TypeOK, Bounds
<1>7. QED
  BY <1>1, <1>4, <1>5, <1>6, EndingKept, OrderKept, MembersKept DEF IInv, TypeOK, Ending

\* The invariant of a transfer is none of time but of a deadline that has passed.
LEMMA LaterSound ==
  ASSUME NEW x \in Transfers, NEW t, NEW r, NEW l, NEW d, NEW v \in Nat, NEW w \in Nat, v <= w,
         Sound(x, t, r, l, d, v)
  PROVE  Sound(x, t, r, l, d, w)
<1>1. t.deadline \in Nat
  BY DEF Sound, TransferSet
<1>2. Reason(t, l, v) => Reason(t, l, w)
  BY <1>1 DEF Reason
<1>3. QED
  BY <1>2 DEF Sound

LEMMA TimePassesKeeps ==
  ASSUME IInv, TimePasses
  PROVE  IInv'
<1> DEFINE later == {xfer[x].deadline : x \in Range(flying)}
           ahead == {d \in {armed} \cup later : d > now}
<1>1. /\ Bounds /\ UNCHANGED <<xfer, lock, flying, armed, reapable, gone, reapAfter, event,
                               fdRemoved, closed, submits>>
      /\ ahead # {} /\ now' = Min(ahead)
  BY IInvIs DEF TimePasses
<1>2. \A d \in ahead : d \in 0 .. MaxTime /\ d > now
  <2>1. \A x \in Range(flying) : xfer[x].deadline \in 0 .. MaxTime
    <3>1. \A x \in Range(flying) : x \in Transfers
      BY <1>1 DEF Range, Bounds
    <3>2. QED
      BY <3>1, IInvIs DEF TransferSet
  <2>2. QED
    BY <1>1, <2>1 DEF Bounds
<1> HIDE DEF ahead
<1>3. now' \in ahead
  BY <1>1, <1>2, ahead \in SUBSET Nat, MinIs
<1>4. now \in Nat /\ now' \in 0 .. MaxTime /\ now <= now'
  BY <1>1, <1>2, <1>3 DEF Bounds
<1>5. AllSound'
  <2>1. Device' = Device
    BY <1>1 DEF Device
  <2>2. PICK w \in Nat : w = now'
    BY <1>4
  <2>3. \A x \in Transfers : Sound(x, xfer[x], reapable[x], lock[x], Device, w)
    BY <1>4, <2>2, IInvIs, LaterSound
  <2>4. QED
    BY <1>1, <2>1, <2>2, <2>3 DEF AllSound
<1>6. TypeOK'
  BY <1>1, <1>4 DEF IInv, TypeOK
<1>7. QED
  BY <1>1, <1>5, <1>6, EndingKept, OrderKept, MembersKept DEF IInv, TypeOK, Ending
\* A cancellation, by the application or by a timeout.
Asks(x, m, u)  == u = [Cancelled(x, m) EXCEPT !.asked = Succeeds(x)]
Times(x, m, u) == u = [Cancelled(x, m) EXCEPT !.handled = TRUE, !.timedOut = Succeeds(x)]

Same(t, u) ==
  /\ u.kind = t.kind /\ u.urbs = t.urbs /\ u.inFlight = t.inFlight
  /\ u.deadline = t.deadline /\ u.seen = t.seen
  /\ ~t.urbs => u.action = t.action /\ u.asked = t.asked /\ u.timedOut = t.timedOut

LEMMA CancelledIs ==
  ASSUME IInv, NEW x \in Transfers, Cancellable(x), NEW m, NEW u,
         Asks(x, m, u) \/ (Times(x, m, u) /\ xfer[x].kind # "control" /\ xfer[x].deadline <= now)
  PROVE  /\ Sound(x, u, reapable[x] \o Ended(x), lock[x], Device, now)
         /\ Same(xfer[x], u)
         /\ Asks(x, m, u) => u.handled = xfer[x].handled
         /\ Times(x, m, u) => u.handled = TRUE
<1> DEFINE t == xfer[x]
           n == NumUrbs[x]
           v == IF t.urbs THEN Discarded(t, 1, n, m) ELSE t
           s == Succeeds(x)
           a == IF s /\ ~(t.kind = "bulk" /\ v.action = "ERROR") THEN "CANCELLED" ELSE v.action
           c == Cancelled(x, m)
<1>1. /\ Sound(x, t, reapable[x], lock[x], Device, now) /\ t \in TransferSet(x)
      /\ t.inFlight /\ ~t.cancelling
  BY IInvIs DEF Cancellable
<1>2. c = [v EXCEPT !.cancelling = TRUE, !.action = a]
  BY DEF Cancelled
<1>3. /\ s <=> t.urbs /\ Success(t, n)
      /\ s \in BOOLEAN
      /\ Ended(x) = IF t.urbs THEN GivenBack(t, 1, n) ELSE <<>>
  BY DEF Succeeds, Success, Ended
<1>4. v \in TransferSet(x) /\ Besides(t, v)
  <2>1. CASE t.urbs
    BY <1>1, <2>1, Discards
  <2>2. CASE ~t.urbs
    BY <1>1, <2>2 DEF Besides
  <2>3. QED
    BY <2>1, <2>2
<1>5. a \in Actions
  BY <1>4 DEF TransferSet, Actions
<1>6. ~t.asked /\ ~t.timedOut
  BY <1>1 DEF Sound, Reason
<1> HIDE DEF c, v, a
<1>7. /\ c \in TransferSet(x) /\ c.urb = v.urb /\ c.kind = v.kind /\ c.urbs = v.urbs
      /\ c.retired = v.retired /\ c.status = v.status /\ c.inFlight = v.inFlight
      /\ c.seen = v.seen /\ c.cancelling = TRUE /\ c.action = a /\ c.deadline = v.deadline
      /\ c.handled = v.handled /\ c.asked = v.asked /\ c.timedOut = v.timedOut
  BY <1>2, <1>4, <1>5 DEF TransferSet
<1> HIDE DEF s
<1>8. /\ u \in TransferSet(x) /\ u.urb = c.urb /\ u.kind = c.kind /\ u.urbs = c.urbs
      /\ u.retired = c.retired /\ u.status = c.status /\ u.inFlight = c.inFlight
      /\ u.seen = c.seen /\ u.cancelling = c.cancelling /\ u.action = c.action
      /\ u.deadline = c.deadline
      /\ Asks(x, m, u) => u.handled = c.handled /\ u.asked = s /\ u.timedOut = c.timedOut
      /\ Times(x, m, u) => u.handled = TRUE /\ u.timedOut = s /\ u.asked = c.asked
  <2>1. CASE Asks(x, m, u)
    <3>1. u = [c EXCEPT !.asked = s]
      BY <2>1 DEF Asks, c, s
    <3>2. Times(x, m, u) => u = [c EXCEPT !.handled = TRUE, !.timedOut = s]
      BY DEF Times, c, s
    <3>3. QED
      BY <1>3, <1>7, <3>1, <3>2 DEF TransferSet
  <2>2. CASE Times(x, m, u)
    <3>1. u = [c EXCEPT !.handled = TRUE, !.timedOut = s]
      BY <2>2 DEF Times, c, s
    <3>2. Asks(x, m, u) => u = [c EXCEPT !.asked = s]
      BY DEF Asks, c, s
    <3>3. QED
      BY <1>3, <1>7, <3>1, <3>2 DEF TransferSet
  <2>3. QED
    BY <2>1, <2>2
<1>9. /\ u.urb = v.urb /\ u.kind = t.kind /\ u.urbs = t.urbs /\ u.retired = t.retired
      /\ u.status = t.status /\ u.inFlight = t.inFlight /\ u.seen = t.seen
      /\ u.cancelling = TRUE /\ u.deadline = t.deadline
      /\ u.action = IF s /\ ~(t.kind = "bulk" /\ t.action = "ERROR") THEN "CANCELLED"
                    ELSE t.action
      /\ Asks(x, m, u) => u.handled = t.handled
      /\ s <=> u.asked \/ u.timedOut
      /\ ~(u.asked /\ u.timedOut)
      /\ u.timedOut => u.kind # "control" /\ u.deadline <= now
  BY <1>3, <1>4, <1>6, <1>7, <1>8 DEF Besides, a
<1>10. Sound(x, u, reapable[x] \o (IF t.urbs THEN GivenBack(t, 1, n) ELSE <<>>), lock[x],
             Device, now)
  <2>1. Cancels(x, t, m, now, u)
    BY <1>1, <1>3, <1>8, <1>9 DEF Cancels, v
  <2>2. QED
    BY <1>1, <2>1, CancelSound
<1>11. Sound(x, u, reapable[x] \o Ended(x), lock[x], Device, now)
  BY <1>3, <1>10
<1>12. ~t.urbs => u.action = t.action /\ u.asked = t.asked /\ u.timedOut = t.timedOut
  <2>1. /\ u.asked \in BOOLEAN /\ u.timedOut \in BOOLEAN
        /\ t.asked \in BOOLEAN /\ t.timedOut \in BOOLEAN
    BY <1>1, <1>8 DEF TransferSet
  <2>2. QED
    BY <1>3, <1>6, <1>9, <2>1
<1>13. QED
  BY <1>8, <1>9, <1>11, <1>12 DEF Same

LEMMA CancelTransferKeeps ==
  ASSUME IInv, NEW x \in Transfers, NEW m, CancelTransfer(x, m)
  PROVE  IInv'
<1> DEFINE u == [Cancelled(x, m) EXCEPT !.asked = Succeeds(x)]
           r == reapable[x] \o Ended(x)
<1>1. /\ Bounds /\ Cancellable(x)
      /\ UNCHANGED <<lock, flying, armed, gone, reapAfter, event, fdRemoved, closed, submits, now>>
  BY IInvIs DEF CancelTransfer
<1>2. Becomes(x, u, r, lock[x])
  BY DEF CancelTransfer, Becomes, IInv, TypeOK
<1>3. Asks(x, m, u)
  BY DEF Asks
<1> HIDE DEF u, r
<1>4. /\ Sound(x, u, r, lock[x], Device, now)
      /\ u.kind = xfer[x].kind /\ u.urbs = xfer[x].urbs /\ u.inFlight = xfer[x].inFlight
      /\ u.deadline = xfer[x].deadline /\ u.seen = xfer[x].seen /\ u.handled = xfer[x].handled
      /\ ~xfer[x].urbs => /\ u.action = xfer[x].action /\ u.asked = xfer[x].asked
                          /\ u.timedOut = xfer[x].timedOut
  <2>1. r = reapable[x] \o Ended(x)
    BY DEF r
  <2>2. Sound(x, u, reapable[x] \o Ended(x), lock[x], Device, now)
    BY <1>1, <1>3, CancelledIs
  <2>3. Same(xfer[x], u)
    BY <1>1, <1>3, CancelledIs
  <2>4. u.handled = xfer[x].handled
    BY <1>1, <1>3, CancelledIs
  <2>5. QED
    BY <2>1, <2>2, <2>3, <2>4 DEF Same
<1>5. Bounds'
  BY <1>1 DEF Bounds
<1>6. /\ TypeOK' /\ AllSound' /\ xfer'[x] = u
      /\ \A y \in Transfers : y # x => xfer'[y] = xfer[y]
  BY <1>2, <1>4, <1>5, OneSound DEF IInv
<1>7. QED
  BY <1>1, <1>4, <1>6, EndingKept, OrderKept, MembersKept DEF IInv, TypeOK, Ending
\* A submission that reaches the kernel.
LEMMA StartedKeeps ==
  ASSUME IInv, NEW x \in Transfers, lock[x] = "held", ~gone, NEW u, NEW r,
         Becomes(x, u, r, "free"), Started(xfer[x], u), u.handled = xfer[x].handled,
         Sound(x, u, r, "free", "present", now),
         UNCHANGED <<flying, armed, event, fdRemoved, closed, submits>>
  PROVE  IInv'
<1>1. Device = "present" /\ UNCHANGED <<gone, reapAfter, now>>
  BY DEF Device, Becomes
<1>2. Bounds'
  <2>1. Bounds
    BY IInvIs
  <2>2. QED
    BY <1>1, <2>1 DEF Bounds
<1>3. /\ TypeOK' /\ AllSound' /\ xfer'[x] = u /\ lock'[x] = "free"
      /\ \A y \in Transfers : y # x => xfer'[y] = xfer[y] /\ lock'[y] = lock[y]
  BY <1>1, <1>2, OneSound DEF IInv
<1>4. u.kind = xfer[x].kind /\ u.deadline = xfer[x].deadline /\ u.inFlight
  BY DEF Started
<1>5. Ending /\ ~closed
  BY DEF IInv, Ending
<1>6. Ending'
  BY <1>1, <1>3, <1>5, EndingKept DEF Ending, Ends
<1>7. Distinct' /\ Ordered' /\ HeadArmed'
  BY <1>3, <1>4, OrderKept DEF IInv, TypeOK
<1>8. Members'
  <2>1. \A y : Listed(y)' <=> Listed(y)
    BY DEF Listed
  <2>2. QED
    BY <1>3, <1>4, <2>1 DEF IInv, Members
<1>9. QED
  BY <1>3, <1>6, <1>7, <1>8 DEF IInv

Makes(x, f, a, n, u) == u = [Fresh(x) EXCEPT !.urb = f, !.action = a, !.retired = n]

LEMMA FreshIs ==
  ASSUME IInv, NEW x \in Transfers, NEW f \in [Urbs(x) -> {"none", "queued"} \cup Results],
         NEW a \in Actions, NEW n \in 0 .. NumUrbs[x], NEW u, Makes(x, f, a, n, u)
  PROVE  /\ u \in TransferSet(x) /\ Started(xfer[x], u) /\ u.handled = xfer[x].handled
         /\ u.urb = f /\ u.action = a /\ u.retired = n
<1>1. xfer[x] \in TransferSet(x)
  BY IInvIs
<1>2. QED
  BY <1>1 DEF Fresh, TransferSet, Started, Statuses, Makes

LEMMA SubmitUrbsKeeps ==
  ASSUME IInv, NEW x \in Transfers, SubmitUrbs(x)
  PROVE  IInv'
<1> DEFINE f == [i \in Urbs(x) |-> "queued"]
           u == [Fresh(x) EXCEPT !.urb = f]
           v == [Fresh(x) EXCEPT !.urb = f, !.action = "NORMAL", !.retired = 0]
<1>1. /\ lock[x] = "held" /\ ~gone
      /\ UNCHANGED <<flying, armed, reapable, gone, reapAfter, event, fdRemoved, closed,
                     submits, now>>
      /\ xfer[x] \in TransferSet(x) /\ Device = "present"
      /\ Sound(x, xfer[x], reapable[x], lock[x], "present", now)
  BY IInvIs DEF SubmitUrbs, Device
<1>2. u = v
  <2> HIDE DEF f
  <2>1. QED
    BY <1>1 DEF Fresh, TransferSet
<1>3. /\ v \in TransferSet(x) /\ Started(xfer[x], v) /\ v.handled = xfer[x].handled
      /\ v.urb = f /\ v.action = "NORMAL" /\ v.retired = 0
  <2>1. f \in [Urbs(x) -> {"none", "queued"} \cup Results]
    OBVIOUS
  <2>2. PICK a \in Actions, n \in 0 .. NumUrbs[x] : a = "NORMAL" /\ n = 0
    BY DEF Actions
  <2>3. Makes(x, f, a, n, v)
    BY <2>2 DEF Makes
  <2> HIDE DEF f, v
  <2>4. QED
    BY <2>1, <2>2, <2>3, FreshIs
<1>4. Becomes(x, u, reapable[x], "free")
  BY <1>1 DEF SubmitUrbs, Becomes, IInv, TypeOK
<1> HIDE DEF u, v
<1>5. Sound(x, v, reapable[x], "free", "present", now)
  BY <1>1, <1>3, SubmitSound
<1>6. QED
  BY <1>1, <1>2, <1>3, <1>4, <1>5, StartedKeeps
LEMMA SubmitFailsMidwayKeeps ==
  ASSUME IInv, NEW x \in Transfers, NEW k \in 1 .. NumUrbs[x] - 1, NEW m,
         SubmitFailsMidway(x, k, m)
  PROVE  IInv'
<1> DEFINE f == [i \in Urbs(x) |-> IF i <= k THEN "queued" ELSE "none"]
           t == [Fresh(x) EXCEPT !.urb = f, !.action = "SUBMIT_FAILED",
                                 !.retired = NumUrbs[x] - k]
           u == Discarded(t, 1, k, m)
           h == Hit(t, 1, k)
           r == reapable[x] \o GivenBack(t, 1, k)
<1>1. /\ lock[x] = "held" /\ ~gone
      /\ UNCHANGED <<flying, armed, gone, reapAfter, event, fdRemoved, closed, submits, now>>
      /\ xfer[x] \in TransferSet(x) /\ Device = "present"
      /\ Sound(x, xfer[x], reapable[x], lock[x], "present", now)
  BY IInvIs DEF SubmitFailsMidway, Device
<1>2. /\ NumUrbs[x] \in Nat \ {0} /\ Urbs(x) = 1 .. NumUrbs[x] /\ k \in Nat
      /\ NumUrbs[x] - k \in 0 .. NumUrbs[x]
  BY DEF Urbs
<1>3. Becomes(x, u, r, "free")
  BY <1>1 DEF SubmitFailsMidway, Becomes, IInv, TypeOK
<1> HIDE DEF u, r
<1>4. /\ t \in TransferSet(x) /\ Started(xfer[x], t) /\ t.handled = xfer[x].handled
      /\ t.urb = f /\ t.action = "SUBMIT_FAILED" /\ t.retired = NumUrbs[x] - k
  <2>1. f \in [Urbs(x) -> {"none", "queued"} \cup Results]
    OBVIOUS
  <2>2. PICK a \in Actions, n \in 0 .. NumUrbs[x] :
          a = "SUBMIT_FAILED" /\ n = NumUrbs[x] - k
    BY <1>2 DEF Actions
  <2>3. Makes(x, f, a, n, t)
    BY <2>2 DEF Makes
  <2> HIDE DEF f, t
  <2>4. QED
    BY <2>1, <2>2, <2>3, FreshIs
<1> HIDE DEF t
<1>5. /\ \A i \in Urbs(x) : t.urb[i] = IF i <= k THEN "queued" ELSE "none"
      /\ DOMAIN t.urb = Urbs(x) /\ Queued(t) = 1 .. k /\ h = 1 .. k
  BY <1>2, <1>4 DEF Queued, Hit
<1>6. /\ u \in TransferSet(x) /\ Besides(t, u) /\ IsFiniteSet(h) /\ Completes(t, u, h)
      /\ \A i \in h : u.urb[i] \in {"ok", "cancelled"}
  BY <1>4, Discards DEF u
<1>7. Mirrors(u, r)
  <2>1. reapable[x] = <<>>
    BY <1>1, StartedIs
  <2>2. Mirrors(t, reapable[x])
    BY <1>5, <2>1 DEF Mirrors, Results
  <2>3. r = reapable[x] \o SetToSeq(h)
    BY DEF r, GivenBack
  <2>4. QED
    BY <1>6, <2>2, <2>3, MirrorsSet
<1>8. \A i \in Urbs(x) : u.urb[i] \in IF i <= k THEN {"ok", "short", "cancelled"} ELSE {"none"}
  BY <1>2, <1>5, <1>6 DEF Completes
<1>9. /\ Started(xfer[x], u) /\ u.handled = xfer[x].handled /\ u.action = "SUBMIT_FAILED"
      /\ u.retired = NumUrbs[x] - k
  BY <1>4, <1>6 DEF Started, Besides
<1>10. Sound(x, u, r, "free", "present", now)
  BY <1>1, <1>6, <1>7, <1>8, <1>9, PartlySubmittedSound
<1>11. QED
  BY <1>1, <1>3, <1>9, <1>10, StartedKeeps

LEMMA SubmitCompletesEarlyKeeps ==
  ASSUME IInv, NEW x \in Transfers, NEW k \in 1 .. NumUrbs[x] - 1, SubmitCompletesEarly(x, k)
  PROVE  IInv'
<1> DEFINE f == [i \in Urbs(x) |-> IF i < k THEN "ok" ELSE IF i = k THEN "short" ELSE "none"]
           u == [Fresh(x) EXCEPT !.urb = f, !.action = "COMPLETED_EARLY",
                                 !.retired = NumUrbs[x] - k]
           s == [i \in 1 .. k |-> i]
           r == reapable[x] \o s
<1>1. /\ lock[x] = "held" /\ ~gone
      /\ UNCHANGED <<flying, armed, gone, reapAfter, event, fdRemoved, closed, submits, now>>
      /\ xfer[x] \in TransferSet(x) /\ Device = "present"
      /\ Sound(x, xfer[x], reapable[x], lock[x], "present", now)
  BY IInvIs DEF SubmitCompletesEarly, Device
<1>2. /\ NumUrbs[x] \in Nat \ {0} /\ Urbs(x) = 1 .. NumUrbs[x] /\ k \in Nat
      /\ NumUrbs[x] - k \in 0 .. NumUrbs[x]
  BY DEF Urbs
<1>3. Becomes(x, u, r, "free")
  BY <1>1 DEF SubmitCompletesEarly, Becomes, IInv, TypeOK
<1>4. Enumerates(s, 1 .. k)
  <2>1. s \in Seq(1 .. k) /\ Len(s) = k
    BY <1>2
  <2>2. QED
    BY <2>1 DEF Enumerates
<1> HIDE DEF s
<1>5. /\ u \in TransferSet(x) /\ Started(xfer[x], u) /\ u.handled = xfer[x].handled
      /\ u.urb = f /\ u.action = "COMPLETED_EARLY" /\ u.retired = NumUrbs[x] - k
  <2>1. f \in [Urbs(x) -> {"none", "queued"} \cup Results]
    BY DEF Results
  <2>2. PICK a \in Actions, n \in 0 .. NumUrbs[x] :
          a = "COMPLETED_EARLY" /\ n = NumUrbs[x] - k
    BY <1>2 DEF Actions
  <2>3. Makes(x, f, a, n, u)
    BY <2>2 DEF Makes
  <2> HIDE DEF f, u
  <2>4. QED
    BY <2>1, <2>2, <2>3, FreshIs
<1> HIDE DEF u
<1>6. \A i \in Urbs(x) : u.urb[i] \in IF i <= k THEN {"ok", "short"} ELSE {"none"}
  BY <1>2, <1>5
<1>7. Mirrors(u, r)
  <2>1. DOMAIN xfer[x].urb = Urbs(x) /\ \A i \in Urbs(x) : xfer[x].urb[i] = "none"
    BY <1>1, StartedIs
  <2>2. Completes(xfer[x], u, 1 .. k)
    <3>1. DOMAIN u.urb = Urbs(x) /\ 1 .. k \subseteq Urbs(x)
      BY <1>2, <1>5
    <3>2. \A i \in 1 .. k : u.urb[i] \in {"ok", "short"}
      BY <1>6, <3>1
    <3>3. \A i \in Urbs(x) : i \notin 1 .. k => u.urb[i] = "none"
      BY <1>2, <1>6
    <3>4. QED
      BY <2>1, <3>1, <3>2, <3>3 DEF Completes, Results
  <2>3. Mirrors(xfer[x], reapable[x])
    BY <1>1 DEF Sound
  <2>4. QED
    BY <1>4, <2>2, <2>3, MirrorsMore
<1>8. Sound(x, u, r, "free", "present", now)
  <2>1. \A i \in Urbs(x) : u.urb[i] \in IF i <= k THEN {"ok", "short", "cancelled"} ELSE {"none"}
    BY <1>6
  <2>2. \A i \in Urbs(x) : u.urb[i] # "cancelled"
    BY <1>6
  <2>3. QED
    BY <1>1, <1>5, <1>7, <2>1, <2>2, PartlySubmittedSound
<1>9. QED
  BY <1>1, <1>3, <1>5, <1>8, StartedKeeps
(****************************************************************************)
(* The list and the timer                                                   *)
(****************************************************************************)

\* A transfer is listed, with its deadline.
LEMMA AddKeeps ==
  ASSUME flying \in Seq(Transfers), armed \in Nat, Distinct, Ordered, HeadArmed,
         \A y \in Transfers : xfer[y].deadline \in Nat,
         NEW x \in Transfers, ~Listed(x), NEW d \in Nat, Timed(x) => d >= 1,
         AddToFlyingList(x, d),
         \A y \in Transfers : xfer'[y].kind = xfer[y].kind,
         \A y \in Transfers : y # x => xfer'[y].deadline = xfer[y].deadline
                                       /\ xfer'[y].handled = xfer[y].handled,
         xfer'[x].deadline = d
  PROVE  /\ flying' \in Seq(Transfers) /\ armed' \in {armed, d}
         /\ Distinct' /\ Ordered' /\ HeadArmed'
         /\ \A y \in Transfers : Listed(y)' <=> Listed(y) \/ y = x
<1> DEFINE later == {n \in DOMAIN flying : NotTimed(flying[n]) \/ xfer[flying[n]].deadline > d}
           place == IF Timed(x) THEN Min(later \cup {Len(flying) + 1}) ELSE Len(flying) + 1
<1>1. /\ flying' = InsertAt(flying, place, x)
      /\ armed' = IF Timed(x) /\ place = 1 THEN d ELSE armed
  BY DEF AddToFlyingList
<1>2. Len(flying) \in Nat /\ DOMAIN flying = 1 .. Len(flying)
      /\ \A n \in 1 .. Len(flying) : flying[n] \in Transfers
  OBVIOUS
<1>3. /\ place \in 1 .. Len(flying) + 1
      /\ Timed(x) => /\ \A n \in 1 .. Len(flying) : n < place =>
                          Timed(flying[n]) /\ xfer[flying[n]].deadline <= d
                     /\ place <= Len(flying) =>
                          ~Timed(flying[place]) \/ xfer[flying[place]].deadline > d
      /\ ~Timed(x) => place = Len(flying) + 1
  <2>1. CASE ~Timed(x)
    BY <1>2, <2>1
  <2>2. CASE Timed(x)
    <3> DEFINE S == later \cup {Len(flying) + 1}
    <3>1. S \in SUBSET Nat /\ S # {} /\ S \subseteq 1 .. Len(flying) + 1
      BY <1>2
    <3>2. place = Min(S)
      BY <2>2
    <3> HIDE DEF S, place
    <3>3. place \in S /\ \A n \in S : place <= n
      BY <3>1, <3>2, MinIs
    <3>4. ASSUME NEW n \in 1 .. Len(flying), n < place
          PROVE  Timed(flying[n]) /\ xfer[flying[n]].deadline <= d
      <4>1. n \notin later
        BY <1>2, <3>1, <3>3, <3>4 DEF S
      <4>2. QED
        BY <1>2, <4>1 DEF NotTimed
    <3>5. place <= Len(flying) => place \in later
      BY <1>2, <3>1, <3>3 DEF S
    <3>6. QED
      BY <2>2, <3>1, <3>3, <3>4, <3>5 DEF NotTimed
  <2>3. QED
    BY <2>1, <2>2
<1> HIDE DEF place, later
<1> DEFINE p == place
           L == Len(flying)
<1>4. /\ flying' \in Seq(Transfers) /\ Len(flying') = L + 1 /\ flying'[p] = x
      /\ \A n \in 1 .. L : n < p => flying'[n] = flying[n]
      /\ \A n \in 1 .. L : n >= p => flying'[n + 1] = flying[n]
  <2>1. flying \in Seq(Transfers) /\ place \in 1 .. Len(flying) + 1 /\ x \in Transfers
    BY <1>3
  <2>2. IsInserted(Transfers, flying, place, x, InsertAt(flying, place, x))
    BY <2>1, InsertAtIs
  <2>3. QED
    BY <1>1, <2>2 DEF IsInserted
<1> HIDE DEF p, L
<1>5. p \in 1 .. L + 1 /\ L \in Nat
  BY <1>2, <1>3 DEF p, L
<1>6. ASSUME NEW n \in 1 .. L + 1, n # p
      PROVE  \E k \in 1 .. L : /\ flying'[n] = flying[k]
                               /\ (k < p /\ n = k) \/ (k >= p /\ n = k + 1)
  <2>1. CASE n < p
    BY <1>4, <1>5, <2>1, n \in 1 .. L
  <2>2. CASE n > p
    <3>1. PICK k \in 1 .. L : n = k + 1
      BY <1>5, <2>2, n - 1 \in 1 .. L, n = (n - 1) + 1
    <3>2. k >= p
      BY <1>5, <2>2, <3>1
    <3>3. flying'[n] = flying[k]
      BY <1>4, <3>1, <3>2
    <3>4. QED
      BY <3>1, <3>2, <3>3
  <2>3. QED
    BY <1>5, <1>6, <2>1, <2>2
<1>7. \A k \in 1 .. L : flying[k] # x /\ flying[k] \in Transfers
  BY <1>2 DEF Listed, L
<1>8. \A y \in Transfers : Timed(y)' <=> Timed(y)
  BY DEF Timed
<1>9. \A y \in Transfers : Listed(y)' <=> Listed(y) \/ y = x
  <2>1. ASSUME NEW y \in Transfers, Listed(y)'  PROVE  Listed(y) \/ y = x
    <3>1. PICK n \in 1 .. L + 1 : flying'[n] = y
      BY <1>4, <2>1 DEF Listed
    <3>2. QED
      BY <1>4, <1>6, <3>1 DEF Listed, L
  <2>2. ASSUME NEW y \in Transfers, Listed(y)  PROVE  Listed(y)'
    <3>1. PICK n \in 1 .. L : flying[n] = y
      BY <2>2 DEF Listed, L
    <3>2. n \in 1 .. L + 1 /\ n + 1 \in 1 .. L + 1
      BY <1>5
    <3>3. QED
      BY <1>4, <1>5, <3>1, <3>2 DEF Listed
  <2>3. Listed(x)'
    BY <1>4, <1>5 DEF Listed
  <2>4. QED
    BY <2>1, <2>2, <2>3
<1>10. Distinct'
  <2>1. SUFFICES ASSUME NEW m \in 1 .. L + 1, NEW n \in 1 .. L + 1, flying'[m] = flying'[n]
                 PROVE  m = n
    BY <1>4 DEF Distinct
  <2>2. \A k \in 1 .. L + 1 : k # p => flying'[k] # x
    BY <1>6, <1>7
  <2>c. CASE m = p \/ n = p
    BY <1>4, <2>1, <2>2, <2>c
  <2>3. CASE m # p /\ n # p
    <3>1. PICK a \in 1 .. L : flying'[m] = flying[a] /\ ((a < p /\ m = a) \/ (a >= p /\ m = a + 1))
      BY <1>6, <2>3
    <3>2. PICK b \in 1 .. L : flying'[n] = flying[b] /\ ((b < p /\ n = b) \/ (b >= p /\ n = b + 1))
      BY <1>6, <2>3
    <3>3. a = b
      BY <2>1, <3>1, <3>2 DEF Distinct, L
    <3>4. QED
      BY <1>5, <3>1, <3>2, <3>3
  <2>4. QED
    BY <2>c, <2>3
<1>11. Ordered'
  <2>1. ASSUME NEW m \in 1 .. L + 1, NEW n \in 1 .. L + 1, m < n, Timed(flying'[n])
        PROVE  Timed(flying'[m]) /\ xfer'[flying'[m]].deadline <= xfer'[flying'[n]].deadline
    <3>1. CASE m # p /\ n # p
      <4>1. PICK a \in 1 .. L : flying'[m] = flying[a]
                                /\ ((a < p /\ m = a) \/ (a >= p /\ m = a + 1))
        BY <1>6, <3>1
      <4>2. PICK b \in 1 .. L : flying'[n] = flying[b]
                                /\ ((b < p /\ n = b) \/ (b >= p /\ n = b + 1))
        BY <1>6, <3>1
      <4>3. a < b
        BY <1>5, <2>1, <4>1, <4>2
      <4>4. QED
        BY <1>7, <2>1, <4>1, <4>2, <4>3 DEF Ordered, L
    <3>2. CASE n = p
      <4>1. m \in 1 .. L /\ m < p /\ flying'[m] = flying[m] /\ Timed(x)
        BY <1>4, <1>5, <2>1, <3>2
      <4>2. Timed(flying[m]) /\ xfer[flying[m]].deadline <= d
        BY <1>3, <4>1 DEF p, L
      <4>3. QED
        BY <1>4, <1>7, <3>2, <4>1, <4>2
    <3>3. CASE m = p /\ n # p
      <4>1. PICK b \in 1 .. L : flying'[n] = flying[b] /\ b >= p
        BY <1>5, <1>6, <2>1, <3>3
      <4>2. p <= L /\ p \in 1 .. L
        BY <1>5, <4>1
      <4>3. Timed(x)
        BY <1>3, <1>5, <4>2 DEF p, L
      <4>4. ~Timed(flying[p]) \/ xfer[flying[p]].deadline > d
        BY <1>3, <4>2, <4>3 DEF p, L
      <4>5. Timed(flying[p]) /\ xfer[flying[p]].deadline <= xfer[flying[b]].deadline
        <5>1. CASE p = b
          BY <1>7, <2>1, <4>1, <5>1
        <5>2. CASE p < b
          BY <2>1, <4>1, <4>2, <5>2 DEF Ordered, L
        <5>3. QED
          BY <1>5, <4>1, <5>1, <5>2
      <4>6. xfer[flying[b]].deadline \in Nat /\ xfer[flying[p]].deadline \in Nat
        BY <1>7, <4>1, <4>2
      <4>7. d <= xfer[flying[b]].deadline
        <5>1. xfer[flying[p]].deadline > d
          BY <4>4, <4>5, Zenon
        <5>2. QED
          BY <4>5, <4>6, <5>1
      <4>8. xfer'[flying[b]].deadline = xfer[flying[b]].deadline
        BY <1>7, <4>1
      <4>9. flying'[m] = x /\ xfer'[flying'[m]].deadline = d
        BY <1>4, <3>3
      <4>10. QED
        BY <4>1, <4>3, <4>7, <4>8, <4>9
    <3>4. QED
      BY <3>1, <3>2, <3>3
  <2>2. ASSUME NEW n \in 1 .. L + 1, Timed(flying'[n])  PROVE  xfer'[flying'[n]].deadline >= 1
    <3>1. CASE n = p
      BY <1>4, <2>2, <3>1
    <3>2. CASE n # p
      <4>1. PICK b \in 1 .. L : flying'[n] = flying[b]
        BY <1>6, <3>2
      <4>2. QED
        BY <1>7, <2>2, <4>1 DEF Ordered, L
    <3>3. QED
      BY <3>1, <3>2
  <2>3. \A n \in 1 .. L + 1 : flying'[n] \in Transfers
    BY <1>4, <1>5
  <2>4. QED
    BY <1>4, <1>8, <2>1, <2>2, <2>3 DEF Ordered
<1>12. HeadArmed'
  <2>1. SUFFICES ASSUME Timed(flying'[1]), ~xfer'[flying'[1]].handled
                 PROVE  armed' # 0 /\ armed' <= xfer'[flying'[1]].deadline
    <3>1. flying'[1] \in Transfers
      BY <1>4, <1>5
    <3>2. QED
      BY <1>8, <3>1 DEF HeadArmed
  <2>2. CASE p = 1
    <3>1. flying'[1] = x /\ armed' = d
      BY <1>1, <1>4, <2>1, <2>2 DEF p
    <3>2. QED
      BY <2>1, <3>1
  <2>3. CASE p # 1
    <3>1. 1 \in 1 .. L /\ flying'[1] = flying[1] /\ armed' = armed /\ flying # <<>>
      BY <1>1, <1>4, <1>5, <2>3 DEF p, L
    <3>2. QED
      BY <1>7, <2>1, <3>1 DEF HeadArmed
  <2>4. QED
    BY <2>2, <2>3
<1>13. QED
  BY <1>1, <1>4, <1>9, <1>10, <1>11, <1>12
\* The timer is set for the first transfer of the list, if it has a timeout
\* that has not been handled.
LEMMA NextDeadlineIs ==
  ASSUME NEW xf, NEW list \in Seq(Transfers),
         \A y \in Transfers : xf[y].deadline \in 0 .. MaxTime
  PROVE  /\ NextDeadline(xf, list) \in 0 .. MaxTime
         /\ list # <<>> /\ Timed(list[1]) /\ ~xf[list[1]].handled =>
              NextDeadline(xf, list) = xf[list[1]].deadline
<1> DEFINE W == Waiting(xf, list)
<1>1. /\ Len(list) \in Nat /\ DOMAIN list = 1 .. Len(list)
      /\ \A n \in 1 .. Len(list) : list[n] \in Transfers
      /\ list # <<>> => 1 \in 1 .. Len(list)
  OBVIOUS
<1>2. W \subseteq 1 .. Len(list) /\ W \in SUBSET Nat
  BY <1>1 DEF Waiting
<1>3. list # <<>> /\ Timed(list[1]) /\ ~xf[list[1]].handled => 1 \in W
  BY <1>1 DEF Waiting
<1> HIDE DEF W
<1>4. W # {} => Min(W) \in W /\ \A n \in W : Min(W) <= n
  BY <1>2, MinIs
<1>5. NextDeadline(xf, list) = IF W = {} THEN 0 ELSE xf[list[Min(W)]].deadline
  BY DEF NextDeadline, FirstWaiting, W
<1>6. W # {} => xf[list[Min(W)]].deadline \in 0 .. MaxTime
  BY <1>1, <1>2, <1>4
<1>7. 0 \in 0 .. MaxTime
  OBVIOUS
<1>8. ASSUME 1 \in W  PROVE  Min(W) = 1
  <2>1. Min(W) \in 1 .. Len(list) /\ Min(W) <= 1
    BY <1>2, <1>4, <1>8
  <2>2. QED
    BY <1>1, <2>1
<1>9. QED
  BY <1>3, <1>5, <1>6, <1>7, <1>8

\* A transfer is taken off the list.
LEMMA RemoveKeeps ==
  ASSUME flying \in Seq(Transfers), armed \in 0 .. MaxTime, Distinct, Ordered, HeadArmed,
         \A y \in Transfers : xfer[y].deadline \in 0 .. MaxTime,
         NEW x \in Transfers, Listed(x), RemoveFromFlyingList(x),
         \A y \in Transfers : xfer'[y].kind = xfer[y].kind,
         \A y \in Transfers : y # x => xfer'[y].deadline = xfer[y].deadline
                                       /\ xfer'[y].handled = xfer[y].handled
  PROVE  /\ flying' \in Seq(Transfers) /\ armed' \in 0 .. MaxTime
         /\ Distinct' /\ Ordered' /\ HeadArmed'
         /\ \A y \in Transfers : Listed(y)' <=> Listed(y) /\ y # x
<1> DEFINE p == CHOOSE n \in DOMAIN flying : flying[n] = x
           L == Len(flying)
<1>1. L \in Nat /\ DOMAIN flying = 1 .. L /\ \A n \in 1 .. L : flying[n] \in Transfers
  OBVIOUS
<1>2. p \in 1 .. L /\ flying[p] = x
  BY <1>1 DEF Listed
<1>3. flying' = RemoveAt(flying, p)
  BY DEF RemoveFromFlyingList, Without
<1>4. armed' = IF Timed(x) /\ flying[1] = x THEN NextDeadline(xfer, flying') ELSE armed
  BY <1>1, <1>2 DEF RemoveFromFlyingList
<1> HIDE DEF p
<1>5. IsRemoved(Transfers, flying, p, RemoveAt(flying, p))
  BY <1>2, RemoveAtIs
<1>6. /\ flying' \in Seq(Transfers) /\ Len(flying') = L - 1
      /\ \A n \in 1 .. L - 1 : n < p => flying'[n] = flying[n]
      /\ \A n \in 1 .. L - 1 : n >= p => flying'[n] = flying[n + 1]
  BY <1>3, <1>5 DEF IsRemoved
<1> HIDE DEF L
<1>7. \A n \in 1 .. L : flying[n] = x => n = p
  BY <1>2 DEF Distinct, L
<1>8. ASSUME NEW n \in 1 .. L - 1
      PROVE  \E k \in 1 .. L : /\ flying'[n] = flying[k] /\ flying[k] \in Transfers
                               /\ flying[k] # x
                               /\ (n < p /\ k = n) \/ (n >= p /\ k = n + 1)
  <2>1. CASE n < p
    <3>1. n \in 1 .. L /\ n # p
      BY <1>1, <1>2, <2>1
    <3>2. flying'[n] = flying[n] /\ flying[n] \in Transfers
      BY <1>1, <1>6, <2>1, <3>1
    <3>3. flying[n] # x
      BY <1>7, <3>1
    <3>4. QED
      BY <2>1, <3>1, <3>2, <3>3
  <2>2. CASE n >= p
    <3>1. PICK k \in 1 .. L : k = n + 1
      BY <1>1
    <3>2. flying'[n] = flying[k] /\ k # p
      BY <1>2, <1>6, <2>2, <3>1
    <3>3. QED
      BY <1>1, <1>7, <2>2, <3>1, <3>2
  <2>3. QED
    BY <1>1, <1>2, <2>1, <2>2
<1>9. \A y \in Transfers : Timed(y)' <=> Timed(y)
  BY DEF Timed
<1>10. \A y \in Transfers : Listed(y)' <=> Listed(y) /\ y # x
  <2>1. ASSUME NEW y \in Transfers, Listed(y)'  PROVE  Listed(y) /\ y # x
    <3>1. PICK n \in 1 .. L - 1 : flying'[n] = y
      BY <1>6, <2>1 DEF Listed
    <3>2. QED
      BY <1>8, <3>1 DEF Listed, L
  <2>2. ASSUME NEW y \in Transfers, Listed(y), y # x  PROVE  Listed(y)'
    <3>1. PICK k \in 1 .. L : flying[k] = y
      BY <2>2 DEF Listed, L
    <3>2. k # p
      BY <1>2, <2>2, <3>1
    <3>3. CASE k < p
      <4>1. k \in 1 .. L - 1 /\ flying'[k] = y
        BY <1>1, <1>2, <1>6, <3>1, <3>3
      <4>2. QED
        BY <1>6, <4>1 DEF Listed
    <3>4. CASE k > p
      <4>1. PICK n \in 1 .. L - 1 : k = n + 1
        BY <1>1, <1>2, <3>4, k - 1 \in 1 .. L - 1, k = (k - 1) + 1
      <4>2. flying'[n] = y
        BY <1>1, <1>2, <1>6, <3>1, <3>4, <4>1
      <4>3. QED
        BY <1>6, <4>1, <4>2 DEF Listed
    <3>5. QED
      BY <1>1, <1>2, <3>2, <3>3, <3>4
  <2>3. QED
    BY <2>1, <2>2
<1>11. Distinct'
  <2>1. SUFFICES ASSUME NEW m \in 1 .. L - 1, NEW n \in 1 .. L - 1, flying'[m] = flying'[n]
                 PROVE  m = n
    BY <1>6 DEF Distinct
  <2>2. PICK a \in 1 .. L : flying'[m] = flying[a] /\ ((m < p /\ a = m) \/ (m >= p /\ a = m + 1))
    BY <1>8
  <2>3. PICK b \in 1 .. L : flying'[n] = flying[b] /\ ((n < p /\ b = n) \/ (n >= p /\ b = n + 1))
    BY <1>8
  <2>4. a = b
    BY <2>1, <2>2, <2>3 DEF Distinct, L
  <2>5. QED
    BY <1>1, <1>2, <2>2, <2>3, <2>4
<1>12. Ordered'
  <2>1. ASSUME NEW m \in 1 .. L - 1, NEW n \in 1 .. L - 1, m < n, Timed(flying'[n])
        PROVE  Timed(flying'[m]) /\ xfer'[flying'[m]].deadline <= xfer'[flying'[n]].deadline
    <3>1. PICK a \in 1 .. L : /\ flying'[m] = flying[a] /\ flying[a] \in Transfers
                              /\ flying[a] # x
                              /\ (m < p /\ a = m) \/ (m >= p /\ a = m + 1)
      BY <1>8
    <3>2. PICK b \in 1 .. L : /\ flying'[n] = flying[b] /\ flying[b] \in Transfers
                              /\ flying[b] # x
                              /\ (n < p /\ b = n) \/ (n >= p /\ b = n + 1)
      BY <1>8
    <3>3. a < b
      BY <1>1, <1>2, <2>1, <3>1, <3>2
    <3>4. Timed(flying[a]) /\ xfer[flying[a]].deadline <= xfer[flying[b]].deadline
      BY <2>1, <3>2, <3>3 DEF Ordered, L
    <3>5. QED
      BY <3>1, <3>2, <3>4
  <2>2. ASSUME NEW n \in 1 .. L - 1, Timed(flying'[n])  PROVE  xfer'[flying'[n]].deadline >= 1
    <3>1. PICK b \in 1 .. L : flying'[n] = flying[b] /\ flying[b] \in Transfers /\ flying[b] # x
      BY <1>8
    <3>2. QED
      BY <2>2, <3>1 DEF Ordered, L
  <2>3. \A n \in 1 .. L - 1 : flying'[n] \in Transfers
    BY <1>8
  <2>4. QED
    BY <1>6, <1>9, <2>1, <2>2, <2>3 DEF Ordered
<1>13. /\ NextDeadline(xfer, flying') \in 0 .. MaxTime
       /\ flying' # <<>> /\ Timed(flying'[1]) /\ ~xfer[flying'[1]].handled =>
            NextDeadline(xfer, flying') = xfer[flying'[1]].deadline
  BY <1>6, NextDeadlineIs
<1>14. HeadArmed'
  <2>1. SUFFICES ASSUME flying' # <<>>, Timed(flying'[1]), ~xfer'[flying'[1]].handled
                 PROVE  armed' # 0 /\ armed' <= xfer'[flying'[1]].deadline
    <3>1. flying' # <<>> => flying'[1] \in Transfers
      BY <1>6
    <3>2. QED
      BY <1>9, <3>1 DEF HeadArmed
  <2>2. 1 \in 1 .. L - 1 /\ 1 \in 1 .. L /\ 2 \in 1 .. L
    BY <1>1, <1>6, <2>1
  <2>3. PICK k \in 1 .. L : /\ flying'[1] = flying[k] /\ flying[k] \in Transfers
                            /\ flying[k] # x
                            /\ (1 < p /\ k = 1) \/ (1 >= p /\ k = 2)
    BY <1>8, <2>2
  <2>4. xfer'[flying[k]].deadline = xfer[flying[k]].deadline
        /\ xfer'[flying[k]].handled = xfer[flying[k]].handled
    BY <2>3
  <2>5. CASE flying[1] = x
    <3>1. p = 1 /\ k = 2 /\ Timed(flying[2]) /\ flying'[1] = flying[2]
      BY <1>2, <1>7, <2>1, <2>2, <2>3, <2>5
    <3>2. Timed(x) /\ xfer[flying[2]].deadline >= 1
      <4>1. Timed(flying[1]) /\ xfer[flying[2]].deadline >= 1
        BY <2>2, <3>1 DEF Ordered, L
      <4>2. QED
        BY <2>5, <4>1
    <3>3. armed' = NextDeadline(xfer, flying')
      BY <1>4, <2>5, <3>2
    <3>4. NextDeadline(xfer, flying') = xfer[flying[k]].deadline
      BY <1>13, <2>1, <2>3, <2>4
    <3>5. xfer[flying[2]].deadline \in 0 .. MaxTime
      BY <2>3, <3>1
    <3>6. QED
      BY <2>3, <2>4, <3>1, <3>2, <3>3, <3>4, <3>5
  <2>6. CASE flying[1] # x
    <3>1. k = 1 /\ armed' = armed
      BY <1>2, <1>4, <2>2, <2>3, <2>6
    <3>2. flying # <<>> /\ Timed(flying[1]) /\ ~xfer[flying[1]].handled
      BY <2>1, <2>2, <2>3, <2>4, <3>1 DEF L
    <3>3. armed # 0 /\ armed <= xfer[flying[1]].deadline
      BY <3>2 DEF HeadArmed
    <3>4. QED
      BY <2>3, <2>4, <3>1, <3>3
  <2>7. QED
    BY <2>5, <2>6
<1>15. armed' \in 0 .. MaxTime
  BY <1>4, <1>13
<1>16. QED
  BY <1>6, <1>10, <1>11, <1>12, <1>14, <1>15
\* The list stays as it is, and so do the deadlines of those on it.
LEMMA ListKept ==
  ASSUME flying \in Seq(Transfers), Distinct, Ordered, HeadArmed, UNCHANGED <<flying, armed>>,
         \A x \in Transfers : Listed(x) => /\ xfer'[x].kind = xfer[x].kind
                                           /\ xfer'[x].deadline = xfer[x].deadline
                                           /\ xfer'[x].handled = xfer[x].handled
  PROVE  Distinct' /\ Ordered' /\ HeadArmed'
<1>1. /\ \A n \in 1 .. Len(flying) : flying[n] \in Transfers /\ Listed(flying[n])
      /\ flying # <<>> => 1 \in 1 .. Len(flying)
  BY DEF Listed
<1>2. \A n \in 1 .. Len(flying) : Timed(flying[n])' = Timed(flying[n])
  BY <1>1 DEF Timed
<1>3. Distinct'
  BY DEF Distinct
<1>4. Ordered'
  BY <1>1, <1>2, SMTT(30) DEF Ordered
<1>5. HeadArmed'
  BY <1>1, <1>2 DEF HeadArmed
<1>6. QED
  BY <1>3, <1>4, <1>5

\* A transfer that is not pending.
LEMMA IdleSound ==
  ASSUME NEW x \in Transfers, NEW k \in Kinds[x], NEW d, NEW w
  PROVE  Sound(x, Idle(x, k), <<>>, "free", d, w) /\ ~Idle(x, k).inFlight /\ Idle(x, k).kind = k
<1> DEFINE f == [i \in Urbs(x) |-> "none"]
           t == Idle(x, k)
<1>1. f \in [Urbs(x) -> {"none", "queued"} \cup Results]
  OBVIOUS
<1> HIDE DEF f
<1>2. t = [kind |-> k, urbs |-> FALSE, urb |-> f,
           retired |-> 0, action |-> "NORMAL", status |-> "COMPLETED",
           inFlight |-> FALSE, cancelling |-> FALSE, handled |-> FALSE, timedOut |-> FALSE,
           deadline |-> 0, seen |-> {}, asked |-> FALSE]
  BY DEF Idle, f
<1>3. NumUrbs[x] \in Nat /\ MaxTime \in Nat
  OBVIOUS
<1> HIDE DEF t
<1>4. t \in TransferSet(x)
  BY <1>1, <1>2, <1>3 DEF TransferSet, Actions, Statuses
<1>5. /\ ~t.urbs /\ t.urb = f /\ ~t.inFlight /\ t.status = "COMPLETED" /\ t.action = "NORMAL"
      /\ ~t.cancelling /\ ~t.timedOut /\ ~t.asked /\ t.kind = k
  BY <1>2
<1>6. Held(t) = {}
  BY <1>5 DEF Held, f
<1>7. PICK l : l = "free"
  OBVIOUS
<1>8. Reason(t, l, w)
  BY <1>5, <1>7 DEF Reason
<1>9. Sound(x, t, <<>>, l, d, w)
  BY <1>4, <1>5, <1>6, <1>8, NoUrbsSound
<1>10. QED
  BY <1>5, <1>7, <1>9 DEF t

(****************************************************************************)
(* The submission, up to the kernel and back                                *)
(****************************************************************************)
Enlists(x, d, u) ==
  u = [xfer[x] EXCEPT !.inFlight = FALSE, !.cancelling = FALSE, !.handled = FALSE,
                      !.timedOut = FALSE, !.deadline = d, !.seen = {}, !.asked = FALSE]

LEMMA EnlistsSound ==
  ASSUME IInv, NEW x \in Transfers, lock[x] = "free", ~xfer[x].inFlight,
         NEW d \in 0 .. MaxTime, NEW u, Enlists(x, d, u), NEW l, l # "free"
  PROVE  /\ Sound(x, u, reapable[x], l, Device, now)
         /\ ~u.inFlight /\ u.kind = xfer[x].kind /\ u.deadline = d
<1> DEFINE t == xfer[x]
<1>1. t \in TransferSet(x) /\ Sound(x, t, reapable[x], lock[x], Device, now)
  BY IInvIs
<1>2. ~t.urbs /\ t.status \in Fates
  BY <1>1 DEF Sound, Counted, Whole
<1>3. Held(t) = {} /\ reapable[x] = <<>>
  BY <1>1, <1>2, NoUrbs
<1>4. /\ u \in TransferSet(x) /\ u.urb = t.urb /\ u.urbs = t.urbs /\ u.kind = t.kind
      /\ u.status = t.status /\ u.action = t.action
      /\ u.inFlight = FALSE /\ u.cancelling = FALSE /\ u.timedOut = FALSE /\ u.asked = FALSE
      /\ u.seen = {} /\ u.deadline = d
  BY <1>1 DEF TransferSet, Enlists
<1> HIDE DEF t
<1>5. Held(u) = {}
  BY <1>3, <1>4 DEF Held
<1>6. Reason(u, l, now)
  BY <1>4 DEF Reason
<1>7. Sound(x, u, <<>>, l, Device, now)
  BY <1>2, <1>4, <1>5, <1>6, NoUrbsSound
<1>8. QED
  BY <1>3, <1>4, <1>7 DEF t
\* The transfer is on the list now, and its lock is held.
LEMMA EnlistKeeps ==
  ASSUME IInv, NEW x \in Transfers, lock[x] = "free", ~xfer[x].inFlight, ~closed,
         submits < MaxSubmits, Enlist(x), event' \in EventSet,
         event.pc = "clear" => event.x # x,
         event'.pc = "clear" <=> event.pc = "clear",
         event'.x = event.x,
         UNCHANGED <<reapable, gone, reapAfter, fdRemoved, closed, now>>
  PROVE  /\ TypeOK' /\ AllSound' /\ Distinct' /\ Ordered' /\ HeadArmed' /\ Members'
         /\ \A y \in Transfers : y # x => xfer'[y] = xfer[y] /\ lock'[y] = lock[y]
<1>1. PICK d \in Deadlines(x) :
        /\ xfer' = [xfer EXCEPT ![x] = [@ EXCEPT
             !.inFlight = FALSE, !.cancelling = FALSE, !.handled = FALSE, !.timedOut = FALSE,
             !.deadline = d, !.seen = {}, !.asked = FALSE]]
        /\ AddToFlyingList(x, d)
  BY DEF Enlist
<1>2. lock' = [lock EXCEPT ![x] = "held"] /\ submits' = submits + 1
  BY DEF Enlist
<1> DEFINE u == [xfer[x] EXCEPT !.inFlight = FALSE, !.cancelling = FALSE, !.handled = FALSE,
                      !.timedOut = FALSE, !.deadline = d, !.seen = {}, !.asked = FALSE]
<1>3. Bounds /\ MaxTime \in Nat /\ MaxSubmits \in Nat
      /\ \A y \in Transfers : xfer[y] \in TransferSet(y)
  BY IInvIs
<1>4. d \in 0 .. MaxTime /\ d \in Nat /\ (Timed(x) => d >= 1)
  BY <1>3 DEF Deadlines, Bounds
<1>5. xfer' = [xfer EXCEPT ![x] = u] /\ Enlists(x, d, u)
  BY <1>1 DEF Enlists
<1> HIDE DEF u
<1>6. PICK l : l = "held"
  OBVIOUS
<1>7. Sound(x, u, reapable[x], l, Device, now) /\ ~u.inFlight /\ u.kind = xfer[x].kind
      /\ u.deadline = d
  <2>1. l # "free" /\ lock[x] = "free" /\ ~xfer[x].inFlight
    BY <1>6
  <2>2. Enlists(x, d, u) /\ d \in 0 .. MaxTime
    BY <1>4, <1>5
  <2>3. Sound(x, u, reapable[x], l, Device, now)
    BY <2>1, <2>2, EnlistsSound
  <2>4. ~u.inFlight /\ u.kind = xfer[x].kind /\ u.deadline = d
    BY <2>1, <2>2, EnlistsSound
  <2>5. QED
    BY <2>3, <2>4
<1>8. Becomes(x, u, reapable[x], l)
  BY <1>2, <1>5, <1>6 DEF Becomes, IInv, TypeOK
<1>9. ~Listed(x)
  BY DEF IInv, Members
<1>10. \A y \in Transfers : xfer'[y] = IF y = x THEN u ELSE xfer[y]
  BY <1>5 DEF IInv, TypeOK
<1>11. /\ flying' \in Seq(Transfers) /\ armed' \in {armed, d}
       /\ Distinct' /\ Ordered' /\ HeadArmed'
       /\ \A y \in Transfers : Listed(y)' <=> Listed(y) \/ y = x
  <2>1. flying \in Seq(Transfers) /\ armed \in Nat /\ Distinct /\ Ordered /\ HeadArmed
    BY <1>3 DEF IInv, Bounds
  <2>2. \A y \in Transfers : xfer[y].deadline \in Nat
    BY <1>3 DEF TransferSet
  <2>3. \A y \in Transfers : xfer'[y].kind = xfer[y].kind
    BY <1>7, <1>10
  <2>4. /\ \A y \in Transfers : y # x => xfer'[y].deadline = xfer[y].deadline
                                         /\ xfer'[y].handled = xfer[y].handled
        /\ xfer'[x].deadline = d
    BY <1>7, <1>10
  <2>5. QED
    BY <1>1, <1>4, <1>9, <2>1, <2>2, <2>3, <2>4, AddKeeps
<1>12. Bounds'
  <2>1. armed' \in 0 .. MaxTime
    BY <1>3, <1>4, <1>11 DEF Bounds
  <2>2. submits' \in 0 .. MaxSubmits
    BY <1>2, <1>3 DEF Bounds
  <2>3. QED
    BY <1>3, <1>11, <2>1, <2>2 DEF Bounds
<1>13. /\ TypeOK' /\ AllSound' /\ lock'[x] = l
       /\ \A y \in Transfers : y # x => xfer'[y] = xfer[y] /\ lock'[y] = lock[y]
  BY <1>7, <1>8, <1>12, OneSound DEF IInv
<1>14. Members'
  <2>1. event.pc = "clear" => event.x \in Transfers
    BY DEF IInv, Ending, Ends
  <2>2. lock'[x] # "free" /\ ~xfer'[x].inFlight
    BY <1>6, <1>7, <1>10, <1>13
  <2>3. QED
    BY <1>11, <1>13, <2>1, <2>2 DEF IInv, Members
<1>15. QED
  BY <1>11, <1>13, <1>14

LEMMA SubmitKeeps ==
  ASSUME IInv, NEW x \in Transfers, Submit(x)
  PROVE  IInv'
<1>1. /\ ~closed /\ submits < MaxSubmits
      /\ lock[x] = "free" /\ ~xfer[x].inFlight /\ event.x # x /\ Enlist(x)
      /\ UNCHANGED <<reapable, gone, reapAfter, event, fdRemoved, closed, now>>
  BY DEF Submit
<1>2. event' \in EventSet
  BY <1>1 DEF IInv, TypeOK
<1>3. /\ TypeOK' /\ AllSound' /\ Distinct' /\ Ordered' /\ HeadArmed' /\ Members'
      /\ \A y \in Transfers : y # x => xfer'[y] = xfer[y] /\ lock'[y] = lock[y]
  BY <1>1, <1>2, EnlistKeeps
<1>4. Ending'
  BY <1>1, <1>3, EndingKept DEF IInv, Ending
<1>5. QED
  BY <1>3, <1>4 DEF IInv

LEMMA CallbackResubmitsKeeps ==
  ASSUME IInv, CallbackResubmits
  PROVE  IInv'
<1>1. /\ event.pc = "callback" /\ submits < MaxSubmits /\ ~xfer[event.x].inFlight
      /\ Enlist(event.x) /\ event' = [event EXCEPT !.pc = "resubmit"]
      /\ UNCHANGED <<reapable, gone, reapAfter, fdRemoved, closed, now>>
  BY DEF CallbackResubmits
<1>2. event \in EventSet /\ Ending
  BY DEF IInv, TypeOK
<1>3. event.x \in Transfers /\ lock[event.x] = "free" /\ ~closed
  BY <1>1, <1>2 DEF Ending, Ends
<1>4. event' \in EventSet /\ event'.pc = "resubmit" /\ event'.x = event.x
      /\ event'.back = event.back
  BY <1>1, <1>2 DEF EventSet
<1>5. PICK x \in Transfers : x = event.x
  BY <1>3
<1>6. /\ lock[x] = "free" /\ ~xfer[x].inFlight /\ Enlist(x) /\ event'.x = event.x
      /\ event.pc = "clear" => event.x # x
      /\ event'.pc = "clear" <=> event.pc = "clear"
  BY <1>1, <1>3, <1>4, <1>5
<1>7. /\ TypeOK' /\ AllSound' /\ Distinct' /\ Ordered' /\ HeadArmed' /\ Members'
  BY <1>1, <1>3, <1>4, <1>6, EnlistKeeps
<1>8. Ending'
  BY <1>1, <1>2, <1>3, <1>4 DEF Ending, Ends
<1>9. QED
  BY <1>7, <1>8 DEF IInv

LEMMA SubmitRefusedKeeps ==
  ASSUME IInv, NEW x \in Transfers, SubmitRefused(x)
  PROVE  IInv'
<1> DEFINE u == [xfer[x] EXCEPT !.urbs = FALSE]
<1>1. /\ lock[x] = "held" /\ xfer' = [xfer EXCEPT ![x] = u]
      /\ lock' = [lock EXCEPT ![x] = "failed"]
      /\ UNCHANGED <<flying, armed, reapable, gone, reapAfter, event, fdRemoved, closed,
                     submits, now>>
  BY DEF SubmitRefused
<1>2. /\ Bounds /\ xfer[x] \in TransferSet(x)
      /\ Sound(x, xfer[x], reapable[x], lock[x], Device, now)
  BY IInvIs
<1>3. /\ ~xfer[x].inFlight /\ ~xfer[x].urbs /\ Reason(xfer[x], lock[x], now)
      /\ xfer[x].status \in Fates
  BY <1>1, <1>2 DEF Sound, Counted, Whole
<1>4. Held(xfer[x]) = {} /\ reapable[x] = <<>>
  BY <1>2, <1>3, NoUrbs
<1>5. /\ u \in TransferSet(x) /\ u.urb = xfer[x].urb /\ ~u.urbs /\ ~u.inFlight
      /\ u.status = xfer[x].status /\ u.kind = xfer[x].kind /\ u.deadline = xfer[x].deadline
      /\ u.handled = xfer[x].handled /\ u.seen = xfer[x].seen
      /\ u.cancelling = xfer[x].cancelling /\ u.asked = xfer[x].asked
      /\ u.timedOut = xfer[x].timedOut
  BY <1>2, <1>3 DEF TransferSet
<1> HIDE DEF u
<1>6. PICK l : l = "failed"
  OBVIOUS
<1>7. Sound(x, u, reapable[x], l, Device, now)
  <2>1. Held(u) = {}
    BY <1>4, <1>5 DEF Held
  <2>2. Reason(u, l, now)
    BY <1>1, <1>3, <1>5, <1>6 DEF Reason
  <2>3. Sound(x, u, <<>>, l, Device, now)
    BY <1>3, <1>5, <2>1, <2>2, NoUrbsSound
  <2>4. QED
    BY <1>4, <2>3
<1>8. Becomes(x, u, reapable[x], l)
  BY <1>1, <1>6 DEF Becomes, IInv, TypeOK
<1>9. Bounds'
  BY <1>1, <1>2 DEF Bounds
<1>10. /\ TypeOK' /\ AllSound' /\ xfer'[x] = u /\ lock'[x] = l
       /\ \A y \in Transfers : y # x => xfer'[y] = xfer[y] /\ lock'[y] = lock[y]
  BY <1>7, <1>8, <1>9, OneSound DEF IInv
<1>11. ~closed
  BY <1>1 DEF IInv, Ending
<1>12. Ending'
  BY <1>1, <1>10, <1>11, EndingKept DEF IInv, Ending, Ends
<1>13. Distinct' /\ Ordered' /\ HeadArmed'
  BY <1>1, <1>5, <1>10, OrderKept DEF IInv, TypeOK
<1>14. Members'
  <2>1. \A y : Listed(y)' <=> Listed(y)
    BY <1>1 DEF Listed
  <2>2. QED
    BY <1>1, <1>3, <1>5, <1>6, <1>10, <2>1 DEF IInv, Members
<1>15. QED
  BY <1>10, <1>12, <1>13, <1>14 DEF IInv

LEMMA DelistKeeps ==
  ASSUME IInv, NEW x \in Transfers, Delist(x)
  PROVE  IInv'
<1> DEFINE u == Idle(x, xfer[x].kind)
<1>1. /\ lock[x] = "failed" /\ xfer' = [xfer EXCEPT ![x] = u] /\ RemoveFromFlyingList(x)
      /\ lock' = [lock EXCEPT ![x] = "free"]
      /\ UNCHANGED <<reapable, gone, reapAfter, event, fdRemoved, closed, submits, now>>
  BY DEF Delist
<1>2. /\ Bounds /\ \A y \in Transfers : xfer[y] \in TransferSet(y)
      /\ Sound(x, xfer[x], reapable[x], lock[x], Device, now)
  BY IInvIs
<1>3. ~xfer[x].inFlight /\ ~xfer[x].urbs /\ xfer[x].kind \in Kinds[x]
  BY <1>1, <1>2 DEF Sound, Counted, TransferSet
<1>4. reapable[x] = <<>>
  BY <1>2, <1>3, NoUrbs
<1>5. PICK l : l = "free"
  OBVIOUS
<1>6. Sound(x, u, reapable[x], l, Device, now) /\ ~u.inFlight /\ u.kind = xfer[x].kind
  BY <1>3, <1>4, <1>5, IdleSound
<1> HIDE DEF u
<1>7. Becomes(x, u, reapable[x], l)
  BY <1>1, <1>5 DEF Becomes, IInv, TypeOK
<1>8. \A y \in Transfers : xfer'[y] = IF y = x THEN u ELSE xfer[y]
  BY <1>1 DEF IInv, TypeOK
<1>9. /\ flying' \in Seq(Transfers) /\ armed' \in 0 .. MaxTime
      /\ Distinct' /\ Ordered' /\ HeadArmed'
      /\ \A y \in Transfers : Listed(y)' <=> Listed(y) /\ y # x
  <2>1. /\ flying \in Seq(Transfers) /\ armed \in 0 .. MaxTime /\ Distinct /\ Ordered
        /\ HeadArmed /\ Listed(x)
    BY <1>1, <1>2 DEF IInv, Bounds, Members
  <2>2. \A y \in Transfers : xfer[y].deadline \in 0 .. MaxTime
    BY <1>2 DEF TransferSet
  <2>3. \A y \in Transfers : xfer'[y].kind = xfer[y].kind
    BY <1>6, <1>8
  <2>4. \A y \in Transfers : y # x => xfer'[y].deadline = xfer[y].deadline
                                      /\ xfer'[y].handled = xfer[y].handled
    BY <1>8
  <2>5. QED
    BY <1>1, <2>1, <2>2, <2>3, <2>4, RemoveKeeps
<1>10. Bounds'
  BY <1>1, <1>2, <1>9 DEF Bounds
<1>11. /\ TypeOK' /\ AllSound' /\ xfer'[x] = u /\ lock'[x] = l
       /\ \A y \in Transfers : y # x => xfer'[y] = xfer[y] /\ lock'[y] = lock[y]
  BY <1>6, <1>7, <1>10, OneSound DEF IInv
<1>12. ~closed
  BY <1>1 DEF IInv, Ending
<1>13. Ending'
  BY <1>1, <1>11, <1>12, EndingKept DEF IInv, Ending, Ends
<1>14. Members'
  <2>1. event.pc = "clear" => event.x \in Transfers
    BY DEF IInv, Ending, Ends
  <2>2. lock'[x] = "free" /\ ~xfer'[x].inFlight
    BY <1>5, <1>6, <1>11
  <2>3. QED
    BY <1>1, <1>9, <1>11, <2>1, <2>2 DEF IInv, Members
<1>15. QED
  BY <1>9, <1>11, <1>13, <1>14 DEF IInv
(****************************************************************************)
(* The timeouts                                                             *)
(****************************************************************************)

\* Whether or not it is cancelled, the timeout of the transfer is handled.
LEMMA HandleTimeoutIs ==
  ASSUME IInv, NEW x \in Expired, NEW m, HandleTimeout(x, m),
         UNCHANGED <<lock, gone, reapAfter, now>>
  PROVE  \E u, r : /\ Becomes(x, u, r, lock[x]) /\ Sound(x, u, r, lock[x], Device, now)
                   /\ Same(xfer[x], u) /\ u.handled = TRUE
<1>1. x \in Transfers /\ xfer[x].kind # "control" /\ xfer[x].deadline <= now
  <2> DEFINE W == Waiting(xfer, flying)
  <2>1. x \in Transfers /\ W # {} /\ x = flying[Min(W)] /\ xfer[x].deadline <= now
    BY DEF Expired, FirstWaiting
  <2>2. W \in SUBSET Nat /\ \A n \in W : Timed(flying[n])
    <3>1. flying \in Seq(Transfers)
      BY DEF IInv, TypeOK
    <3>2. QED
      BY <3>1 DEF Waiting
  <2> HIDE DEF W
  <2>3. Min(W) \in W
    BY <2>1, <2>2, MinIs
  <2>4. QED
    BY <2>1, <2>2, <2>3 DEF Timed
<1>2. Sound(x, xfer[x], reapable[x], lock[x], Device, now) /\ xfer[x] \in TransferSet(x)
  BY <1>1, IInvIs
<1>3. CASE Cancellable(x)
  <2> DEFINE u == [Cancelled(x, m) EXCEPT !.handled = TRUE, !.timedOut = Succeeds(x)]
             r == reapable[x] \o Ended(x)
  <2>1. Becomes(x, u, r, lock[x])
    BY <1>1, <1>3 DEF HandleTimeout, Becomes, IInv, TypeOK
  <2>2. Times(x, m, u)
    BY DEF Times
  <2> HIDE DEF u
  <2>3. Sound(x, u, r, lock[x], Device, now)
    BY <1>1, <1>3, <2>2, CancelledIs
  <2>4. Same(xfer[x], u)
    BY <1>1, <1>3, <2>2, CancelledIs
  <2>5. u.handled = TRUE
    BY <1>1, <1>3, <2>2, CancelledIs
  <2>6. QED
    BY <2>1, <2>3, <2>4, <2>5
<1>4. CASE ~Cancellable(x)
  <2> DEFINE u == [xfer[x] EXCEPT !.handled = TRUE]
  <2>1. Becomes(x, u, reapable[x], lock[x])
    BY <1>1, <1>4 DEF HandleTimeout, Becomes, IInv, TypeOK
  <2>2. Sound(x, u, reapable[x], lock[x], Device, now)
    BY <1>1, <1>2, HandledSound
  <2>3. Same(xfer[x], u) /\ u.handled = TRUE
    BY <1>2 DEF TransferSet, Same
  <2> HIDE DEF u
  <2>4. QED
    BY <2>1, <2>2, <2>3
<1>5. QED
  BY <1>3, <1>4

\* The list and the timer, when the timeout of one of its transfers is handled.
LEMMA HandledKeeps ==
  ASSUME IInv, NEW x \in Transfers, NEW u, Same(xfer[x], u), u.handled = TRUE,
         xfer'[x] = u, \A y \in Transfers : y # x => xfer'[y] = xfer[y],
         AllSound', UNCHANGED flying, armed' \in {armed, NextDeadline(xfer', flying)}
  PROVE  armed' \in 0 .. MaxTime /\ Distinct' /\ Ordered' /\ HeadArmed'
<1>1. /\ flying \in Seq(Transfers) /\ armed \in 0 .. MaxTime /\ Distinct /\ Ordered /\ HeadArmed
  BY DEF IInv, TypeOK
<1>2. \A y \in Transfers : xfer'[y].kind = xfer[y].kind /\ xfer'[y].deadline = xfer[y].deadline
  BY DEF Same
<1>3. /\ \A n \in 1 .. Len(flying) : flying[n] \in Transfers
      /\ flying # <<>> => 1 \in 1 .. Len(flying)
  BY <1>1
<1>4. \A y \in Transfers : Timed(y)' <=> Timed(y)
  BY <1>2 DEF Timed
<1>5. \A y \in Transfers : xfer'[y].deadline \in 0 .. MaxTime
  BY <1>2, IInvIs DEF TransferSet
<1> DEFINE next == NextDeadline(xfer', flying)
<1>6. /\ next \in 0 .. MaxTime
      /\ flying # <<>> /\ Timed(flying[1]) /\ ~xfer'[flying[1]].handled =>
           next = xfer'[flying[1]].deadline
  BY <1>1, <1>5, NextDeadlineIs
<1>7. armed' = armed \/ armed' = next
  OBVIOUS
<1> HIDE DEF next
<1>8. Distinct'
  BY <1>1 DEF Distinct
<1>9. Ordered'
  BY <1>1, <1>2, <1>3, <1>4 DEF Ordered
<1>10. HeadArmed'
  <2>1. SUFFICES ASSUME flying # <<>>, Timed(flying[1]), ~xfer'[flying[1]].handled
                 PROVE  armed' # 0 /\ armed' <= xfer'[flying[1]].deadline
    BY <1>3, <1>4 DEF HeadArmed
  <2>2. flying[1] # x /\ ~xfer[flying[1]].handled
    BY <1>3, <2>1
  <2>3. armed # 0 /\ armed <= xfer[flying[1]].deadline
    BY <1>1, <2>1, <2>2 DEF HeadArmed
  <2>4. xfer[flying[1]].deadline >= 1 /\ xfer[flying[1]].deadline \in 0 .. MaxTime
    BY <1>1, <1>2, <1>3, <1>5, <2>1 DEF Ordered
  <2>5. next = xfer[flying[1]].deadline
    BY <1>2, <1>3, <1>6, <2>1
  <2>6. QED
    BY <1>2, <1>3, <1>7, <2>1, <2>3, <2>4, <2>5
<1>11. QED
  BY <1>1, <1>6, <1>7, <1>8, <1>9, <1>10

\* One timeout is handled.
LEMMA TimeoutKeeps ==
  ASSUME IInv, NEW x \in Expired, NEW m, HandleTimeout(x, m),
         armed' \in {armed, NextDeadline(xfer', flying)},
         UNCHANGED <<lock, flying, gone, reapAfter, event, fdRemoved, closed, submits, now>>
  PROVE  IInv'
<1>1. PICK u, r : /\ Becomes(x, u, r, lock[x]) /\ Sound(x, u, r, lock[x], Device, now)
                  /\ Same(xfer[x], u) /\ u.handled = TRUE
  BY HandleTimeoutIs
<1>2. x \in Transfers /\ Bounds
  BY IInvIs DEF Expired
<1>3. \A y \in Transfers : xfer'[y] = IF y = x THEN u ELSE xfer[y]
  BY <1>1 DEF Becomes, IInv, TypeOK
<1>4. NextDeadline(xfer', flying) \in 0 .. MaxTime
  <2>1. \A y \in Transfers : xfer'[y].deadline \in 0 .. MaxTime
    BY <1>1, <1>3, IInvIs DEF Same, TransferSet
  <2>2. QED
    BY <1>2, <2>1, NextDeadlineIs DEF Bounds
<1>5. Bounds'
  BY <1>2, <1>4 DEF Bounds
<1>6. TypeOK' /\ AllSound'
  BY <1>1, <1>2, <1>5, OneSound DEF IInv
<1>7. Distinct' /\ Ordered' /\ HeadArmed'
  BY <1>1, <1>2, <1>3, <1>6, HandledKeeps
<1>8. /\ \A y \in Transfers : xfer'[y].inFlight = xfer[y].inFlight /\ lock'[y] = lock[y]
      /\ \A y \in Transfers : Same(xfer[y], xfer'[y])
  BY <1>1, <1>3 DEF Same
<1>9. Members'
  BY <1>8, MembersKept DEF IInv
<1>10. Ending'
  <2>1. Ending /\ (event.pc \in Ends => event.x \in Transfers /\ ~xfer[event.x].urbs)
    BY DEF IInv, Ending
  <2>2. QED
    BY <1>8, <2>1, EndingKept DEF Same, Ending
<1>11. QED
  BY <1>6, <1>7, <1>9, <1>10 DEF IInv

LEMMA TimerTriggerKeeps ==
  ASSUME IInv, TimerTrigger
  PROVE  IInv'
<1>1. /\ armed' = NextDeadline(xfer', flying)
      /\ UNCHANGED <<lock, flying, gone, reapAfter, event, fdRemoved, closed, submits, now>>
  BY DEF TimerTrigger
<1>2. CASE Expired = {}
  <2>1. UNCHANGED <<xfer, reapable>>
    BY <1>2 DEF TimerTrigger
  <2>2. /\ Bounds /\ \A y \in Transfers : xfer[y].deadline \in 0 .. MaxTime
    BY IInvIs DEF TransferSet
  <2> DEFINE next == NextDeadline(xfer, flying)
  <2>3. /\ next \in 0 .. MaxTime
        /\ flying # <<>> /\ Timed(flying[1]) /\ ~xfer[flying[1]].handled =>
             next = xfer[flying[1]].deadline
    BY <2>2, NextDeadlineIs DEF Bounds
  <2>4. armed' = next
    BY <1>1, <2>1
  <2> HIDE DEF next
  <2>5. Bounds'
    BY <1>1, <2>2, <2>3, <2>4 DEF Bounds
  <2>6. TypeOK' /\ AllSound'
    BY <1>1, <2>1, <2>5, SameSound DEF IInv
  <2>7. Ending' /\ Members'
    BY <1>1, <2>1, EndingKept, MembersKept DEF IInv, Ending
  <2>8. Distinct' /\ Ordered'
    BY <1>1, <2>1 DEF IInv, Distinct, Ordered, Timed
  <2>9. HeadArmed'
    <3>1. SUFFICES ASSUME flying # <<>>, Timed(flying[1]), ~xfer[flying[1]].handled
                   PROVE  next # 0 /\ next <= xfer[flying[1]].deadline
      BY <1>1, <2>1, <2>4 DEF HeadArmed, Timed
    <3>2. 1 \in 1 .. Len(flying) /\ flying[1] \in Transfers
      BY <2>2, <3>1 DEF Bounds
    <3>3. xfer[flying[1]].deadline >= 1 /\ xfer[flying[1]].deadline \in 0 .. MaxTime
      BY <2>2, <3>1, <3>2 DEF IInv, Ordered
    <3>4. QED
      BY <2>3, <3>1, <3>3
  <2>10. QED
    BY <2>6, <2>7, <2>8, <2>9 DEF IInv
<1>3. CASE Expired # {}
  <2>1. PICK x \in Expired : \E m \in 0 .. NumUrbs[x] - 1 : HandleTimeout(x, m)
    BY <1>3 DEF TimerTrigger
  <2>2. PICK m : HandleTimeout(x, m)
    BY <2>1
  <2>3. QED
    BY <1>1, <2>2, TimeoutKeeps
<1>4. QED
  BY <1>2, <1>3

LEMMA WaitRunsOutKeeps ==
  ASSUME IInv, WaitRunsOut
  PROVE  IInv'
<1>1. UNCHANGED <<lock, flying, armed, gone, reapAfter, event, fdRemoved, closed, submits, now>>
  BY DEF WaitRunsOut
<1>2. PICK x \in Expired : \E m \in 0 .. NumUrbs[x] - 1 : HandleTimeout(x, m)
  BY DEF WaitRunsOut
<1>3. PICK m : HandleTimeout(x, m)
  BY <1>2
<1>4. QED
  BY <1>1, <1>3, TimeoutKeeps
(****************************************************************************)
(* The steps of the thread that handles events                              *)
(****************************************************************************)
LEMMA ReapKeeps ==
  ASSUME IInv, NEW x \in Transfers, NEW m, Reap(x, m)
  PROVE  IInv'
<1> DEFINE i == Head(reapable[x])
           c == Completion(x, i)
           n == NumUrbs[x]
           u == IF c.discard THEN Discarded(c.t, i + 1, n, m) ELSE c.t
           q == Tail(reapable[x]) \o IF c.discard THEN GivenBack(c.t, i + 1, n) ELSE <<>>
           result == c.result
<1>1. /\ ~closed /\ reapable[x] # <<>> /\ event.pc \in {"poll", "lost"}
      /\ xfer' = [xfer EXCEPT ![x] = u] /\ reapable' = [reapable EXCEPT ![x] = q]
      /\ IF result = "none" THEN UNCHANGED event
         ELSE event' = [pc |-> "remove", x |-> x, result |-> result, back |-> event.pc]
      /\ UNCHANGED <<lock, flying, armed, gone, reapAfter, fdRemoved, closed, submits, now>>
  BY DEF Reap, Report
<1>2. /\ Bounds /\ Sound(x, xfer[x], reapable[x], lock[x], Device, now)
  BY IInvIs
<1>3. Sound(x, u, q, lock[x], Device, now) /\ Yields(xfer[x], u, result)
  BY <1>1, <1>2, ReapSound
<1> HIDE DEF u, q, result
<1>4. Becomes(x, u, q, lock[x])
  BY <1>1 DEF Becomes, IInv, TypeOK
<1>5. /\ u.kind = xfer[x].kind /\ u.inFlight = xfer[x].inFlight
      /\ u.deadline = xfer[x].deadline /\ u.handled = xfer[x].handled
      /\ result \in Fates \cup {"none", "cancellation"}
  BY <1>3 DEF Yields
<1>6. event' \in EventSet
  BY <1>1, <1>2, <1>5 DEF EventSet, Statuses, Bounds
<1>7. Bounds'
  BY <1>1, <1>2, <1>6 DEF Bounds
<1>8. /\ TypeOK' /\ AllSound' /\ xfer'[x] = u
      /\ \A y \in Transfers : y # x => xfer'[y] = xfer[y]
  BY <1>3, <1>4, <1>7, OneSound DEF IInv
<1>9. Distinct' /\ Ordered' /\ HeadArmed'
  BY <1>1, <1>5, <1>8, OrderKept DEF IInv, TypeOK
<1>10. CASE result = "none"
  <2>1. event' = event /\ event.pc \notin Ends
    BY <1>1, <1>10 DEF Ends
  <2>2. Ending'
    BY <1>1, <2>1, EndingKept DEF IInv, Ending
  <2>3. Members'
    BY <1>1, <1>5, <1>8, <2>1, MembersKept DEF IInv
  <2>4. QED
    BY <1>8, <1>9, <2>2, <2>3 DEF IInv
<1>11. CASE result # "none"
  <2>1. /\ event'.pc = "remove" /\ event'.x = x /\ event'.result = result
        /\ event'.back = event.pc
    BY <1>1, <1>11
  <2>2. /\ ~u.urbs /\ u.inFlight
        /\ result = "cancellation" => u.action = "CANCELLED"
        /\ result = "COMPLETED" /\ u.kind # "iso" => Lossless(u.seen)
    BY <1>3, <1>5, <1>11 DEF Yields
  <2>3. lock[x] = "free"
    BY <1>3, <2>2 DEF Sound, Counted
  <2>4. event.pc = "lost" => gone
    BY DEF IInv, Ending
  <2>5. Ending'
    BY <1>1, <1>5, <1>8, <2>1, <2>2, <2>3, <2>4 DEF Ending, Ends
  <2>6. Members'
    <3>1. \A y : Listed(y)' <=> Listed(y)
      BY <1>1 DEF Listed
    <3>2. event.pc # "clear" /\ event'.pc # "clear"
      BY <1>1, <2>1
    <3>3. QED
      BY <1>1, <1>5, <1>8, <3>1, <3>2 DEF IInv, Members
  <2>7. QED
    BY <1>8, <1>9, <2>5, <2>6 DEF IInv
<1>12. QED
  BY <1>10, <1>11

LEMMA TakeOffListKeeps ==
  ASSUME IInv, TakeOffList
  PROVE  IInv'
<1> DEFINE result == IF event.result # "cancellation" THEN event.result
                     ELSE IF xfer[event.x].timedOut THEN "TIMED_OUT" ELSE "CANCELLED"
<1>1. /\ event.pc = "remove" /\ RemoveFromFlyingList(event.x)
      /\ event' = [event EXCEPT !.pc = "clear", !.result = result]
      /\ UNCHANGED <<xfer, lock, reapable, gone, reapAfter, fdRemoved, closed, submits, now>>
  BY DEF TakeOffList
<1>2. /\ Bounds /\ Ending /\ Members
      /\ \A y \in Transfers : xfer[y] \in TransferSet(y)
                              /\ Sound(y, xfer[y], reapable[y], lock[y], Device, now)
  BY IInvIs DEF IInv
<1>3. /\ event.x \in Transfers /\ lock[event.x] = "free" /\ ~xfer[event.x].urbs
      /\ xfer[event.x].inFlight /\ ~closed
      /\ event.result \notin {"TIMED_OUT", "CANCELLED"}
      /\ event.result = "cancellation" => xfer[event.x].action = "CANCELLED"
      /\ event.back = "lost" => gone
      /\ event.result = "COMPLETED" /\ xfer[event.x].kind # "iso" => Lossless(xfer[event.x].seen)
  BY <1>1, <1>2 DEF Ending, Ends
<1>4. PICK x \in Transfers : x = event.x
  BY <1>3
<1>5. Listed(x)
  BY <1>1, <1>2, <1>3, <1>4 DEF Members
<1>6. /\ result \in Statuses \cup {"none"}
      /\ result = "CANCELLED" => xfer[x].asked
      /\ result = "TIMED_OUT" => xfer[x].timedOut
      /\ result = "COMPLETED" => event.result = "COMPLETED"
  <2>1. Reason(xfer[x], "free", now)
    BY <1>2, <1>3, <1>4 DEF Sound
  <2>2. event.result = "cancellation" => xfer[x].asked \/ xfer[x].timedOut
    BY <1>3, <1>4, <2>1 DEF Reason
  <2>3. event.result \in Statuses \cup {"none", "cancellation"}
    BY <1>2 DEF Bounds, EventSet
  <2>4. QED
    BY <1>3, <1>4, <2>2, <2>3 DEF Statuses
<1> HIDE DEF result
<1>7. /\ event' \in EventSet /\ event'.pc = "clear" /\ event'.result = result /\ event'.x = x
      /\ event'.back = event.back
  BY <1>1, <1>2, <1>4, <1>6 DEF EventSet, Bounds
<1>8. /\ flying' \in Seq(Transfers) /\ armed' \in 0 .. MaxTime
      /\ Distinct' /\ Ordered' /\ HeadArmed'
      /\ \A y \in Transfers : Listed(y)' <=> Listed(y) /\ y # x
  <2>1. /\ flying \in Seq(Transfers) /\ armed \in 0 .. MaxTime /\ Distinct /\ Ordered
        /\ HeadArmed
    BY <1>2 DEF IInv, Bounds
  <2>2. \A y \in Transfers : xfer[y].deadline \in 0 .. MaxTime
    BY <1>2 DEF TransferSet
  <2>3. RemoveFromFlyingList(x)
    BY <1>1, <1>4
  <2>4. /\ \A y \in Transfers : xfer'[y].kind = xfer[y].kind
        /\ \A y \in Transfers : y # x => xfer'[y].deadline = xfer[y].deadline
                                         /\ xfer'[y].handled = xfer[y].handled
    BY <1>1
  <2>5. QED
    BY <1>5, <2>1, <2>2, <2>3, <2>4, RemoveKeeps
<1>9. Bounds'
  BY <1>1, <1>2, <1>7, <1>8 DEF Bounds
<1>10. TypeOK' /\ AllSound'
  BY <1>1, <1>9, SameSound DEF IInv
<1>11. Ending'
  BY <1>1, <1>3, <1>4, <1>6, <1>7 DEF Ending, Ends
<1>12. Members'
  <2>1. ~Listed(x)'
    BY <1>8
  <2>2. \A n \in 1 .. Len(flying') : flying'[n] # event'.x
    BY <1>7, <2>1 DEF Listed
  <2>3. ~Listed(event.x)'
    BY <2>2 DEF Listed
  <2>4. \A y \in Transfers : Listed(y)' => xfer'[y].inFlight \/ lock'[y] # "free"
    BY <1>1, <1>2, <1>8 DEF Members
  <2>5. \A y \in Transfers : lock'[y] # "free" => Listed(y)'
    BY <1>1, <1>2, <1>3, <1>4, <1>8 DEF Members
  <2>6. \A y \in Transfers : xfer'[y].inFlight =>
          Listed(y)' \/ closed' \/ (event'.pc = "clear" /\ event'.x = y)
    BY <1>1, <1>2, <1>7, <1>8 DEF Members
  <2>7. QED
    BY <2>3, <2>4, <2>5, <2>6 DEF Members
<1>13. QED
  BY <1>8, <1>10, <1>11, <1>12 DEF IInv

LEMMA ClearKeeps ==
  ASSUME IInv, Clear
  PROVE  IInv'
<1> DEFINE u == [xfer[event.x] EXCEPT !.inFlight = FALSE]
<1>1. /\ event.pc = "clear" /\ xfer' = [xfer EXCEPT ![event.x] = u]
      /\ event' = [event EXCEPT !.pc = "callback"]
      /\ UNCHANGED <<lock, flying, armed, reapable, gone, reapAfter, fdRemoved, closed,
                     submits, now>>
  BY DEF Clear
<1>2. /\ Bounds /\ Ending /\ Members
      /\ \A y \in Transfers : xfer[y] \in TransferSet(y)
                              /\ Sound(y, xfer[y], reapable[y], lock[y], Device, now)
  BY IInvIs DEF IInv
<1>3. /\ event.x \in Transfers /\ lock[event.x] = "free" /\ ~xfer[event.x].urbs
      /\ ~closed /\ ~Listed(event.x)
  BY <1>1, <1>2 DEF Ending, Ends, Members
<1>4. PICK x \in Transfers : x = event.x
  BY <1>3
<1>5. xfer[x].status \in Fates /\ Reason(xfer[x], lock[x], now)
  BY <1>2 DEF Sound, Whole
<1>6. Held(xfer[x]) = {} /\ reapable[x] = <<>>
  BY <1>2, <1>3, <1>4, NoUrbs
<1>7. /\ u \in TransferSet(x) /\ u.urb = xfer[x].urb /\ ~u.urbs /\ ~u.inFlight
      /\ u.status = xfer[x].status /\ u.kind = xfer[x].kind /\ u.deadline = xfer[x].deadline
      /\ u.handled = xfer[x].handled /\ u.seen = xfer[x].seen /\ u.action = xfer[x].action
      /\ u.cancelling = xfer[x].cancelling /\ u.asked = xfer[x].asked
      /\ u.timedOut = xfer[x].timedOut
  <2>1. u = [xfer[x] EXCEPT !.inFlight = FALSE]
    BY <1>4
  <2>2. xfer[x] \in TransferSet(x) /\ ~xfer[x].urbs
    BY <1>2, <1>3, <1>4
  <2> HIDE DEF u
  <2>3. QED
    BY <2>1, <2>2 DEF TransferSet
<1> HIDE DEF u
<1>8. Sound(x, u, reapable[x], lock[x], Device, now)
  <2>1. Held(u) = {}
    BY <1>6, <1>7 DEF Held
  <2>2. Reason(u, lock[x], now)
    BY <1>5, <1>7 DEF Reason
  <2>3. Sound(x, u, <<>>, lock[x], Device, now)
    BY <1>5, <1>7, <2>1, <2>2, NoUrbsSound
  <2>4. QED
    BY <1>6, <2>3
<1>9. Becomes(x, u, reapable[x], lock[x])
  BY <1>1, <1>4 DEF Becomes, IInv, TypeOK
<1>10. /\ event' \in EventSet /\ event'.pc = "callback" /\ event'.result = event.result
       /\ event'.x = x /\ event'.back = event.back
  BY <1>1, <1>2, <1>4 DEF EventSet, Bounds
<1>11. Bounds'
  BY <1>1, <1>2, <1>10 DEF Bounds
<1>12. /\ TypeOK' /\ AllSound' /\ xfer'[x] = u
       /\ \A y \in Transfers : y # x => xfer'[y] = xfer[y]
  BY <1>8, <1>9, <1>11, OneSound DEF IInv
<1>13. Ending'
  <2>1. /\ event.back = "lost" => gone
        /\ event.result = "COMPLETED" /\ xfer[x].kind # "iso" => Lossless(xfer[x].seen)
        /\ event.result = "CANCELLED" => xfer[x].asked
        /\ event.result = "TIMED_OUT" => xfer[x].timedOut
    BY <1>1, <1>2, <1>4 DEF Ending, Ends
  <2>2. QED
    BY <1>1, <1>3, <1>4, <1>7, <1>10, <1>12, <2>1 DEF Ending, Ends
<1>14. Distinct' /\ Ordered' /\ HeadArmed'
  BY <1>1, <1>7, <1>12, OrderKept DEF IInv, TypeOK
<1>15. Members'
  <2>1. \A y : Listed(y)' <=> Listed(y)
    BY <1>1 DEF Listed
  <2>2. event'.pc # "clear" /\ ~Listed(x)
    BY <1>3, <1>4, <1>10
  <2>3. QED
    BY <1>1, <1>2, <1>4, <1>7, <1>12, <2>1, <2>2 DEF Members
<1>16. QED
  BY <1>12, <1>13, <1>14, <1>15 DEF IInv
LEMMA CallbackReturnsKeeps ==
  ASSUME IInv, CallbackReturns
  PROVE  IInv'
<1>1. /\ event.pc = "callback" /\ event' = [Polling EXCEPT !.pc = event.back]
      /\ xfer' = [xfer EXCEPT ![event.x] = Idle(event.x, xfer[event.x].kind)]
      /\ UNCHANGED <<lock, flying, armed, reapable, gone, reapAfter, fdRemoved, closed,
                     submits, now>>
  BY DEF CallbackReturns, Back
<1>2. /\ Bounds /\ Ending /\ Members
      /\ \A y \in Transfers : xfer[y] \in TransferSet(y)
                              /\ Sound(y, xfer[y], reapable[y], lock[y], Device, now)
  BY IInvIs DEF IInv
<1>3. /\ event.x \in Transfers /\ lock[event.x] = "free" /\ ~xfer[event.x].urbs
      /\ ~xfer[event.x].inFlight /\ ~closed /\ (event.back = "lost" => gone)
  BY <1>1, <1>2 DEF Ending, Ends
<1>4. PICK x \in Transfers : x = event.x
  BY <1>3
<1> DEFINE u == Idle(x, xfer[x].kind)
<1>5. xfer' = [xfer EXCEPT ![x] = u] /\ xfer[x].kind \in Kinds[x]
  BY <1>1, <1>2, <1>4 DEF TransferSet
<1>6. reapable[x] = <<>>
  BY <1>2, <1>3, <1>4, NoUrbs
<1>7. Sound(x, u, <<>>, "free", Device, now) /\ ~u.inFlight /\ u.kind = xfer[x].kind
  BY <1>5, IdleSound
<1> HIDE DEF u
<1>8. Sound(x, u, reapable[x], lock[x], Device, now)
  BY <1>3, <1>4, <1>6, <1>7
<1>9. Becomes(x, u, reapable[x], lock[x])
  BY <1>1, <1>5 DEF Becomes, IInv, TypeOK
<1>10. /\ event' \in EventSet /\ event'.pc = event.back /\ event'.pc \in {"poll", "lost"}
       /\ event'.back = "poll"
  BY <1>1, <1>2 DEF EventSet, Bounds, Polling
<1>11. Bounds'
  BY <1>1, <1>2, <1>10 DEF Bounds
<1>12. /\ TypeOK' /\ AllSound' /\ xfer'[x] = u
       /\ \A y \in Transfers : y # x => xfer'[y] = xfer[y]
  BY <1>8, <1>9, <1>11, OneSound DEF IInv
<1>13. Ending'
  BY <1>1, <1>3, <1>10 DEF Ending, Ends
<1>14. ~Listed(x)
  BY <1>2, <1>3, <1>4 DEF Members
<1>15. Distinct' /\ Ordered' /\ HeadArmed'
  <2>1. \A y \in Transfers : Listed(y) => xfer'[y] = xfer[y]
    BY <1>12, <1>14
  <2>2. QED
    BY <1>1, <2>1, ListKept DEF IInv, TypeOK
<1>16. Members'
  <2>1. \A y : Listed(y)' <=> Listed(y)
    BY <1>1 DEF Listed
  <2>2. event'.pc # "clear" /\ event.pc # "clear"
    BY <1>1, <1>10
  <2>3. QED
    BY <1>1, <1>2, <1>7, <1>12, <1>14, <2>1, <2>2 DEF Members
<1>17. QED
  BY <1>12, <1>13, <1>15, <1>16 DEF IInv

\* The thread goes from one step of its own to another, without touching a transfer.
LEMMA MovesOn ==
  ASSUME IInv, event.pc # "clear", event' \in EventSet, event'.pc \in {"poll", "lost"},
         event'.pc = "lost" \/ event'.back = "lost" => gone,
         closed => event'.pc = "poll", fdRemoved' \in BOOLEAN,
         UNCHANGED <<xfer, lock, flying, armed, reapable, gone, reapAfter, closed, submits, now>>
  PROVE  IInv'
<1>1. Bounds'
  BY IInvIs DEF Bounds
<1>2. TypeOK' /\ AllSound'
  BY <1>1, SameSound DEF IInv
<1>3. Ending'
  BY DEF IInv, Ending, Ends
<1>4. Distinct' /\ Ordered' /\ HeadArmed'
  BY OrderKept DEF IInv, TypeOK
<1>5. Members'
  <2>1. \A y : Listed(y)' <=> Listed(y)
    BY DEF Listed
  <2>2. QED
    BY <2>1 DEF IInv, Members
<1>6. QED
  BY <1>2, <1>3, <1>4, <1>5 DEF IInv

LEMMA ResubmitReturnsKeeps ==
  ASSUME IInv, ResubmitReturns
  PROVE  IInv'
<1>1. /\ event.pc = "resubmit" /\ event' = [Polling EXCEPT !.pc = event.back]
      /\ UNCHANGED <<xfer, lock, flying, armed, reapable, gone, reapAfter, fdRemoved, closed,
                     submits, now>>
  BY DEF ResubmitReturns, Back
<1>2. event \in EventSet /\ Ending /\ fdRemoved \in BOOLEAN
  BY DEF IInv, TypeOK
<1>3. (event.back = "lost" => gone) /\ ~closed
  BY <1>1, <1>2 DEF Ending
<1>4. event' \in EventSet /\ event'.pc = event.back /\ event'.pc \in {"poll", "lost"}
      /\ event'.back = "poll"
  BY <1>1, <1>2 DEF EventSet, Polling
<1>5. QED
  BY <1>1, <1>2, <1>3, <1>4, MovesOn

LEMMA DisconnectKeeps ==
  ASSUME IInv, Disconnect
  PROVE  IInv'
<1>1. /\ event.pc = "poll" /\ gone /\ ~closed /\ fdRemoved' = TRUE
      /\ event' = [event EXCEPT !.pc = "lost"]
      /\ UNCHANGED <<xfer, lock, flying, armed, reapable, gone, reapAfter, closed, submits, now>>
  BY DEF Disconnect
<1>2. event \in EventSet
  BY DEF IInv, TypeOK
<1>3. event' \in EventSet /\ event'.pc = "lost"
  BY <1>1, <1>2 DEF EventSet
<1>4. QED
  BY <1>1, <1>3, MovesOn

LEMMA DisconnectReturnsKeeps ==
  ASSUME IInv, DisconnectReturns
  PROVE  IInv'
<1>1. /\ event.pc = "lost" /\ event' = Polling
      /\ UNCHANGED <<xfer, lock, flying, armed, reapable, gone, reapAfter, fdRemoved, closed,
                     submits, now>>
  BY DEF DisconnectReturns
<1>2. event' \in EventSet /\ event'.pc = "poll" /\ event'.back = "poll"
  BY <1>1 DEF EventSet, Polling
<1>3. fdRemoved \in BOOLEAN
  BY DEF IInv, TypeOK
<1>4. QED
  BY <1>1, <1>2, <1>3, MovesOn

\* The kernel has none of the URBs of a transfer that is ended here.
LEMMA EndTransferKeeps ==
  ASSUME IInv, EndTransfer
  PROVE  IInv'
<1>1. PICK n \in DOMAIN flying :
        /\ InFlight(flying[n])
        /\ xfer' = [xfer EXCEPT ![flying[n]].urbs = FALSE]
        /\ Report(flying[n], "NO_DEVICE", "lost")
  BY DEF EndTransfer
<1>2. /\ event.pc = "lost" /\ NothingToReap
      /\ UNCHANGED <<lock, flying, armed, reapable, gone, reapAfter, fdRemoved, closed,
                     submits, now>>
  BY DEF EndTransfer
<1>3. /\ Bounds /\ Ending /\ Members
      /\ \A y \in Transfers : xfer[y] \in TransferSet(y)
                              /\ Sound(y, xfer[y], reapable[y], lock[y], Device, now)
  BY IInvIs DEF IInv
<1>4. PICK x \in Transfers : x = flying[n]
  BY <1>3 DEF Bounds
<1> DEFINE u == [xfer[x] EXCEPT !.urbs = FALSE]
<1>5. /\ xfer[x].inFlight /\ xfer' = [xfer EXCEPT ![x] = u] /\ gone /\ ~closed
      /\ event' = [pc |-> "remove", x |-> x, result |-> "NO_DEVICE", back |-> "lost"]
  BY <1>1, <1>2, <1>3, <1>4 DEF InFlight, Report, Ending
<1>6. /\ Mirrors(xfer[x], reapable[x]) /\ Counted(NumUrbs[x], xfer[x], lock[x], Device)
      /\ xfer[x].status \in Fates
      /\ Reason(xfer[x], lock[x], now)
  BY <1>3 DEF Sound, Whole
<1>7. lock[x] = "free" /\ Queued(xfer[x]) = {}
      /\ (~reapAfter => Held(xfer[x]) = {})
  BY <1>5, <1>6 DEF Counted, Device
<1>8. Held(xfer[x]) = {} /\ reapable[x] = <<>>
  <2>1. \A i \in Urbs(x) : i \in Held(xfer[x]) \ Queued(xfer[x]) <=> xfer[x].urb[i] \in Results
    BY <1>3, UrbSets
  <2>2. DOMAIN xfer[x].urb = Urbs(x) /\ Held(xfer[x]) \subseteq Urbs(x)
    BY <1>3, UrbSets
  <2>3. CASE reapAfter
    <3>1. reapable[x] = <<>>
      BY <1>2, <2>3 DEF NothingToReap
    <3>2. \A i \in Urbs(x) : xfer[x].urb[i] \notin Results
      BY <1>6, <2>2, <3>1 DEF Mirrors
    <3>3. QED
      BY <1>7, <2>1, <2>2, <3>1, <3>2
  <2>4. CASE ~reapAfter
    <3>1. Held(xfer[x]) = {}
      BY <1>7, <2>4
    <3>2. reapable[x] \in Seq(Urbs(x))
          /\ \A p \in 1 .. Len(reapable[x]) : xfer[x].urb[reapable[x][p]] \in Results
      BY <1>6, <2>2 DEF Mirrors
    <3>3. \A i \in Urbs(x) : xfer[x].urb[i] \notin Results
      BY <2>1, <3>1
    <3>4. Len(reapable[x]) = 0
      BY <3>2, <3>3
    <3>5. QED
      BY <3>1, <3>2, <3>4
  <2>5. QED
    BY <2>3, <2>4
<1>9. /\ u \in TransferSet(x) /\ u.urb = xfer[x].urb /\ ~u.urbs /\ u.inFlight
      /\ u.status = xfer[x].status /\ u.kind = xfer[x].kind /\ u.deadline = xfer[x].deadline
      /\ u.handled = xfer[x].handled /\ u.seen = xfer[x].seen /\ u.action = xfer[x].action
      /\ u.cancelling = xfer[x].cancelling /\ u.asked = xfer[x].asked
      /\ u.timedOut = xfer[x].timedOut
  <2>1. xfer[x] \in TransferSet(x) /\ xfer[x].inFlight
    BY <1>3, <1>5
  <2>2. QED
    BY <2>1 DEF TransferSet
<1> HIDE DEF u
<1>10. Sound(x, u, reapable[x], lock[x], Device, now)
  <2>1. Held(u) = {}
    BY <1>8, <1>9 DEF Held
  <2>2. Reason(u, lock[x], now)
    BY <1>6, <1>9 DEF Reason
  <2>3. Sound(x, u, <<>>, lock[x], Device, now)
    BY <1>6, <1>7, <1>9, <2>1, <2>2, NoUrbsSound
  <2>4. QED
    BY <1>8, <2>3
<1>11. Becomes(x, u, reapable[x], lock[x])
  BY <1>2, <1>5 DEF Becomes, IInv, TypeOK
<1>12. /\ event' \in EventSet /\ event'.pc = "remove" /\ event'.result = "NO_DEVICE"
       /\ event'.x = x /\ event'.back = "lost"
  BY <1>5 DEF EventSet, Statuses
<1>13. Bounds'
  BY <1>2, <1>3, <1>12 DEF Bounds
<1>14. /\ TypeOK' /\ AllSound' /\ xfer'[x] = u
       /\ \A y \in Transfers : y # x => xfer'[y] = xfer[y]
  BY <1>10, <1>11, <1>13, OneSound DEF IInv
<1>15. Ending'
  BY <1>2, <1>5, <1>7, <1>9, <1>12, <1>14 DEF Ending, Ends
<1>16. Distinct' /\ Ordered' /\ HeadArmed'
  BY <1>2, <1>9, <1>14, OrderKept DEF IInv, TypeOK
<1>17. Members'
  <2>1. \A y : Listed(y)' <=> Listed(y)
    BY <1>2 DEF Listed
  <2>2. event'.pc # "clear" /\ event.pc # "clear"
    BY <1>2, <1>12
  <2>3. QED
    BY <1>2, <1>3, <1>5, <1>9, <1>14, <2>1, <2>2 DEF Members
<1>18. QED
  BY <1>14, <1>15, <1>16, <1>17 DEF IInv

LEMMA CloseKeeps ==
  ASSUME IInv, Close
  PROVE  IInv'
<1>1. /\ event.pc = "poll" /\ \A x \in Transfers : lock[x] = "free"
      /\ closed' = TRUE /\ flying' = <<>>
      /\ UNCHANGED <<xfer, lock, armed, reapable, gone, reapAfter, event, fdRemoved, submits, now>>
  BY DEF Close
<1>2. Bounds'
  BY <1>1, IInvIs DEF Bounds
<1>3. TypeOK' /\ AllSound'
  BY <1>1, <1>2, SameSound DEF IInv
<1>4. Ending'
  BY <1>1 DEF IInv, Ending, Ends
<1>5. Distinct' /\ Ordered' /\ HeadArmed'
  BY <1>1 DEF Distinct, Ordered, HeadArmed
<1>6. Members'
  <2>1. \A y : ~Listed(y)'
    BY <1>1 DEF Listed
  <2>2. QED
    BY <1>1, <2>1 DEF Members
<1>7. QED
  BY <1>3, <1>4, <1>5, <1>6 DEF IInv
(****************************************************************************)
(* The invariant, and the properties                                        *)
(****************************************************************************)
LEMMA InitHolds ==
  ASSUME Init
  PROVE  IInv
<1>1. PICK kind \in [Transfers -> UNION Range(Kinds)] :
        /\ \A x \in Transfers : kind[x] \in Kinds[x]
        /\ xfer = [x \in Transfers |-> Idle(x, kind[x])]
  BY DEF Init
<1>2. /\ lock = [x \in Transfers |-> "free"] /\ flying = <<>> /\ armed = 0
      /\ reapable = [x \in Transfers |-> <<>>] /\ gone = FALSE /\ reapAfter \in BOOLEAN
      /\ event = Polling /\ fdRemoved = FALSE /\ closed = FALSE /\ submits = 0 /\ now = 0
  BY DEF Init
<1>3. MaxTime \in Nat /\ MaxSubmits \in Nat
  OBVIOUS
<1>4. \A x \in Transfers : Sound(x, xfer[x], reapable[x], lock[x], Device, now)
                           /\ ~xfer[x].inFlight
  <2>1. SUFFICES ASSUME NEW x \in Transfers
                 PROVE  Sound(x, xfer[x], reapable[x], lock[x], Device, now)
                        /\ ~xfer[x].inFlight
    OBVIOUS
  <2>2. kind[x] \in Kinds[x]
    BY <1>1
  <2>3. Sound(x, Idle(x, kind[x]), <<>>, "free", Device, now) /\ ~Idle(x, kind[x]).inFlight
    BY <2>2, IdleSound
  <2>4. xfer[x] = Idle(x, kind[x]) /\ reapable[x] = <<>> /\ lock[x] = "free"
    BY <1>1, <1>2
  <2>5. QED
    BY <2>3, <2>4
<1>5. TypeOK
  <2>1. \A x \in Transfers : xfer[x] \in TransferSet(x) /\ reapable[x] \in Seq(Urbs(x))
    BY <1>4, SoundTyped
  <2>2. event \in EventSet
    BY <1>2 DEF Polling, EventSet
  <2>3. DOMAIN xfer = Transfers
    BY <1>1
  <2>4. reapable \in [Transfers -> Seq(Nat)]
    BY <1>2
  <2>5. lock \in [Transfers -> {"free", "held", "failed"}]
    BY <1>2
  <2>6. armed \in 0 .. MaxTime /\ submits \in 0 .. MaxSubmits /\ now \in 0 .. MaxTime
    <3>1. 0 \in 0 .. MaxTime /\ 0 \in 0 .. MaxSubmits
      BY <1>3
    <3>2. armed = 0 /\ submits = 0 /\ now = 0
      BY <1>2
    <3>3. QED
      BY <3>1, <3>2
  <2>7. gone \in BOOLEAN /\ reapAfter \in BOOLEAN /\ fdRemoved \in BOOLEAN /\ closed \in BOOLEAN
    BY <1>2
  <2>8. flying \in Seq(Transfers)
    BY <1>2
  <2>9. QED
    BY <2>1, <2>2, <2>3, <2>4, <2>5, <2>6, <2>7, <2>8 DEF TypeOK
<1>6. Ending
  BY <1>2 DEF Ending, Ends, Polling
<1>7. Distinct /\ Ordered /\ HeadArmed
  BY <1>2 DEF Distinct, Ordered, HeadArmed
<1>8. Members
  BY <1>2, <1>4 DEF Members, Listed, Polling
<1>9. QED
  BY <1>4, <1>5, <1>6, <1>7, <1>8 DEF IInv, AllSound

LEMMA StutterHolds ==
  ASSUME IInv, UNCHANGED vars
  PROVE  IInv'
<1>1. UNCHANGED <<xfer, lock, flying, armed, reapable, gone, reapAfter, event, fdRemoved,
                  closed, submits, now>>
  BY DEF vars
<1>2. Bounds'
  BY <1>1, IInvIs DEF Bounds
<1>3. TypeOK' /\ AllSound'
  BY <1>1, <1>2, SameSound DEF IInv
<1>4. Ending'
  BY <1>1 DEF IInv, Ending
<1>5. Distinct' /\ Ordered' /\ HeadArmed'
  BY <1>1, OrderKept DEF IInv, TypeOK
<1>6. Members'
  BY <1>1, MembersKept DEF IInv
<1>7. QED
  BY <1>3, <1>4, <1>5, <1>6 DEF IInv

LEMMA NextKeeps ==
  ASSUME IInv, [Next]_vars
  PROVE  IInv'
<1>1. CASE EventSteps
  BY <1>1, TimerTriggerKeeps, ReapKeeps, TakeOffListKeeps, ClearKeeps, CallbackReturnsKeeps,
     CallbackResubmitsKeeps, ResubmitReturnsKeeps, DisconnectKeeps, EndTransferKeeps,
     DisconnectReturnsKeeps DEF EventSteps
<1>2. CASE \E x \in Transfers : SubmitSteps(x)
  <2>1. PICK x \in Transfers : SubmitSteps(x)
    BY <1>2
  <2>2. CASE SubmitUrbs(x) \/ SubmitRefused(x) \/ Delist(x)
    BY <2>2, SubmitUrbsKeeps, SubmitRefusedKeeps, DelistKeeps
  <2>3. CASE \E k \in 1 .. NumUrbs[x] - 1 : SubmitCompletesEarly(x, k)
    BY <2>3, SubmitCompletesEarlyKeeps
  <2>4. CASE \E k \in 1 .. NumUrbs[x] - 1 : \E m \in 0 .. k - 1 : SubmitFailsMidway(x, k, m)
    BY <2>4, SubmitFailsMidwayKeeps
  <2>5. QED
    BY <2>1, <2>2, <2>3, <2>4 DEF SubmitSteps
<1>3. CASE UserSteps
  BY <1>3, CloseKeeps, SubmitKeeps, CancelTransferKeeps DEF UserSteps
<1>4. CASE Environment
  BY <1>4, DeviceGoneKeeps, TimePassesKeeps, WaitRunsOutKeeps, UrbCompletesKeeps
  DEF Environment
<1>5. CASE UNCHANGED vars
  BY <1>5, StutterHolds
<1>6. QED
  BY <1>1, <1>2, <1>3, <1>4, <1>5 DEF Next

\* Every behaviour keeps the inductive invariant: the URBs of each transfer
\* are accounted for, its results are true so far, the event thread holds one
\* transfer at a time, and the list is in the order of the deadlines, with the
\* timer set for the first of them. (io.c, os/linux_usbfs.c)
THEOREM Invariance == Spec => []IInv
<1>1. Init => IInv
  BY InitHolds
<1>2. IInv /\ [Next]_vars => IInv'
  BY NextKeeps
<1>3. QED
  BY <1>1, <1>2, PTL DEF Spec

\* The variables of UsbTransfers have their types in every state, for any
\* transfers, numbers of URBs and bounds. (linux_transfer_priv)
THEOREM TypeCorrect == Spec => []TypeOK
<1>1. IInv => TypeOK
  BY DEF IInv
<1>2. QED
  BY <1>1, Invariance, PTL

\* An array of URBs is freed only when the kernel has none of them, whichever
\* way the transfer ends. (handle_*_completion, submit_bulk_transfer,
\* usbi_handle_disconnect)
THEOREM NoUrbFreedInTheKernel == Spec => []FreedUrbsAreBack
<1>1. IInv => FreedUrbsAreBack
  BY IInvIs DEF Sound, Counted, FreedUrbsAreBack
<1>2. QED
  BY <1>1, Invariance, PTL

\* A bulk or control transfer that is reported COMPLETED has lost no data: no
\* URB of it has failed, and only those after a short one were cut off.
\* (handle_bulk_completion)
THEOREM NoLossInCompleted == Spec => []CompletedMeansWhole
<1>1. IInv => CompletedMeansWhole
  BY DEF IInv, Ending, Ends, CompletedMeansWhole, Lossless
<1>2. QED
  BY <1>1, Invariance, PTL

\* A transfer is reported as timed out only if its timeout has passed and
\* nobody has cancelled it, as cancelled only if somebody has.
\* (handle_timeout, usbi_handle_transfer_cancellation)
THEOREM ReasonReported == Spec => []ReasonIsTrue
<1>1. ASSUME IInv  PROVE  ReasonIsTrue
  <2>1. SUFFICES ASSUME event.pc = "callback"
                 PROVE  /\ event.result = "CANCELLED" => xfer[event.x].asked
                        /\ event.result = "TIMED_OUT" =>
                             /\ Timed(event.x) /\ xfer[event.x].deadline <= now
                             /\ ~xfer[event.x].asked
    BY DEF ReasonIsTrue
  <2>2. /\ event.x \in Transfers
        /\ event.result = "CANCELLED" => xfer[event.x].asked
        /\ event.result = "TIMED_OUT" => xfer[event.x].timedOut
    BY <1>1, <2>1 DEF IInv, Ending, Ends
  <2>3. Reason(xfer[event.x], lock[event.x], now)
    BY <1>1, <2>2, IInvIs DEF Sound
  <2>4. QED
    BY <2>2, <2>3 DEF Reason, Timed
<1>2. QED
  BY <1>1, Invariance, PTL

\* The list of flying transfers holds every transfer in flight once, and no
\* transfer that nobody is submitting or waiting for.
\* (libusb_submit_transfer, usbi_handle_transfer_completion)
THEOREM ListIsExact == Spec => []FlyingListExact
<1>1. ASSUME IInv  PROVE  FlyingListExact
  <2>1. flying \in Seq(Transfers) /\ DOMAIN flying = 1 .. Len(flying)
    BY <1>1 DEF IInv, TypeOK
  <2>2. IsInjective(flying)
    BY <1>1, <2>1 DEF IInv, Distinct, IsInjective
  <2>3. \A x \in Transfers : x \in Range(flying) <=> Listed(x)
    BY <2>1 DEF Listed, Range
  <2>4. QED
    BY <1>1, <2>2, <2>3 DEF IInv, Members, FlyingListExact
<1>2. QED
  BY <1>1, Invariance, PTL

\* No timeout is forgotten: the timer is set no later than the next timeout to
\* handle, or the first transfer of the list has timed out and its removal will
\* set it. (add_to_flying_list, remove_from_flying_list)
THEOREM NoTimeoutForgotten == Spec => []TimerCoversTimeouts
<1>1. ASSUME IInv, Waiting(xfer, flying) # {}
      PROVE  \/ armed # 0 /\ armed <= xfer[FirstWaiting(xfer, flying)].deadline
             \/ xfer[Head(flying)].handled
  <2> DEFINE W == Waiting(xfer, flying)
  <2>1. /\ flying \in Seq(Transfers) /\ DOMAIN flying = 1 .. Len(flying) /\ Len(flying) \in Nat
        /\ Ordered /\ HeadArmed
    BY <1>1 DEF IInv, TypeOK
  <2>2. W \subseteq 1 .. Len(flying) /\ \A n \in W : Timed(flying[n])
    BY <2>1 DEF Waiting
  <2>3. 1 \in 1 .. Len(flying) /\ flying # <<>> /\ Head(flying) = flying[1]
    BY <1>1, <2>1, <2>2
  <2>4. Timed(flying[1])
    <3>1. PICK n \in W : TRUE
      BY <1>1
    <3>2. CASE n = 1
      BY <2>2, <3>2
    <3>3. CASE n # 1
      BY <2>1, <2>2, <2>3, <3>3 DEF Ordered
    <3>4. QED
      BY <3>2, <3>3
  <2>5. CASE xfer[flying[1]].handled
    BY <2>3, <2>5
  <2>6. CASE ~xfer[flying[1]].handled
    <3>1. 1 \in W
      BY <2>1, <2>3, <2>4, <2>6 DEF Waiting
    <3> HIDE DEF W
    <3>2. Min(W) \in W /\ \A n \in W : Min(W) <= n
      BY <2>1, <2>2, <3>1, W \in SUBSET Nat, MinIs
    <3>3. Min(W) = 1
      <4>1. Min(W) \in 1 .. Len(flying) /\ Min(W) <= 1
        BY <2>2, <3>1, <3>2
      <4>2. QED
        BY <2>1, <4>1
    <3>4. FirstWaiting(xfer, flying) = flying[1]
      BY <3>3 DEF FirstWaiting, W
    <3>5. armed # 0 /\ armed <= xfer[flying[1]].deadline
      BY <2>1, <2>3, <2>4, <2>6 DEF HeadArmed
    <3>6. QED
      BY <3>4, <3>5
  <2>7. QED
    BY <2>5, <2>6
<1>2. IInv => TimerCoversTimeouts
  BY <1>1 DEF TimerCoversTimeouts
<1>3. QED
  BY <1>2, Invariance, PTL

\* A transfer that is cancelled, has failed or has lost its device waits for
\* nothing but the reaping of URBs that are back, and none is missing from the
\* count that ends it. (op_cancel_transfer, submit_bulk_transfer)
THEOREM EveryEndCertain == Spec => []EndIsCertain
<1>1. ASSUME IInv  PROVE  EndIsCertain
  <2>1. SUFFICES ASSUME NEW x \in Transfers, xfer[x].urbs, gone => reapAfter
                 PROVE  /\ xfer[x].retired + Cardinality(Held(xfer[x])) = NumUrbs[x]
                        /\ \/ xfer[x].cancelling \/ xfer[x].action # "NORMAL"
                           \/ xfer[x].status # "COMPLETED" \/ gone
                           => Queued(xfer[x]) = {}
    BY DEF EndIsCertain
  <2>2. Counted(NumUrbs[x], xfer[x], lock[x], Device)
    BY <1>1, IInvIs DEF Sound
  <2>3. Device # "forgotten" /\ (gone => Device # "present")
    BY <2>1 DEF Device
  <2>4. QED
    BY <2>1, <2>2, <2>3 DEF Counted
<1>2. QED
  BY <1>1, Invariance, PTL
=============================================================================
