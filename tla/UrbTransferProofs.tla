--------------------------- MODULE UrbTransferProofs ---------------------------
(***************************************************************************)
(* Theorems about a transfer of any number of URBs, of every kind but      *)
(* "split": where large bulk transfers are split without                   *)
(* USBFS_CAP_BULK_CONTINUATION, NoUrbLeft does not hold (see the README).  *)
(***************************************************************************)
EXTENDS UrbTransfer, FiniteSetTheorems, SequenceTheorems, TLAPS

UrbsOf(q) == {q[k].urb : k \in DOMAIN q}
Urb == [urb : Urbs, status : UrbStatuses]

\* No URB is at two places.
Apart(q, urbs) ==
  /\ \A j, k \in DOMAIN q : q[j].urb = q[k].urb => j = k
  /\ \A k \in DOMAIN q : q[k].urb \notin urbs

Once ==
  /\ Apart(reapable, inKernel)
  /\ evPc = "reaped" => inHand \in Urb /\ inHand.urb \notin inKernel \cup UrbsOf(reapable)

\* The URBs in a sequence come before one another and before those in urbs.
Line(q, urbs) ==
  /\ Ascending(q)
  /\ \A k \in DOMAIN q : \A i \in urbs : q[k].urb < i

\* As long as nothing has gone wrong URBs come back in the order of their submission.
InOrder ==
  allocated /\ action = "NORMAL" =>
    /\ Line(reapable, inKernel)
    /\ evPc = "reaped" => \A i \in inKernel \cup UrbsOf(reapable) : inHand.urb < i

\* What the way in which a URB ended tells.
Ended(r) ==
  /\ r.status = "overflow" /\ kind = "bulk" => r.urb = num
  /\ r.status = "stall" /\ kind = "bulk" => r.urb = num \/ disabled
  /\ r.status = "gone" => gone
  /\ kind = "control" => r.status # "short" /\ (r.status = "cancelled" => action = "CANCELLED")

AllEnded ==
  /\ \A k \in DOMAIN reapable : Ended(reapable[k])
  /\ evPc = "reaped" => Ended(inHand)

\* The kernel has nothing left after it has given back everything.
KernelGivesUp == gone \/ disabled => inKernel = {}

\* The event thread has had the last URB and is about to call the callback.
Reporting == {"report", "completing"}

\* What of the transfer exists in each phase.
Phases ==
  /\ phase = "idle" => ~allocated /\ Outstanding = {}
  /\ phase = "submitting" =>
       /\ allocated /\ action = "NORMAL" /\ retired = 0 /\ ~timedOut /\ ~cancelling
       /\ Outstanding = 1 .. next - 1
  /\ phase = "flying" => (allocated <=> evPc \notin Reporting)
  /\ evPc \in Reporting => phase = "flying" /\ Outstanding = {}
  /\ kind = "control" => num = 1

\* The last URB, which ends a transfer where nothing has gone wrong, is to come.
LastComes == phase = "flying" /\ allocated /\ action = "NORMAL" => num \in Outstanding

\* A verdict and a status that speak of a cancellation follow one.
Asked ==
  /\ action = "CANCELLED" \/ verdict \in {"cancel", "cancelled"} => cancelling
  /\ verdict = "timedOut" => timedOut
  /\ verdict \in {"cancelled", "timedOut"} => evPc = "completing"
  /\ verdict = "none" <=> evPc \notin Reporting
  /\ verdict \in {"cancel", "action"} => evPc = "report"
  /\ reapStatus \notin {"cancelled", "timedOut"}

\* A step that moves URBs from the kernel to those that can be reaped loses none.
Kept ==
  /\ reapable' \in Seq(Urb) /\ inKernel' \subseteq inKernel
  /\ Apart(reapable', inKernel')
  /\ inKernel' \cup UrbsOf(reapable') = inKernel \cup UrbsOf(reapable)

\* All URBs that come new have one of some statuses.
NewOnes(statuses) ==
  \A k \in DOMAIN reapable' : \/ k \in DOMAIN reapable /\ reapable'[k] = reapable[k]
                            \/ reapable'[k].status \in statuses

\* The verdicts of the handlers.
Reports == (Results \ {"cancelled", "timedOut"}) \cup {"cancel", "action"}

\* A handler leaves the rest for later, or finds that it has had the last URB.
Continues ==
  /\ Wait
  /\ action' = "NORMAL" => action = "NORMAL" /\ inHand.urb # num /\ Line(reapable', inKernel')

Ends ==
  /\ \E w \in Reports : Report(w) /\ (w = "cancel" => action = "CANCELLED")
  /\ retired + 1 = num \/ (action = "NORMAL" /\ inHand.urb = num)

\* What a handler may do to what is remembered of the transfer.
Remembers ==
  /\ action' \in Actions
  /\ action' = "CANCELLED" <=> action = "CANCELLED"
  /\ reapStatus' \in Results \ {"cancelled", "timedOut"}

IInv ==
  /\ TypeOK /\ RetiredIsCounted /\ NoUrbLeft
  /\ Once /\ InOrder /\ AllEnded /\ KernelGivesUp /\ Phases /\ LastComes /\ Asked
--------------------------------------------------------------------------------
\* Urbs is finite, and so is every set of URBs.
LEMMA UrbsFinite ==
  ASSUME num \in Nat, NEW urbs \in SUBSET Urbs
  PROVE  IsFiniteSet(urbs) /\ urbs \subseteq Int
<1>1. IsFiniteSet(Urbs)
  BY FS_Interval DEF Urbs
<1>2. IsFiniteSet(urbs)
  BY <1>1, FS_Subset
<1>3. QED
  BY <1>2 DEF Urbs

\* A sequence of URBs that were given back, and its effect at the end of another.
LEMMA Appended ==
  ASSUME num \in Nat, NEW p \in Seq(Urb),
         NEW urbs \in SUBSET Urbs, NEW s \in UrbStatuses, NEW q \in GivenBack(urbs, s)
  PROVE  /\ p \o q \in Seq(Urb)
         /\ DOMAIN (p \o q) = 1 .. Len(p) + Len(q)
         /\ DOMAIN p = 1 .. Len(p) /\ DOMAIN q = 1 .. Len(q)
         /\ Len(p) \in Nat /\ Len(q) \in Nat
         /\ \A k \in DOMAIN p : (p \o q)[k] = p[k]
         /\ \A k \in DOMAIN q : (p \o q)[Len(p) + k] = q[k]
         /\ \A k \in DOMAIN (p \o q) : k \notin DOMAIN p => k - Len(p) \in DOMAIN q
         /\ UrbsOf(q) = urbs
         /\ \A k \in DOMAIN q : q[k].status = s
         /\ urbs = {} => p \o q = p
<1> DEFINE n == Cardinality(urbs)
<1>1. n \in Nat
  BY UrbsFinite, FS_CardinalityType
<1>2. q \in [1 .. n -> [urb : urbs, status : {s}]] /\ urbs = UrbsOf(q)
  BY DEF GivenBack, UrbsOf
<1> DEFINE U == [urb : urbs, status : {s}]
<1> HIDE DEF n, U
<1>3. q \in Seq(U) /\ Len(q) = n /\ DOMAIN q = 1 .. n
  <2>1. q \in [1 .. n -> U]
    BY <1>2 DEF n, U
  <2>2. QED
    BY <1>1, <2>1
<1>4. \A k \in DOMAIN q : q[k].status = s
  BY <1>2, <1>3 DEF n
<1>5. q \in Seq(Urb)
  <2>1. U \subseteq Urb
    BY DEF U, Urb, Urbs
  <2>2. \A k \in 1 .. n : q[k] \in Urb
    BY <1>1, <1>3, <2>1
  <2>3. QED
    BY <1>1, <1>3, <2>2
<1>6. urbs = {} => p \o q = p
  <2> SUFFICES ASSUME urbs = {} PROVE p \o q = p
    OBVIOUS
  <2>1. n = 0
    BY FS_EmptySet DEF n
  <2>2. q = <<>>
    <3>1. q # <<>> => Len(q) \in Nat \ {0}
      BY <1>3, EmptySeq, Zenon
    <3>2. QED
      BY <1>3, <2>1, <3>1
  <2>3. QED
    BY <2>2, ConcatEmptySeq
<1>7. /\ p \o q \in Seq(Urb) /\ Len(p \o q) = Len(p) + Len(q)
      /\ DOMAIN (p \o q) = 1 .. Len(p) + Len(q)
      /\ DOMAIN p = 1 .. Len(p) /\ Len(p) \in Nat /\ Len(q) \in Nat
  BY <1>3, <1>5
<1>8. \A i \in 1 .. Len(p) + Len(q) :
        (p \o q)[i] = IF i <= Len(p) THEN p[i] ELSE q[i - Len(p)]
  BY <1>5, ConcatProperties
<1>9. \A k \in DOMAIN p : (p \o q)[k] = p[k]
  BY <1>7, <1>8
<1>10. \A k \in DOMAIN q : (p \o q)[Len(p) + k] = q[k]
  BY <1>3, <1>7, <1>8
<1>11. \A k \in DOMAIN (p \o q) : k \notin DOMAIN p => k - Len(p) \in DOMAIN q
  BY <1>3, <1>7
<1>12. QED
  BY <1>2, <1>3, <1>4, <1>6, <1>7, <1>9, <1>10, <1>11

\* URBs that the kernel gives back have left it, and nothing gets lost.
LEMMA Moved ==
  ASSUME num \in Nat, NEW p \in Seq(Urb),
         NEW urbs \in SUBSET Urbs, NEW s \in UrbStatuses, NEW q \in GivenBack(urbs, s),
         Ascending(q) \/ Descending(q),
         NEW kernel, urbs \subseteq kernel, Apart(p, kernel)
  PROVE  /\ Apart(p \o q, kernel \ urbs)
         /\ UrbsOf(p \o q) = UrbsOf(p) \cup urbs
<1> DEFINE r == p \o q
<1>a. /\ DOMAIN r = 1 .. Len(p) + Len(q)
      /\ DOMAIN p = 1 .. Len(p) /\ DOMAIN q = 1 .. Len(q)
      /\ Len(p) \in Nat /\ Len(q) \in Nat
      /\ \A k \in DOMAIN p : r[k] = p[k]
      /\ \A k \in DOMAIN q : r[Len(p) + k] = q[k]
      /\ \A k \in DOMAIN r : k \notin DOMAIN p => k - Len(p) \in DOMAIN q
      /\ UrbsOf(q) = urbs
  BY Appended
<1> HIDE DEF r
<1>b. \A k \in DOMAIN q : q[k].urb \in urbs
  BY <1>a DEF UrbsOf
<1>c. \A k \in DOMAIN r :
        \/ k \in DOMAIN p /\ r[k] = p[k]
        \/ k - Len(p) \in DOMAIN q /\ r[k] = q[k - Len(p)]
  <2> SUFFICES ASSUME NEW k \in DOMAIN r, k \notin DOMAIN p
               PROVE  k - Len(p) \in DOMAIN q /\ r[k] = q[k - Len(p)]
    BY <1>a
  <2>1. k - Len(p) \in DOMAIN q /\ k = Len(p) + (k - Len(p))
    BY <1>a
  <2>2. QED
    BY <1>a, <2>1
<1>1. \A j, k \in DOMAIN q : q[j].urb = q[k].urb => j = k
  <2> SUFFICES ASSUME NEW j \in DOMAIN q, NEW k \in DOMAIN q, q[j].urb = q[k].urb, j # k
               PROVE  FALSE
    OBVIOUS
  <2>1. j < k \/ k < j
    BY <1>a
  <2>2. q[j].urb \in Int /\ q[k].urb \in Int
    BY <1>b, UrbsFinite
  <2>3. QED
    BY <2>1, <2>2 DEF Ascending, Descending
<1>2. \A j, k \in DOMAIN r : r[j].urb = r[k].urb => j = k
  <2> SUFFICES ASSUME NEW j \in DOMAIN r, NEW k \in DOMAIN r, r[j].urb = r[k].urb
               PROVE  j = k
    OBVIOUS
  <2>1. CASE j \in DOMAIN p /\ k \in DOMAIN p
    BY <2>1, <1>a DEF Apart
  <2>2. CASE j \notin DOMAIN p /\ k \notin DOMAIN p
    <3>1. j - Len(p) = k - Len(p)
      BY <2>2, <1>c, <1>1
    <3>2. QED
      BY <3>1, <1>a
  <2>3. CASE j \in DOMAIN p /\ k \notin DOMAIN p
    <3>1. r[j].urb = p[j].urb /\ r[k].urb \in urbs
      BY <2>3, <1>a, <1>b, <1>c
    <3>2. QED
      BY <2>3, <3>1 DEF Apart
  <2>4. CASE j \notin DOMAIN p /\ k \in DOMAIN p
    <3>1. r[k].urb = p[k].urb /\ r[j].urb \in urbs
      BY <2>4, <1>a, <1>b, <1>c
    <3>2. QED
      BY <2>4, <3>1 DEF Apart
  <2>5. QED
    BY <2>1, <2>2, <2>3, <2>4
<1>3. \A k \in DOMAIN r : r[k].urb \notin kernel \ urbs
  BY <1>b, <1>c DEF Apart
<1>4. UrbsOf(r) = UrbsOf(p) \cup urbs
  <2>1. UrbsOf(r) \subseteq UrbsOf(p) \cup urbs
    BY <1>b, <1>c DEF UrbsOf
  <2>2. UrbsOf(p) \subseteq UrbsOf(r)
    <3>1. \A k \in DOMAIN p : k \in DOMAIN r /\ r[k] = p[k]
      BY <1>a
    <3>2. QED
      BY <3>1 DEF UrbsOf
  <2>3. UrbsOf(q) \subseteq UrbsOf(r)
    <3>1. \A k \in DOMAIN q : Len(p) + k \in DOMAIN r /\ r[Len(p) + k] = q[k]
      BY <1>a
    <3>2. QED
      BY <3>1 DEF UrbsOf
  <2>4. QED
    BY <2>1, <2>2, <2>3, <1>a
<1>5. QED
  BY <1>2, <1>3, <1>4 DEF Apart, r

\* URBs that come back in order, before those that stay, stay in line.
LEMMA InLine ==
  ASSUME num \in Nat, NEW p \in Seq(Urb),
         NEW urbs \in SUBSET Urbs, NEW s \in UrbStatuses, NEW q \in GivenBack(urbs, s),
         Ascending(q),
         NEW kernel, urbs \subseteq kernel, Line(p, kernel),
         \A i \in urbs : \A j \in kernel \ urbs : i < j
  PROVE  Line(p \o q, kernel \ urbs)
<1> DEFINE r == p \o q
<1>a. /\ DOMAIN r = 1 .. Len(p) + Len(q)
      /\ DOMAIN p = 1 .. Len(p) /\ DOMAIN q = 1 .. Len(q)
      /\ Len(p) \in Nat /\ Len(q) \in Nat
      /\ \A k \in DOMAIN p : r[k] = p[k]
      /\ \A k \in DOMAIN q : r[Len(p) + k] = q[k]
      /\ \A k \in DOMAIN r : k \notin DOMAIN p => k - Len(p) \in DOMAIN q
      /\ UrbsOf(q) = urbs
  BY Appended
<1> HIDE DEF r
<1>b. \A k \in DOMAIN q : q[k].urb \in urbs
  BY <1>a DEF UrbsOf
<1>c. \A k \in DOMAIN r :
        \/ k \in DOMAIN p /\ r[k] = p[k]
        \/ k \notin DOMAIN p /\ k - Len(p) \in DOMAIN q /\ r[k] = q[k - Len(p)]
  <2> SUFFICES ASSUME NEW k \in DOMAIN r, k \notin DOMAIN p
               PROVE  k - Len(p) \in DOMAIN q /\ r[k] = q[k - Len(p)]
    BY <1>a
  <2>1. k - Len(p) \in DOMAIN q /\ k = Len(p) + (k - Len(p))
    BY <1>a
  <2>2. QED
    BY <1>a, <2>1
<1>1. Ascending(r)
  <2> SUFFICES ASSUME NEW j \in DOMAIN r, NEW k \in DOMAIN r, j < k
               PROVE  r[j].urb < r[k].urb
    BY DEF Ascending
  <2>1. CASE k \in DOMAIN p
    BY <2>1, <1>a DEF Line, Ascending
  <2>2. CASE j \in DOMAIN p /\ k \notin DOMAIN p
    <3>1. r[j] = p[j] /\ r[k].urb \in urbs
      BY <2>2, <1>a, <1>b, <1>c
    <3>2. QED
      BY <2>2, <3>1 DEF Line
  <2>3. CASE j \notin DOMAIN p /\ k \notin DOMAIN p
    <3>1. j - Len(p) \in DOMAIN q /\ k - Len(p) \in DOMAIN q /\ j - Len(p) < k - Len(p)
      BY <2>3, <1>a
    <3>2. r[j] = q[j - Len(p)] /\ r[k] = q[k - Len(p)]
      BY <2>3, <1>c
    <3>3. QED
      BY <3>1, <3>2 DEF Ascending
  <2>4. QED
    BY <2>1, <2>2, <2>3
<1>2. \A k \in DOMAIN r : \A i \in kernel \ urbs : r[k].urb < i
  BY <1>b, <1>c DEF Line
<1>3. QED
  BY <1>1, <1>2 DEF Line, r

\* What a discard leaves.
LEMMA DiscardKeeps ==
  ASSUME TypeOK, Once, NEW urbs, Discard(urbs)
  PROVE  /\ Kept /\ NewOnes({"cancelled"}) /\ UNCHANGED <<disabled, gone>>
         /\ inKernel = {} => reapable' = reapable
<1>0. PICK refused \in SUBSET (urbs \cap inKernel) :
        /\ inKernel' = (inKernel \ urbs) \cup refused
        /\ \E q \in Discarded((urbs \cap inKernel) \ refused) : reapable' = reapable \o q
        /\ UNCHANGED <<disabled, gone>>
  BY DEF Discard
<1> DEFINE S == (urbs \cap inKernel) \ refused
<1>1. PICK q \in Discarded(S) : reapable' = reapable \o q
  BY <1>0
<1>2. q \in GivenBack(S, "cancelled") /\ Descending(q)
  BY DEF Discarded
<1>3. reapable \in Seq(Urb) /\ num \in Nat /\ S \in SUBSET Urbs
  BY UrbAssumption DEF TypeOK, Urb
<1>6. Apart(reapable, inKernel) /\ S \subseteq inKernel
  BY DEF Once
<1>7. inKernel' = inKernel \ S
  BY <1>0
<1> HIDE DEF S
<1>8. Apart(reapable', inKernel') /\ UrbsOf(reapable') = UrbsOf(reapable) \cup S
  BY <1>1, <1>2, <1>3, <1>6, <1>7, Moved DEF UrbStatuses
<1> DEFINE r == reapable \o q
<1>9. /\ r \in Seq(Urb)
      /\ DOMAIN r = 1 .. Len(reapable) + Len(q)
      /\ DOMAIN reapable = 1 .. Len(reapable) /\ DOMAIN q = 1 .. Len(q)
      /\ Len(reapable) \in Nat /\ Len(q) \in Nat
      /\ \A k \in DOMAIN reapable : r[k] = reapable[k]
      /\ \A k \in DOMAIN q : r[Len(reapable) + k] = q[k]
      /\ \A k \in DOMAIN r : k \notin DOMAIN reapable => k - Len(reapable) \in DOMAIN q
      /\ UrbsOf(q) = S
      /\ \A k \in DOMAIN q : q[k].status = "cancelled"
      /\ S = {} => r = reapable
  BY <1>2, <1>3, Appended DEF UrbStatuses
<1>r. reapable' = r
  BY <1>1
<1> HIDE DEF r
<1>10. ASSUME NEW k \in DOMAIN r, k \notin DOMAIN reapable
       PROVE  r[k].status = "cancelled"
  <2>1. k - Len(reapable) \in DOMAIN q /\ k = Len(reapable) + (k - Len(reapable))
    BY <1>9, <1>10
  <2>2. r[k] = q[k - Len(reapable)]
    BY <1>9, <2>1
  <2>3. QED
    BY <1>9, <2>1, <2>2
<1>11. inKernel = {} => S = {}
  BY DEF S
<1>12. QED
  BY <1>0, <1>6, <1>7, <1>8, <1>9, <1>r, <1>10, <1>11 DEF Kept, NewOnes

\* What the completion of a URB leaves.
LEMMA CompletesKeeps ==
  ASSUME TypeOK, Once, KernelCompletes
  PROVE  /\ Kept
         /\ Line(reapable, inKernel) => Line(reapable', inKernel')
         /\ \A k \in DOMAIN reapable' :
              \/ k \in DOMAIN reapable /\ reapable'[k] = reapable[k]
              \/ reapable'[k].status = "cancelled" /\ kind = "bulk"
              \/ /\ reapable'[k].urb \in inKernel
                 /\ reapable'[k].status \in Endings(reapable'[k].urb)
                 /\ kind = "bulk" /\ reapable'[k].status = "stall" =>
                      reapable'[k].urb = num \/ disabled'
         /\ disabled' => disabled \/ inKernel' = {}
         /\ disabled => disabled'
<1>1. PICK i \in inKernel : \E s \in Endings(i) :
        LET breaks == kind = "bulk" /\ s # "ok" /\ i < num
            rest == IF breaks THEN inKernel \ {i} ELSE {}
        IN /\ \A j \in inKernel : i <= j
           /\ \E q \in GivenBack(rest, "cancelled") :
                Ascending(q) /\ reapable' = Append(reapable, [urb |-> i, status |-> s]) \o q
           /\ inKernel' = inKernel \ ({i} \cup rest)
           /\ disabled' = (disabled \/ breaks)
  BY DEF KernelCompletes
<1>s. PICK s \in Endings(i) :
        LET breaks == kind = "bulk" /\ s # "ok" /\ i < num
            rest == IF breaks THEN inKernel \ {i} ELSE {}
        IN /\ \A j \in inKernel : i <= j
           /\ \E q \in GivenBack(rest, "cancelled") :
                Ascending(q) /\ reapable' = Append(reapable, [urb |-> i, status |-> s]) \o q
           /\ inKernel' = inKernel \ ({i} \cup rest)
           /\ disabled' = (disabled \/ breaks)
  BY <1>1
<1> DEFINE breaks == kind = "bulk" /\ s # "ok" /\ i < num
           rest == IF breaks THEN inKernel \ {i} ELSE {}
           one == <<[urb |-> i, status |-> s]>>
           p == reapable \o one
<1>2. /\ \A j \in inKernel : i <= j
      /\ inKernel' = (inKernel \ {i}) \ rest
      /\ disabled' = (disabled \/ breaks)
  BY <1>s
<1>3. PICK q \in GivenBack(rest, "cancelled") :
        Ascending(q) /\ reapable' = Append(reapable, [urb |-> i, status |-> s]) \o q
  BY <1>s
<1>4. /\ reapable \in Seq(Urb) /\ num \in Nat /\ inKernel \in SUBSET Urbs
      /\ s \in UrbStatuses /\ {i} \in SUBSET Urbs /\ rest \in SUBSET Urbs
  <2>1. s \in UrbStatuses
    BY DEF Endings, UrbStatuses
  <2>2. reapable \in Seq(Urb) /\ num \in Nat /\ inKernel \in SUBSET Urbs
    BY UrbAssumption DEF TypeOK, Urb
  <2>3. QED
    BY <2>1, <2>2
<1>5. Append(reapable, [urb |-> i, status |-> s]) = p
  BY <1>4 DEF Urb
<1>6. one \in GivenBack({i}, s)
  <2>1. Cardinality({i}) = 1
    BY FS_Singleton
  <2>2. one \in [1 .. 1 -> [urb : {i}, status : {s}]]
    OBVIOUS
  <2>3. {i} = {one[k].urb : k \in DOMAIN one}
    OBVIOUS
  <2>4. QED
    BY <2>1, <2>2, <2>3 DEF GivenBack
<1>7. Ascending(one)
  BY DEF Ascending
<1>8. i \in inKernel /\ rest \subseteq inKernel \ {i} /\ Apart(reapable, inKernel)
  BY DEF Once
<1>9. /\ p \in Seq(Urb)
      /\ DOMAIN p = 1 .. Len(reapable) + Len(one)
      /\ DOMAIN reapable = 1 .. Len(reapable) /\ DOMAIN one = 1 .. Len(one)
      /\ Len(reapable) \in Nat /\ Len(one) \in Nat
      /\ \A k \in DOMAIN reapable : p[k] = reapable[k]
      /\ \A k \in DOMAIN one : p[Len(reapable) + k] = one[k]
      /\ \A k \in DOMAIN p : k \notin DOMAIN reapable => k - Len(reapable) \in DOMAIN one
  <2> HIDE DEF one
  <2>1. QED
    BY <1>4, <1>6, Appended
<1>10. /\ Apart(p, inKernel \ {i})
       /\ UrbsOf(p) = UrbsOf(reapable) \cup {i}
  <2> HIDE DEF one
  <2>1. QED
    BY <1>4, <1>6, <1>7, <1>8, Moved
<1>11. Line(reapable, inKernel) => Line(p, inKernel \ {i})
  <2>1. \A a \in {i} : \A j \in inKernel \ {i} : a < j
    BY <1>2, <1>4 DEF Urbs
  <2> HIDE DEF one
  <2>2. QED
    BY <1>4, <1>6, <1>7, <1>8, <2>1, InLine
<1>12. \A k \in DOMAIN p : k \notin DOMAIN reapable => p[k] = [urb |-> i, status |-> s]
  <2> SUFFICES ASSUME NEW k \in DOMAIN p, k \notin DOMAIN reapable
               PROVE  p[k] = [urb |-> i, status |-> s]
    OBVIOUS
  <2> DEFINE j == k - Len(reapable)
  <2>1. j \in DOMAIN one /\ k = Len(reapable) + j
    BY <1>9
  <2>2. p[Len(reapable) + j] = one[j]
    BY <1>9, <2>1
  <2>3. one[j] = [urb |-> i, status |-> s]
    BY <2>1
  <2>4. QED
    BY <2>1, <2>2, <2>3
<1> HIDE DEF p, one
<1>p. p \in Seq(Urb) /\ num \in Nat /\ rest \in SUBSET Urbs
  BY <1>4, <1>9
<1> DEFINE r == p \o q
<1>13. reapable' = r
  BY <1>3, <1>5
<1>14. /\ r \in Seq(Urb)
       /\ DOMAIN r = 1 .. Len(p) + Len(q)
       /\ DOMAIN p = 1 .. Len(p) /\ DOMAIN q = 1 .. Len(q)
       /\ Len(p) \in Nat /\ Len(q) \in Nat
       /\ \A k \in DOMAIN p : r[k] = p[k]
       /\ \A k \in DOMAIN q : r[Len(p) + k] = q[k]
       /\ \A k \in DOMAIN r : k \notin DOMAIN p => k - Len(p) \in DOMAIN q
       /\ \A k \in DOMAIN q : q[k].status = "cancelled"
       /\ rest = {} => r = p
  <2> HIDE DEF rest
  <2>1. QED
    BY <1>p, Appended DEF UrbStatuses
<1>15. /\ Apart(r, (inKernel \ {i}) \ rest)
       /\ UrbsOf(r) = UrbsOf(p) \cup rest
  <2> HIDE DEF rest
  <2>1. QED
    BY <1>3, <1>p, <1>8, <1>10, Moved DEF UrbStatuses
<1>16. Line(p, inKernel \ {i}) => Line(r, (inKernel \ {i}) \ rest)
  <2>1. \A a \in rest : \A j \in (inKernel \ {i}) \ rest : a < j
    OBVIOUS
  <2> HIDE DEF rest
  <2>2. QED
    BY <1>3, <1>p, <1>8, <2>1, InLine DEF UrbStatuses
<1> HIDE DEF r
<1>17. ASSUME NEW k \in DOMAIN r, k \notin DOMAIN p
       PROVE  r[k].status = "cancelled" /\ kind = "bulk"
  <2>1. k - Len(p) \in DOMAIN q /\ k = Len(p) + (k - Len(p))
    BY <1>14, <1>17
  <2>2. r[k] = q[k - Len(p)]
    BY <1>14, <2>1
  <2>3. rest # {}
    BY <1>14, <1>17
  <2>4. kind = "bulk"
    BY <2>3
  <2>5. QED
    BY <1>14, <2>1, <2>2, <2>4
<1>18. \A k \in DOMAIN p : k \in DOMAIN r /\ r[k] = p[k]
  BY <1>14
<1>19. ASSUME NEW k \in DOMAIN r
       PROVE  \/ k \in DOMAIN reapable /\ r[k] = reapable[k]
              \/ r[k].status = "cancelled" /\ kind = "bulk"
              \/ /\ r[k].urb \in inKernel /\ r[k].status \in Endings(r[k].urb)
                 /\ kind = "bulk" /\ r[k].status = "stall" => r[k].urb = num \/ disabled'
  <2>1. CASE k \in DOMAIN reapable
    <3>1. k \in DOMAIN p /\ p[k] = reapable[k]
      BY <1>9, <2>1
    <3>2. QED
      BY <3>1, <1>18, <2>1
  <2>2. CASE k \in DOMAIN p /\ k \notin DOMAIN reapable
    <3>1. r[k] = [urb |-> i, status |-> s]
      BY <2>2, <1>12, <1>18
    <3>2. r[k].urb = i /\ r[k].status = s
      BY <3>1
    <3>3. i = num \/ i < num
      BY <1>4 DEF Urbs
    <3>4. kind = "bulk" /\ s = "stall" => i = num \/ disabled'
      BY <1>2, <3>3
    <3>5. QED
      BY <3>2, <3>4
  <2>3. CASE k \notin DOMAIN p
    BY <2>3, <1>17, <1>19
  <2>4. QED
    BY <2>1, <2>2, <2>3
<1>20. /\ disabled' => disabled \/ inKernel' = {}
       /\ disabled => disabled'
       /\ inKernel' \subseteq inKernel
  BY <1>2
<1>21. inKernel' \cup UrbsOf(reapable') = inKernel \cup UrbsOf(reapable)
  BY <1>2, <1>8, <1>10, <1>13, <1>15
<1> HIDE DEF rest, breaks
<1>22. QED
  BY <1>2, <1>11, <1>13, <1>14, <1>15, <1>16, <1>19, <1>20, <1>21 DEF Kept

\* What an unplug leaves.
LEMMA UnplugKeeps ==
  ASSUME TypeOK, Once, Unplug
  PROVE  /\ inKernel' = {} /\ Kept /\ NewOnes({"gone"})
         /\ Line(reapable, inKernel) => Line(reapable', inKernel')
<1>1. PICK q \in GivenBack(inKernel, "gone") : Ascending(q) /\ reapable' = reapable \o q
  BY DEF Unplug
<1>2. reapable \in Seq(Urb) /\ num \in Nat /\ inKernel \in SUBSET Urbs
  BY UrbAssumption DEF TypeOK, Urb
<1>3. Apart(reapable, inKernel) /\ inKernel' = {} /\ inKernel \ inKernel = {}
  BY DEF Once, Unplug
<1>4. Apart(reapable', inKernel \ inKernel) /\ UrbsOf(reapable') = UrbsOf(reapable) \cup inKernel
  BY <1>1, <1>2, <1>3, Moved DEF UrbStatuses
<1>5. Line(reapable, inKernel) => Line(reapable', inKernel \ inKernel)
  BY <1>1, <1>2, InLine DEF UrbStatuses
<1> DEFINE r == reapable \o q
<1>6. /\ r \in Seq(Urb)
      /\ DOMAIN reapable = 1 .. Len(reapable)
      /\ Len(reapable) \in Nat
      /\ \A k \in DOMAIN reapable : r[k] = reapable[k]
      /\ \A k \in DOMAIN q : r[Len(reapable) + k] = q[k]
      /\ DOMAIN r = 1 .. Len(reapable) + Len(q) /\ Len(q) \in Nat
      /\ \A k \in DOMAIN r : k \notin DOMAIN reapable => k - Len(reapable) \in DOMAIN q
      /\ \A k \in DOMAIN q : q[k].status = "gone"
  BY <1>2, Appended DEF UrbStatuses
<1>r. reapable' = r
  BY <1>1
<1> HIDE DEF r
<1>7. ASSUME NEW k \in DOMAIN r, k \notin DOMAIN reapable
      PROVE  r[k].status = "gone"
  <2>1. k - Len(reapable) \in DOMAIN q /\ k = Len(reapable) + (k - Len(reapable))
    BY <1>6, <1>7
  <2>2. r[k] = q[k - Len(reapable)]
    BY <1>6, <2>1
  <2>3. QED
    BY <1>6, <2>1, <2>2
<1>8. QED
  BY <1>3, <1>4, <1>5, <1>6, <1>7, <1>r DEF Kept, NewOnes

\* A URB that is handled is no longer outstanding, and it is counted: when all
\* have been counted, or the last one has come in its turn, none is left.
LEMMA HandleCounts ==
  ASSUME IInv, NEW types, Handle(types), evPc' # "reaped",
         inKernel' \cup UrbsOf(reapable') = inKernel \cup UrbsOf(reapable)
  PROVE  /\ phase = "flying" /\ allocated /\ inHand \in Urb
         /\ retired' \in 0 .. num
         /\ retired' + Cardinality(Outstanding') = num
         /\ retired + 1 = num => Outstanding' = {}
         /\ action = "NORMAL" /\ inHand.urb = num => Outstanding' = {} /\ retired + 1 = num
         /\ action = "NORMAL" /\ inHand.urb # num => num \in Outstanding'
<1>1. evPc = "reaped" /\ phase # "submitting" /\ retired' = retired + 1
  BY DEF Handle
<1>2. inHand \in Urb /\ inHand.urb \notin inKernel \cup UrbsOf(reapable)
  BY <1>1 DEF IInv, Once
<1>3. Outstanding = inKernel \cup UrbsOf(reapable) \cup {inHand.urb}
  BY <1>1 DEF Outstanding, UrbsOf
<1>4. Outstanding' = inKernel' \cup UrbsOf(reapable')
  BY DEF Outstanding, UrbsOf
<1>5. Outstanding' = Outstanding \ {inHand.urb}
  BY <1>2, <1>3, <1>4
<1>6. phase = "flying" /\ allocated
  BY <1>1, <1>3 DEF IInv, TypeOK, Phases, Reporting
<1>7. retired + Cardinality(Outstanding) = num
  BY <1>6 DEF IInv, RetiredIsCounted
<1>8. num \in Nat /\ retired \in Nat /\ Outstanding \in SUBSET Urbs
  <2>1. num \in Nat /\ retired \in Nat /\ inKernel \subseteq Urbs
    BY UrbAssumption DEF IInv, TypeOK
  <2>r. reapable \in Seq(Urb)
    BY DEF IInv, TypeOK, Urb
  <2>2. \A k \in DOMAIN reapable : reapable[k] \in Urb
    BY <2>r
  <2>3. UrbsOf(reapable) \subseteq Urbs
    BY <2>2 DEF UrbsOf, Urb
  <2>4. QED
    BY <1>2, <1>3, <2>1, <2>3 DEF Urb
<1>9. IsFiniteSet(Outstanding)
  BY <1>8, UrbsFinite
<1>10. /\ IsFiniteSet(Outstanding')
       /\ Cardinality(Outstanding') = Cardinality(Outstanding) - 1
  BY <1>3, <1>5, <1>9, FS_RemoveElement
<1>11. Cardinality(Outstanding) \in Nat /\ Cardinality(Outstanding') \in Nat
  BY <1>9, <1>10, FS_CardinalityType
<1>12. retired' + Cardinality(Outstanding') = num /\ retired' \in 0 .. num
  BY <1>1, <1>7, <1>8, <1>10, <1>11
<1>13. ASSUME retired + 1 = num PROVE Outstanding' = {}
  <2>1. Cardinality(Outstanding') = 0
    BY <1>1, <1>8, <1>11, <1>12, <1>13
  <2>2. QED
    BY <2>1, <1>10, FS_EmptySet
<1>14. ASSUME action = "NORMAL", inHand.urb = num PROVE Outstanding' = {} /\ retired + 1 = num
  <2>1. \A i \in inKernel \cup UrbsOf(reapable) : inHand.urb < i
    BY <1>1, <1>6, <1>14 DEF IInv, InOrder
  <2>2. \A i \in Outstanding' : i \in inKernel \cup UrbsOf(reapable) /\ i \in 1 .. num
    BY <1>2, <1>3, <1>5, <1>8 DEF Urbs
  <2>3. Outstanding' = {}
    BY <2>1, <2>2, <1>8, <1>14
  <2>4. Cardinality(Outstanding') = 0
    BY <2>3, FS_EmptySet
  <2>5. QED
    BY <2>3, <2>4, <1>1, <1>8, <1>12
<1>15. action = "NORMAL" /\ inHand.urb # num => num \in Outstanding'
  BY <1>5, <1>6 DEF IInv, LastComes
<1>16. QED
  BY <1>2, <1>6, <1>12, <1>13, <1>14, <1>15

\* A transfer that has not been submitted satisfies the invariant.
LEMMA InitIInv == Init => IInv
<1> SUFFICES ASSUME Init PROVE IInv
  OBVIOUS
<1>1. Outstanding = {}
  BY DEF Init, Outstanding
<1>2. TypeOK
  <2>1. kind \in Kinds /\ num \in 1 .. MaxUrbs
    BY UrbAssumption DEF Init
  <2>2. next \in Urbs /\ inKernel \subseteq Urbs /\ retired \in 0 .. num
    BY UrbAssumption, <2>1 DEF Init, Urbs
  <2>3. reapable \in Seq([urb : Urbs, status : UrbStatuses])
    BY DEF Init
  <2>4. inHand \in [urb : Urbs, status : UrbStatuses] \cup {NoUrb}
    BY DEF Init
  <2>5. disabled \in BOOLEAN /\ gone \in BOOLEAN /\ allocated \in BOOLEAN
    BY DEF Init
  <2>6. timedOut \in BOOLEAN /\ cancelling \in BOOLEAN
    BY DEF Init
  <2>7. QED
    BY <2>1, <2>2, <2>3, <2>4, <2>5, <2>6 DEF Init, TypeOK, Actions, Results
<1>3. Once /\ InOrder /\ AllEnded
  BY DEF Init, Once, InOrder, AllEnded, Apart, UrbsOf
<1>4. KernelGivesUp /\ Phases /\ LastComes /\ Asked /\ RetiredIsCounted /\ NoUrbLeft
  BY <1>1 DEF Init, KernelGivesUp, Phases, LastComes, Asked, RetiredIsCounted, NoUrbLeft, Reporting
<1>5. QED
  BY <1>2, <1>3, <1>4 DEF IInv

\* Facts about a state that several steps need.
LEMMA State ==
  ASSUME IInv
  PROVE  /\ num \in Nat \ {0} /\ next \in Nat \ {0} /\ next <= num /\ retired \in Nat
         /\ reapable \in Seq(Urb) /\ DOMAIN reapable = 1 .. Len(reapable)
         /\ Len(reapable) \in Nat
         /\ Outstanding = IF evPc = "reaped" THEN inKernel \cup UrbsOf(reapable) \cup {inHand.urb}
                          ELSE inKernel \cup UrbsOf(reapable)
         /\ Outstanding \subseteq Urbs
         /\ \A k \in DOMAIN reapable : reapable[k].urb \in Outstanding
         /\ Outstanding = {} => evPc # "reaped" /\ DOMAIN reapable = {} /\ inKernel = {}
         /\ evPc \in Reporting \/ phase = "idle" => Outstanding = {}
         /\ ~allocated => Outstanding = {}
<1>1. /\ num \in Nat \ {0} /\ next \in Nat \ {0} /\ next <= num /\ retired \in Nat
      /\ inKernel \subseteq Urbs
  BY UrbAssumption DEF IInv, TypeOK, Urbs
<1>2. reapable \in Seq(Urb)
  BY DEF IInv, TypeOK, Urb
<1>3. DOMAIN reapable = 1 .. Len(reapable) /\ Len(reapable) \in Nat
  BY <1>2
<1>4. \A k \in DOMAIN reapable : reapable[k] \in Urb
  BY <1>2
<1>5. Outstanding = IF evPc = "reaped" THEN inKernel \cup UrbsOf(reapable) \cup {inHand.urb}
                    ELSE inKernel \cup UrbsOf(reapable)
  BY DEF Outstanding, UrbsOf
<1>6. UrbsOf(reapable) \subseteq Urbs /\ \A k \in DOMAIN reapable : reapable[k].urb \in UrbsOf(reapable)
  BY <1>4 DEF UrbsOf, Urb
<1>7. evPc = "reaped" => inHand.urb \in Urbs
  BY DEF IInv, Once, Urb
<1>8. Outstanding \subseteq Urbs /\ \A k \in DOMAIN reapable : reapable[k].urb \in Outstanding
  BY <1>1, <1>5, <1>6, <1>7
<1>9. Outstanding = {} => evPc # "reaped" /\ DOMAIN reapable = {} /\ inKernel = {}
  BY <1>5, <1>8
<1>10. evPc \in Reporting \/ phase = "idle" => Outstanding = {}
  BY DEF IInv, Phases, Reporting
<1>11. ~allocated => Outstanding = {}
  BY DEF IInv, NoUrbLeft
<1>12. QED
  BY <1>1, <1>2, <1>3, <1>5, <1>8, <1>9, <1>10, <1>11

\* The owner's steps.
LEMMA SubmitKeeps == IInv /\ Submit => IInv'
<1> SUFFICES ASSUME IInv, Submit PROVE IInv'
  OBVIOUS
<1>1. /\ Outstanding = {} /\ evPc # "reaped" /\ DOMAIN reapable = {} /\ inKernel = {}
      /\ evPc \notin Reporting
  BY State DEF Submit, IInv, Phases, Reporting
<1>2. /\ phase' = "submitting" /\ next' = 1 /\ allocated' = TRUE /\ action' = "NORMAL"
      /\ reapStatus' = "completed" /\ retired' = 0 /\ timedOut' = FALSE /\ cancelling' = FALSE
      /\ disabled' = FALSE
      /\ UNCHANGED <<kind, num, inKernel, reapable, gone, evPc, inHand, verdict, status>>
  BY DEF Submit, eventVars
<1>3. Outstanding' = Outstanding
  BY <1>2 DEF Outstanding
<1>4. TypeOK'
  <2>1. 1 \in Urbs /\ 0 \in 0 .. num
    BY State DEF Urbs
  <2>2. disabled' \in BOOLEAN /\ allocated' \in BOOLEAN /\ timedOut' \in BOOLEAN
        /\ cancelling' \in BOOLEAN
    BY <1>2
  <2>3. QED
    BY <1>2, <2>1, <2>2 DEF IInv, TypeOK, Urbs, Actions, Results
<1>5. Once' /\ InOrder' /\ AllEnded'
  BY <1>1, <1>2 DEF Once, Apart, InOrder, Line, Ascending, AllEnded
<1>6. KernelGivesUp' /\ LastComes' /\ RetiredIsCounted' /\ NoUrbLeft'
  BY <1>1, <1>2 DEF KernelGivesUp, LastComes, RetiredIsCounted, NoUrbLeft
<1>7. Phases'
  <2>1. 1 .. next' - 1 = {}
    BY <1>2
  <2>2. QED
    BY <1>1, <1>2, <1>3, <2>1 DEF IInv, Phases, Reporting
<1>8. Asked'
  BY <1>1, <1>2 DEF IInv, Asked, Reporting
<1>9. QED
  BY <1>4, <1>5, <1>6, <1>7, <1>8 DEF IInv

LEMMA SubmitUrbKeeps == IInv /\ SubmitUrb => IInv'
<1> SUFFICES ASSUME IInv, SubmitUrb PROVE IInv'
  OBVIOUS
<1> USE DEF ownerVars
<1>1. /\ phase = "submitting" /\ ~gone /\ ~disabled
      /\ inKernel' = inKernel \cup {next}
      /\ UNCHANGED <<kind, num, reapable, disabled, gone, timedOut, cancelling, allocated, action,
                     reapStatus, retired, evPc, inHand, verdict, status>>
  BY DEF SubmitUrb, privVars, eventVars
<1>2. \/ next = num /\ phase' = "flying" /\ next' = next
      \/ next # num /\ phase' = "submitting" /\ next' = next + 1
  BY DEF SubmitUrb
<1>3. /\ allocated /\ action = "NORMAL" /\ retired = 0 /\ ~timedOut /\ ~cancelling
      /\ Outstanding = 1 .. next - 1 /\ evPc \notin Reporting
  BY <1>1 DEF IInv, Phases, Reporting
<1>4. /\ num \in Nat \ {0} /\ next \in Nat \ {0} /\ next <= num
      /\ inKernel \subseteq Outstanding
      /\ \A k \in DOMAIN reapable : reapable[k].urb \in Outstanding
      /\ evPc = "reaped" => inHand.urb \in Outstanding
  BY State
<1>5. Outstanding' = Outstanding \cup {next}
  BY <1>1 DEF Outstanding
<1>6. Outstanding' = 1 .. next
  BY <1>3, <1>4, <1>5
<1>7. TypeOK'
  <2>1. next \in Urbs /\ (next # num => next + 1 \in Urbs)
    BY <1>4 DEF Urbs
  <2>2. QED
    BY <1>1, <1>2, <2>1 DEF IInv, TypeOK, Urbs
<1>8. next \notin Outstanding /\ \A i \in Outstanding : i < next
  BY <1>3, <1>4
<1>9. Once'
  <2>1. Apart(reapable, inKernel')
    BY <1>1, <1>4, <1>8 DEF IInv, Once, Apart
  <2>2. evPc = "reaped" => inHand \in Urb /\ inHand.urb \notin inKernel' \cup UrbsOf(reapable)
    BY <1>1, <1>4, <1>8 DEF IInv, Once
  <2>3. Urb' = Urb
    BY <1>1 DEF Urb, Urbs
  <2>4. QED
    BY <1>1, <2>1, <2>2, <2>3 DEF Once
<1>10. InOrder'
  <2>1. Line(reapable, inKernel')
    BY <1>1, <1>3, <1>4, <1>8 DEF IInv, InOrder, Line
  <2>2. evPc = "reaped" => \A i \in inKernel' \cup UrbsOf(reapable) : inHand.urb < i
    BY <1>1, <1>3, <1>4, <1>8 DEF IInv, InOrder
  <2>3. QED
    BY <1>1, <2>1, <2>2 DEF InOrder
<1>11. AllEnded'
  BY <1>1 DEF IInv, AllEnded, Ended
<1>12. KernelGivesUp' /\ Asked' /\ NoUrbLeft'
  BY <1>1, <1>3 DEF IInv, KernelGivesUp, Asked, NoUrbLeft, Reporting
<1>13. Phases'
  <2>1. CASE phase' = "flying"
    BY <2>1, <1>1, <1>3 DEF IInv, Phases, Reporting
  <2>2. CASE phase' = "submitting" /\ next' = next + 1
    <3>1. Outstanding' = 1 .. next' - 1
      BY <1>4, <1>6, <2>2
    <3>2. QED
      BY <2>2, <3>1, <1>1, <1>3 DEF IInv, Phases, Reporting
  <2>3. QED
    BY <1>2, <2>1, <2>2
<1>14. LastComes'
  BY <1>1, <1>2, <1>5 DEF LastComes
<1>15. RetiredIsCounted'
  <2> SUFFICES ASSUME phase' = "flying" PROVE retired' + Cardinality(Outstanding') = num'
    BY DEF RetiredIsCounted
  <2>1. Outstanding' = 1 .. num
    BY <1>2, <1>6
  <2>2. Cardinality(1 .. num) = num
    BY <1>4, FS_Interval
  <2>3. QED
    BY <1>1, <1>3, <1>4, <2>1, <2>2
<1>16. QED
  BY <1>7, <1>9, <1>10, <1>11, <1>12, <1>13, <1>14, <1>15 DEF IInv

LEMMA SubmitFailsKeeps == IInv /\ SubmitFails => IInv'
<1> SUFFICES ASSUME IInv, SubmitFails PROVE IInv'
  OBVIOUS
<1>1. /\ phase = "submitting" /\ next = 1 /\ phase' = "idle" /\ allocated' = FALSE
      /\ UNCHANGED <<kind, num, next, inKernel, reapable, disabled, gone, timedOut, cancelling,
                     action, reapStatus, retired, evPc, inHand, verdict, status>>
  BY DEF SubmitFails, kernelVars, eventVars
<1>2. Outstanding = {}
  BY <1>1 DEF IInv, Phases, Reporting
<1>3. evPc # "reaped" /\ DOMAIN reapable = {} /\ inKernel = {} /\ evPc \notin Reporting
  BY <1>1, <1>2, State DEF IInv, Phases, Reporting
<1>4. Outstanding' = {}
  BY <1>1, <1>2 DEF Outstanding
<1>5. TypeOK'
  <2>1. allocated' \in BOOLEAN
    BY <1>1
  <2>2. QED
    BY <1>1, <2>1 DEF IInv, TypeOK, Urbs
<1>6. Once' /\ InOrder' /\ AllEnded'
  BY <1>1, <1>3 DEF Once, Apart, InOrder, AllEnded
<1>7. KernelGivesUp' /\ LastComes' /\ RetiredIsCounted' /\ NoUrbLeft' /\ Asked'
  BY <1>1, <1>3, <1>4
  DEF IInv, KernelGivesUp, LastComes, RetiredIsCounted, NoUrbLeft, Asked, Reporting
<1>8. Phases'
  BY <1>1, <1>3, <1>4 DEF IInv, Phases, Reporting
<1>9. QED
  BY <1>5, <1>6, <1>7, <1>8 DEF IInv

\* The URBs before the one that was refused are counted as outstanding.
LEMMA SkipRestKeeps ==
  ASSUME IInv, NEW why \in {"SUBMIT_FAILED", "COMPLETED_EARLY"}, SkipRest(why),
         Kept, NewOnes({"cancelled"}), UNCHANGED <<disabled, gone>>
  PROVE  IInv'
<1> USE DEF ownerVars, Kept, NewOnes
<1>1. /\ phase = "submitting" /\ next > 1 /\ phase' = "flying"
      /\ action' = why /\ retired' = num - (next - 1)
      /\ UNCHANGED <<kind, num, next, timedOut, cancelling, allocated, reapStatus, evPc, inHand,
                     verdict, status>>
  BY DEF SkipRest, eventVars
<1>2. /\ allocated /\ action = "NORMAL" /\ ~timedOut /\ ~cancelling
      /\ Outstanding = 1 .. next - 1 /\ evPc \notin Reporting
  BY <1>1 DEF IInv, Phases, Reporting
<1>3. num \in Nat /\ next \in Nat /\ next <= num
  BY State
<1>4. kind # "control"
  BY <1>1, <1>3 DEF IInv, Phases, Reporting
<1>5. Outstanding' = Outstanding
  BY <1>1 DEF Outstanding, UrbsOf
<1>6. TypeOK'
  <2>1. num - (next - 1) \in 0 .. num
    BY <1>1, <1>3
  <2>2. inKernel' \subseteq Urbs
    BY DEF IInv, TypeOK
  <2>3. QED
    BY <1>1, <2>1, <2>2 DEF IInv, TypeOK, Urbs, Actions, Urb
<1>7. Once'
  <2>1. evPc = "reaped" => inHand \in Urb /\ inHand.urb \notin inKernel' \cup UrbsOf(reapable')
    BY DEF IInv, Once
  <2>2. Urb' = Urb
    BY <1>1 DEF Urb, Urbs
  <2>3. QED
    BY <1>1, <2>1, <2>2 DEF Once, Apart, UrbsOf
<1>8. AllEnded'
  <2>1. evPc = "reaped" => Ended(inHand)
    BY DEF IInv, AllEnded
  <2>2. \A k \in DOMAIN reapable : Ended(reapable[k])
    BY DEF IInv, AllEnded
  <2>3. QED
    BY <1>1, <1>4, <2>1, <2>2 DEF AllEnded, Ended
<1>9. InOrder' /\ LastComes' /\ NoUrbLeft' /\ Asked'
  BY <1>1, <1>2 DEF IInv, InOrder, LastComes, NoUrbLeft, Asked, Reporting
<1>10. KernelGivesUp' /\ Phases'
  BY <1>1, <1>2, <1>4 DEF IInv, KernelGivesUp, Phases, Reporting
<1>11. RetiredIsCounted'
  <2> DEFINE m == next - 1
  <2>i. m \in Int /\ ~(1 > m) /\ m - 1 + 1 = m
    BY <1>1, <1>3
  <2> HIDE DEF m
  <2>c. Cardinality(1 .. m) = m
    BY <2>i, FS_Interval
  <2>1. Cardinality(1 .. next - 1) = next - 1
    BY <2>c DEF m
  <2>2. retired' + Cardinality(Outstanding') = num'
    BY <1>1, <1>2, <1>3, <1>5, <2>1
  <2>3. QED
    BY <2>2 DEF RetiredIsCounted
<1>12. QED
  BY <1>6, <1>7, <1>8, <1>9, <1>10, <1>11 DEF IInv

LEMMA SubmitFailsLaterKeeps == IInv /\ SubmitFailsLater => IInv'
<1> SUFFICES ASSUME IInv, SubmitFailsLater PROVE IInv'
  OBVIOUS
<1>1. SkipRest("SUBMIT_FAILED") /\ Discard(1 .. next - 1)
  BY DEF SubmitFailsLater
<1>2. TypeOK /\ Once
  BY DEF IInv
<1>3. Kept /\ NewOnes({"cancelled"}) /\ UNCHANGED <<disabled, gone>>
  BY <1>1, <1>2, DiscardKeeps
<1>4. QED
  BY <1>1, <1>3, SkipRestKeeps

LEMMA SubmitStopsEarlyKeeps == IInv /\ SubmitStopsEarly => IInv'
<1> SUFFICES ASSUME IInv, SubmitStopsEarly PROVE IInv'
  OBVIOUS
<1>1. SkipRest("COMPLETED_EARLY") /\ UNCHANGED <<inKernel, reapable, disabled, gone>>
  BY DEF SubmitStopsEarly, kernelVars
<1>2. reapable \in Seq(Urb) /\ Apart(reapable, inKernel)
  BY State DEF IInv, Once
<1>3. Kept /\ NewOnes({"cancelled"}) /\ UNCHANGED <<disabled, gone>>
  BY <1>1, <1>2 DEF Kept, NewOnes
<1>4. QED
  BY <1>1, <1>3, SkipRestKeeps

LEMMA CancelUrbsKeeps == IInv /\ CancelUrbs /\ timedOut' \in {timedOut, TRUE} => IInv'
<1> SUFFICES ASSUME IInv, CancelUrbs, timedOut' \in {timedOut, TRUE} PROVE IInv'
  OBVIOUS
<1>1. /\ phase # "submitting" /\ action' \in {"ERROR", "CANCELLED"}
      /\ kind = "control" => action' = "CANCELLED"
      /\ cancelling' = TRUE
      /\ UNCHANGED <<kind, num, phase, next, allocated, reapStatus, retired, evPc, inHand,
                     verdict, status>>
  BY DEF CancelUrbs, Bulk, eventVars
<1>2. TypeOK /\ Once
  BY DEF IInv
<1>3. Kept /\ NewOnes({"cancelled"}) /\ UNCHANGED <<disabled, gone>>
  <2>1. CASE allocated
    <3>1. Discard(Urbs)
      BY <2>1 DEF CancelUrbs
    <3>2. QED
      BY <3>1, <1>2, DiscardKeeps
  <2>2. CASE ~allocated
    <3>1. UNCHANGED <<inKernel, reapable, disabled, gone>>
      BY <2>2 DEF CancelUrbs, kernelVars
    <3>2. reapable \in Seq(Urb) /\ Apart(reapable, inKernel)
      BY State DEF IInv, Once
    <3>3. QED
      BY <3>1, <3>2 DEF Kept, NewOnes
  <2>3. QED
    BY <2>1, <2>2
<1> USE <1>3 DEF Kept, NewOnes
<1>4. Outstanding' = Outstanding
  BY <1>1, <1>3 DEF Outstanding, UrbsOf
<1>5. TypeOK'
  <2>1. inKernel' \subseteq Urbs /\ cancelling' \in BOOLEAN /\ timedOut' \in BOOLEAN
    BY <1>1, <1>3 DEF IInv, TypeOK
  <2>2. QED
    BY <1>1, <1>3, <2>1 DEF IInv, TypeOK, Urbs, Actions, Urb
<1>6. Once'
  <2>1. evPc = "reaped" => inHand \in Urb /\ inHand.urb \notin inKernel' \cup UrbsOf(reapable')
    BY <1>3 DEF IInv, Once
  <2>2. Urb' = Urb
    BY <1>1 DEF Urb, Urbs
  <2>3. QED
    BY <1>1, <1>3, <2>1, <2>2 DEF Once, Apart, UrbsOf
<1>7. AllEnded'
  <2>1. evPc = "reaped" => Ended(inHand)
    BY DEF IInv, AllEnded
  <2>2. \A k \in DOMAIN reapable : Ended(reapable[k])
    BY DEF IInv, AllEnded
  <2>3. QED
    BY <1>1, <1>3, <2>1, <2>2 DEF AllEnded, Ended
<1>8. InOrder' /\ LastComes'
  BY <1>1 DEF InOrder, LastComes
<1>9. KernelGivesUp' /\ NoUrbLeft' /\ Asked' /\ RetiredIsCounted'
  <2>1. KernelGivesUp' /\ NoUrbLeft' /\ RetiredIsCounted'
    BY <1>1, <1>3, <1>4 DEF IInv, KernelGivesUp, NoUrbLeft, RetiredIsCounted
  <2>2. verdict' = "timedOut" => timedOut'
    BY <1>1 DEF IInv, Asked
  <2>3. Asked'
    BY <1>1, <2>2 DEF IInv, Asked, Reporting
  <2>4. QED
    BY <2>1, <2>3
<1>10. Phases'
  BY <1>1, <1>4 DEF IInv, Phases, Reporting
<1>11. QED
  BY <1>5, <1>6, <1>7, <1>8, <1>9, <1>10 DEF IInv

\* The kernel's steps move URBs; nothing else changes.
LEMMA KernelKeeps ==
  ASSUME IInv, UNCHANGED <<kind, num, ownerVars, privVars, eventVars>>,
         Kept, Line(reapable, inKernel) => Line(reapable', inKernel'),
         gone' \/ disabled' => inKernel' = {}, {gone', disabled'} \subseteq BOOLEAN,
         AllEnded'
  PROVE  IInv'
<1> USE DEF Kept
<1>1. UNCHANGED <<kind, num, phase, next, timedOut, cancelling, allocated, action, reapStatus,
                  retired, evPc, inHand, verdict, status>>
  BY DEF ownerVars, privVars, eventVars
<1>2. Outstanding' = Outstanding
  BY <1>1 DEF Outstanding, UrbsOf
<1>3. TypeOK'
  <2>1. inKernel' \subseteq Urbs /\ gone' \in BOOLEAN /\ disabled' \in BOOLEAN
    BY DEF IInv, TypeOK
  <2>2. QED
    BY <1>1, <2>1 DEF IInv, TypeOK, Urbs, Urb
<1>4. Once'
  <2>1. evPc = "reaped" => inHand \in Urb /\ inHand.urb \notin inKernel' \cup UrbsOf(reapable')
    BY DEF IInv, Once
  <2>2. Urb' = Urb
    BY <1>1 DEF Urb, Urbs
  <2>3. QED
    BY <1>1, <2>1, <2>2 DEF Once, Apart, UrbsOf
<1>5. InOrder'
  <2> SUFFICES ASSUME allocated, action = "NORMAL"
               PROVE  /\ Line(reapable', inKernel')
                      /\ evPc = "reaped" =>
                           \A i \in inKernel' \cup UrbsOf(reapable') : inHand.urb < i
    BY <1>1 DEF InOrder, Line, Ascending, UrbsOf
  <2>1. QED
    BY DEF IInv, InOrder
<1>6. KernelGivesUp' /\ LastComes' /\ RetiredIsCounted' /\ NoUrbLeft' /\ Asked'
  BY <1>1, <1>2 DEF IInv, KernelGivesUp, LastComes, RetiredIsCounted, NoUrbLeft, Asked, Reporting
<1>7. Phases'
  BY <1>1, <1>2 DEF IInv, Phases, Reporting
<1>8. QED
  BY <1>3, <1>4, <1>5, <1>6, <1>7 DEF IInv

LEMMA KernelCompletesKeeps == IInv /\ KernelCompletes => IInv'
<1> SUFFICES ASSUME IInv, KernelCompletes PROVE IInv'
  OBVIOUS
<1>1. UNCHANGED <<kind, num, gone, ownerVars, privVars, eventVars>> /\ disabled' \in BOOLEAN
  <2>1. UNCHANGED <<kind, num, gone, ownerVars, privVars, eventVars>>
    BY DEF KernelCompletes
  <2>2. PICK b \in BOOLEAN : disabled' = (disabled \/ b)
    BY DEF KernelCompletes
  <2>3. QED
    BY <2>1, <2>2 DEF IInv, TypeOK
<1>2. TypeOK /\ Once
  BY DEF IInv
<1>3. /\ Kept
      /\ Line(reapable, inKernel) => Line(reapable', inKernel')
      /\ \A k \in DOMAIN reapable' :
           \/ k \in DOMAIN reapable /\ reapable'[k] = reapable[k]
           \/ reapable'[k].status = "cancelled" /\ kind = "bulk"
           \/ /\ reapable'[k].urb \in inKernel
              /\ reapable'[k].status \in Endings(reapable'[k].urb)
              /\ kind = "bulk" /\ reapable'[k].status = "stall" =>
                   reapable'[k].urb = num \/ disabled'
      /\ disabled' => disabled \/ inKernel' = {}
      /\ disabled => disabled'
  BY <1>2, CompletesKeeps
<1>4. UNCHANGED <<kind, num, gone, action, evPc, inHand>>
  BY <1>1 DEF privVars, eventVars
<1>5. \A k \in DOMAIN reapable' : Ended(reapable[k])'
  <2> SUFFICES ASSUME NEW k \in DOMAIN reapable' PROVE Ended(reapable[k])'
    OBVIOUS
  <2>1. CASE k \in DOMAIN reapable /\ reapable'[k] = reapable[k]
    <3>1. Ended(reapable[k])
      BY <2>1 DEF IInv, AllEnded
    <3>2. QED
      BY <2>1, <3>1, <1>3, <1>4 DEF Ended
  <2>2. CASE reapable'[k].status = "cancelled" /\ kind = "bulk"
    BY <2>2, <1>4 DEF Ended
  <2>3. CASE /\ reapable'[k].status \in Endings(reapable'[k].urb)
             /\ kind = "bulk" /\ reapable'[k].status = "stall" => reapable'[k].urb = num \/ disabled'
    BY <2>3, <1>4 DEF Ended, Endings
  <2>4. QED
    BY <1>3, <2>1, <2>2, <2>3
<1>6. evPc = "reaped" => Ended(inHand)'
  BY <1>3, <1>4 DEF IInv, AllEnded, Ended
<1>7. AllEnded'
  BY <1>4, <1>5, <1>6 DEF AllEnded
<1>8. gone' \/ disabled' => inKernel' = {}
  BY <1>3, <1>4 DEF IInv, KernelGivesUp, Kept
<1>9. {gone', disabled'} \subseteq BOOLEAN
  BY <1>1, <1>4 DEF IInv, TypeOK
<1>10. QED
  BY <1>1, <1>3, <1>7, <1>8, <1>9, KernelKeeps

LEMMA UnplugStepKeeps == IInv /\ Unplug => IInv'
<1> SUFFICES ASSUME IInv, Unplug PROVE IInv'
  OBVIOUS
<1>1. gone' = TRUE /\ UNCHANGED <<kind, num, disabled, ownerVars, privVars, eventVars>>
  BY DEF Unplug
<1>2. TypeOK /\ Once
  BY DEF IInv
<1>3. /\ inKernel' = {} /\ Kept /\ NewOnes({"gone"})
      /\ Line(reapable, inKernel) => Line(reapable', inKernel')
  BY <1>2, UnplugKeeps
<1>4. UNCHANGED <<kind, num, disabled, action, evPc, inHand>>
  BY <1>1 DEF privVars, eventVars
<1>5. \A k \in DOMAIN reapable' : Ended(reapable[k])'
  <2> SUFFICES ASSUME NEW k \in DOMAIN reapable' PROVE Ended(reapable[k])'
    OBVIOUS
  <2>1. CASE k \in DOMAIN reapable /\ reapable'[k] = reapable[k]
    <3>1. Ended(reapable[k])
      BY <2>1 DEF IInv, AllEnded
    <3>2. QED
      BY <2>1, <3>1, <1>1, <1>4 DEF Ended
  <2>2. CASE reapable'[k].status = "gone"
    BY <2>2, <1>1, <1>4 DEF Ended
  <2>3. QED
    BY <1>3, <2>1, <2>2 DEF NewOnes
<1>6. evPc = "reaped" => Ended(inHand)'
  BY <1>1, <1>4 DEF IInv, AllEnded, Ended
<1>7. AllEnded'
  BY <1>4, <1>5, <1>6 DEF AllEnded
<1>8. {gone', disabled'} \subseteq BOOLEAN
  BY <1>1, <1>4 DEF IInv, TypeOK
<1>9. UNCHANGED <<kind, num, ownerVars, privVars, eventVars>> /\ inKernel' \subseteq inKernel
  BY <1>1, <1>3
<1>10. QED
  BY <1>3, <1>7, <1>8, <1>9, KernelKeeps

\* The event thread's steps.
LEMMA ReapKeeps == IInv /\ Reap => IInv'
<1> SUFFICES ASSUME IInv, Reap PROVE IInv'
  OBVIOUS
<1>1. /\ evPc = "idle" /\ reapable # <<>> /\ evPc' = "reaped"
      /\ inHand' = Head(reapable) /\ reapable' = Tail(reapable)
      /\ UNCHANGED <<kind, num, inKernel, disabled, gone, phase, next, timedOut, cancelling,
                     allocated, action, reapStatus, retired, verdict, status>>
  BY DEF Reap, ownerVars, privVars
<1>2. /\ reapable \in Seq(Urb) /\ Len(reapable) \in Nat /\ DOMAIN reapable = 1 .. Len(reapable)
      /\ reapable' \in Seq(Urb) /\ DOMAIN reapable' = 1 .. Len(reapable) - 1
      /\ Len(reapable) > 0 /\ 1 \in DOMAIN reapable
      /\ inHand' = reapable[1] /\ inHand' \in Urb
      /\ \A k \in DOMAIN reapable' : reapable'[k] = reapable[k + 1] /\ k + 1 \in DOMAIN reapable
  <2>1. reapable \in Seq(Urb) /\ DOMAIN reapable = 1 .. Len(reapable) /\ Len(reapable) \in Nat
    BY State
  <2>2. /\ reapable' \in Seq(Urb) /\ Len(reapable') = Len(reapable) - 1
        /\ Len(reapable) > 0 /\ inHand' = reapable[1]
        /\ \A k \in 1 .. Len(reapable') : reapable'[k] = reapable[k + 1]
    BY <1>1, <2>1, HeadTailProperties
  <2>3. DOMAIN reapable' = 1 .. Len(reapable')
    BY <2>2
  <2>4. inHand' \in Urb
    BY <2>1, <2>2
  <2>5. QED
    BY <2>1, <2>2, <2>3, <2>4
<1>3. UrbsOf(reapable) = {inHand'.urb} \cup UrbsOf(reapable')
  <2>1. \A k \in DOMAIN reapable : k # 1 => k - 1 \in DOMAIN reapable' /\ (k - 1) + 1 = k
    BY <1>2
  <2>2. \A k \in DOMAIN reapable :
          k # 1 => k - 1 \in DOMAIN reapable' /\ reapable'[k - 1] = reapable[k]
    BY <1>2, <2>1
  <2>3. UrbsOf(reapable) \subseteq {inHand'.urb} \cup UrbsOf(reapable')
    BY <1>2, <2>2 DEF UrbsOf
  <2>4. {inHand'.urb} \cup UrbsOf(reapable') \subseteq UrbsOf(reapable)
    BY <1>2 DEF UrbsOf
  <2>5. QED
    BY <2>3, <2>4
<1>4. Outstanding' = Outstanding
  <2>1. Outstanding = inKernel \cup UrbsOf(reapable)
    BY <1>1 DEF Outstanding, UrbsOf
  <2>2. Outstanding' = inKernel \cup UrbsOf(reapable') \cup {inHand'.urb}
    BY <1>1 DEF Outstanding, UrbsOf
  <2>3. QED
    BY <1>3, <2>1, <2>2
<1>5. TypeOK'
  BY <1>1, <1>2 DEF IInv, TypeOK, Urbs, Urb
<1>6. Once'
  <2>1. \A j, k \in DOMAIN reapable : reapable[j].urb = reapable[k].urb => j = k
    BY DEF IInv, Once, Apart
  <2>2. \A k \in DOMAIN reapable : reapable[k].urb \notin inKernel
    BY DEF IInv, Once, Apart
  <2>3. ASSUME NEW j \in DOMAIN reapable', NEW k \in DOMAIN reapable',
               reapable'[j].urb = reapable'[k].urb
        PROVE  j = k
    <3>1. j + 1 = k + 1
      BY <1>2, <2>1, <2>3
    <3>2. QED
      BY <1>2, <3>1
  <2>4. Apart(reapable', inKernel)
    BY <1>2, <2>2, <2>3 DEF Apart
  <2>5. inHand'.urb \notin inKernel
    BY <1>2, <2>2
  <2>6. \A k \in DOMAIN reapable' : reapable'[k].urb # inHand'.urb
    <3>1. \A k \in DOMAIN reapable' : k + 1 # 1
      BY <1>2
    <3>2. QED
      BY <1>2, <2>1, <3>1
  <2>7. inHand'.urb \notin UrbsOf(reapable')
    BY <2>6 DEF UrbsOf
  <2>8. Urb' = Urb
    BY <1>1 DEF Urb, Urbs
  <2>9. QED
    BY <1>1, <1>2, <2>4, <2>5, <2>7, <2>8 DEF Once, Apart, UrbsOf
<1>7. InOrder'
  <2> SUFFICES ASSUME allocated, action = "NORMAL"
               PROVE  /\ Line(reapable', inKernel)
                      /\ \A i \in inKernel \cup UrbsOf(reapable') : inHand'.urb < i
    BY <1>1 DEF InOrder, Line, Ascending, UrbsOf
  <2>1. Line(reapable, inKernel)
    BY DEF IInv, InOrder
  <2>2. Ascending(reapable')
    <3>1. \A j, k \in DOMAIN reapable' : j < k => j + 1 < k + 1
      BY <1>2
    <3>2. QED
      BY <1>2, <2>1, <3>1 DEF Line, Ascending
  <2>3. \A k \in DOMAIN reapable' : 1 < k + 1
    BY <1>2
  <2>4. \A k \in DOMAIN reapable' : inHand'.urb < reapable'[k].urb
    BY <1>2, <2>1, <2>3 DEF Line, Ascending
  <2>5. QED
    BY <1>2, <2>1, <2>2, <2>4 DEF Line, UrbsOf
<1>8. AllEnded'
  BY <1>1, <1>2 DEF IInv, AllEnded, Ended
<1>9. KernelGivesUp' /\ LastComes' /\ RetiredIsCounted' /\ NoUrbLeft' /\ Asked'
  BY <1>1, <1>4 DEF IInv, KernelGivesUp, LastComes, RetiredIsCounted, NoUrbLeft, Asked, Reporting
<1>10. Phases'
  BY <1>1, <1>4 DEF IInv, Phases, Reporting
<1>11. QED
  BY <1>5, <1>6, <1>7, <1>8, <1>9, <1>10 DEF IInv

LEMMA HandleKeeps ==
  ASSUME IInv, Handle(AllKinds), Kept, UNCHANGED <<disabled, gone>>,
         NewOnes(IF kind = "control" THEN {} ELSE {"cancelled"}),
         Remembers, Continues \/ Ends
  PROVE  IInv'
<1> USE DEF ownerVars, Kept, NewOnes, Remembers, Continues, Ends
<1>1. /\ evPc = "reaped" /\ phase # "submitting" /\ inHand' = NoUrb /\ retired' = retired + 1
      /\ UNCHANGED <<kind, num, phase, next, timedOut, cancelling, status>>
  BY DEF Handle
<1>2. \/ evPc' = "idle" /\ allocated' = allocated /\ verdict' = verdict
      \/ evPc' = "report" /\ allocated' = FALSE /\ verdict' \in Reports
  BY DEF Wait, Report
<1>3. evPc' # "reaped"
  BY <1>2
<1>4. /\ phase = "flying" /\ allocated
      /\ retired' \in 0 .. num
      /\ retired' + Cardinality(Outstanding') = num
      /\ retired + 1 = num => Outstanding' = {}
      /\ action = "NORMAL" /\ inHand.urb = num => Outstanding' = {}
      /\ action = "NORMAL" /\ inHand.urb # num => num \in Outstanding'
  BY <1>3, HandleCounts
<1>5. TypeOK'
  <2>1. inKernel' \subseteq Urbs /\ allocated' \in BOOLEAN
    BY <1>2 DEF IInv, TypeOK
  <2>2. verdict' \in Results \cup {"none", "cancel", "action"}
    BY <1>2 DEF IInv, TypeOK, Reports
  <2>3. evPc' \in {"idle", "reaped", "report"}
    BY <1>2
  <2>4. QED
    BY <1>1, <1>4, <2>1, <2>2, <2>3 DEF IInv, TypeOK, Urbs, Urb, NoUrb, UrbStatuses
<1>6. Once'
  BY <1>3 DEF Once, Apart, UrbsOf
<1>7. InOrder' /\ LastComes'
  <2>1. allocated' /\ action' = "NORMAL" =>
          action = "NORMAL" /\ inHand.urb # num /\ Line(reapable', inKernel')
    BY <1>2, <1>3 DEF Wait, Report
  <2>2. QED
    BY <1>1, <1>3, <1>4, <2>1 DEF InOrder, LastComes, Line, Ascending
<1>8. AllEnded'
  <2>1. \A k \in DOMAIN reapable : Ended(reapable[k])
    BY DEF IInv, AllEnded
  <2>2. QED
    BY <1>1, <1>3, <2>1 DEF AllEnded, Ended
<1>9. evPc' = "report" => Outstanding' = {}
  BY <1>4 DEF Wait
<1>10. KernelGivesUp'
  BY DEF IInv, KernelGivesUp
<1>11. RetiredIsCounted' /\ NoUrbLeft'
  BY <1>1, <1>2, <1>4, <1>9 DEF RetiredIsCounted, NoUrbLeft
<1>12. Phases'
  BY <1>1, <1>2, <1>4, <1>9 DEF IInv, Phases, Reporting
<1>13. Asked'
  <2>1. verdict' = "cancel" => action = "CANCELLED" \/ verdict = "cancel"
    BY <1>2 DEF Wait, Report
  <2>2. verdict' = "none" <=> evPc' \notin Reporting
    BY <1>1, <1>2 DEF IInv, Asked, Reports, Results, Reporting
  <2>3. verdict' \notin {"cancelled", "timedOut"}
    BY <1>1, <1>2 DEF IInv, Asked, Reporting, Reports, Results
  <2>4. verdict' \in {"cancel", "action"} => evPc' = "report"
    BY <1>1, <1>2, <2>2 DEF IInv, Asked, Reporting
  <2>5. QED
    BY <1>1, <2>1, <2>2, <2>3, <2>4 DEF IInv, Asked, Reporting
<1>14. QED
  BY <1>5, <1>6, <1>7, <1>8, <1>10, <1>11, <1>12, <1>13 DEF IInv

\* A URB that only counts.
LEMMA KernelStays ==
  ASSUME IInv, UNCHANGED kernelVars
  PROVE  /\ Kept /\ NewOnes({}) /\ UNCHANGED <<disabled, gone>>
         /\ NewOnes(IF kind = "control" THEN {} ELSE {"cancelled"})
         /\ allocated /\ action = "NORMAL" => Line(reapable', inKernel')
<1>1. reapable \in Seq(Urb) /\ Apart(reapable, inKernel)
  BY State DEF IInv, Once
<1>2. UNCHANGED <<inKernel, reapable, disabled, gone>>
  BY DEF kernelVars
<1>3. allocated /\ action = "NORMAL" => Line(reapable, inKernel)
  BY DEF IInv, InOrder
<1>4. QED
  BY <1>1, <1>2, <1>3 DEF Kept, NewOnes

LEMMA HandleIsoKeeps == IInv /\ HandleIso => IInv'
<1> SUFFICES ASSUME IInv, HandleIso PROVE IInv'
  OBVIOUS
<1>1. Handle({"iso"}) /\ UNCHANGED kernelVars /\ action' = action /\ reapStatus' = reapStatus
  BY DEF HandleIso
<1>h. Handle(AllKinds)
  BY <1>1 DEF Handle, AllKinds
<1>2. Remembers
  BY <1>1 DEF IInv, TypeOK, Asked, Remembers, Reporting
<1>3. allocated
  BY <1>1, State DEF Handle, IInv, Phases, TypeOK, Reporting
<1>4. \/ Wait /\ (action = "NORMAL" => inHand.urb # num)
      \/ /\ \E w \in Reports : Report(w) /\ (w = "cancel" => action = "CANCELLED")
         /\ retired + 1 = num \/ (action = "NORMAL" /\ inHand.urb = num)
  <2>1. {"cancel", "error", "completed", "noDevice"} \subseteq Reports
    BY DEF Reports, Results
  <2>2. QED
    BY <2>1 DEF HandleIso
<1>5. Kept /\ NewOnes(IF kind = "control" THEN {} ELSE {"cancelled"}) /\ UNCHANGED <<disabled,
                                                                                     gone>>
      /\ (action = "NORMAL" => Line(reapable', inKernel'))
  BY <1>1, <1>3, KernelStays
<1>6. Continues \/ Ends
  BY <1>1, <1>4, <1>5 DEF Continues, Ends
<1>7. QED
  BY <1>h, <1>2, <1>5, <1>6, HandleKeeps

LEMMA HandleControlKeeps == IInv /\ HandleControl => IInv'
<1> SUFFICES ASSUME IInv, HandleControl PROVE IInv'
  OBVIOUS
<1>1. Handle({"control"}) /\ UNCHANGED kernelVars /\ action' = action /\ reapStatus' = reapStatus
  BY DEF HandleControl
<1>h. Handle(AllKinds)
  BY <1>1 DEF Handle, AllKinds
<1>2. Remembers
  BY <1>1 DEF IInv, TypeOK, Asked, Remembers, Reporting
<1>3. num = 1 /\ evPc = "reaped" /\ kind = "control"
  BY <1>1 DEF Handle, IInv, Phases, Reporting
<1>4. inHand \in Urb /\ Ended(inHand)
  BY <1>3 DEF IInv, Once, AllEnded
<1>5. \E w \in Reports : Report(w) /\ (w = "cancel" => action = "CANCELLED")
  <2>1. CASE action = "CANCELLED"
    <3>1. Report("cancel")
      BY <2>1 DEF HandleControl
    <3>2. QED
      BY <2>1, <3>1 DEF Reports
  <2>2. CASE action # "CANCELLED" /\ inHand.status = "ok"
    <3>1. Report("completed")
      BY <2>2 DEF HandleControl
    <3>2. QED
      BY <3>1 DEF Reports, Results
  <2>3. CASE action # "CANCELLED" /\ inHand.status = "gone"
    <3>1. Report("noDevice")
      BY <2>3 DEF HandleControl
    <3>2. QED
      BY <3>1 DEF Reports, Results
  <2>4. CASE action # "CANCELLED" /\ inHand.status \notin {"ok", "gone"}
    <3>1. Report(inHand.status)
      BY <2>4 DEF HandleControl
    <3>2. inHand.status \in {"stall", "overflow", "error"}
      BY <2>4, <1>3, <1>4 DEF Ended, Urb, UrbStatuses
    <3>3. QED
      BY <3>1, <3>2 DEF Reports, Results
  <2>5. QED
    BY <2>1, <2>2, <2>3, <2>4
<1>6. retired + 1 = num
  <2>1. phase = "flying" /\ allocated
    BY <1>1, State DEF Handle, IInv, Phases, TypeOK, Reporting
  <2>2. evPc' # "reaped"
    BY <1>5 DEF Report
  <2>3. UNCHANGED <<inKernel, reapable>>
    BY <1>1 DEF kernelVars
  <2>4. inKernel' \cup UrbsOf(reapable') = inKernel \cup UrbsOf(reapable)
    BY <2>3
  <2>5. retired' \in 0 .. num /\ retired' = retired + 1
    BY <1>1, <2>2, <2>4, HandleCounts DEF Handle
  <2>6. QED
    BY <1>3, <2>5, State
<1>7. Kept /\ NewOnes(IF kind = "control" THEN {} ELSE {"cancelled"}) /\ UNCHANGED <<disabled,
                                                                                     gone>>
  BY <1>1, KernelStays
<1>8. Ends
  BY <1>5, <1>6 DEF Ends
<1>9. QED
  BY <1>h, <1>2, <1>7, <1>8, HandleKeeps

LEMMA HandleBulkAbnormalKeeps == IInv /\ HandleBulkAbnormal => IInv'
<1> SUFFICES ASSUME IInv, HandleBulkAbnormal PROVE IInv'
  OBVIOUS
<1>1. /\ Handle({"bulk", "split"}) /\ UNCHANGED kernelVars /\ action' = action
      /\ action # "NORMAL"
  BY DEF HandleBulkAbnormal
<1>h. Handle(AllKinds)
  BY <1>1 DEF Handle, AllKinds
<1>2. Remembers
  <2>1. reapStatus' \in {reapStatus, "error"}
    BY DEF HandleBulkAbnormal
  <2>2. QED
    BY <1>1, <2>1 DEF IInv, TypeOK, Asked, Results, Remembers, Reporting
<1>3. Continues \/ Ends
  <2>1. \/ Wait
        \/ Report("action") /\ retired + 1 = num
    BY DEF HandleBulkAbnormal
  <2>2. "action" \in Reports
    BY DEF Reports
  <2>3. QED
    BY <1>1, <2>1, <2>2 DEF Continues, Ends
<1>4. Kept /\ NewOnes(IF kind = "control" THEN {} ELSE {"cancelled"}) /\ UNCHANGED <<disabled,
                                                                                     gone>>
  BY <1>1, KernelStays
<1>5. QED
  BY <1>h, <1>2, <1>3, <1>4, HandleKeeps

\* Here the order counts: the last URB is taken for the end of the transfer
\* although nothing but its place tells that the others have come back.
LEMMA HandleBulkKeeps == IInv /\ HandleBulk /\ kind # "split" => IInv'
<1> SUFFICES ASSUME IInv, HandleBulk, kind # "split" PROVE IInv'
  OBVIOUS
<1> DEFINE s == inHand.status
           last == inHand.urb = num
           full == s \in {"ok", "short", "cancelled"}
<1>1. /\ Handle({"bulk", "split"}) /\ action = "NORMAL" /\ reapStatus' = Remembered(s)
      /\ action' = CASE s = "error" -> "ERROR"
                     [] s \in {"short", "cancelled"} /\ ~last -> "COMPLETED_EARLY"
                     [] OTHER -> "NORMAL"
      /\ IF s = "overflow" \/ (full /\ last) \/ (s # "ok" /\ retired + 1 = num)
         THEN Report("action") /\ UNCHANGED kernelVars
         ELSE Wait /\ IF s = "ok" THEN UNCHANGED kernelVars ELSE Discard(inHand.urb + 1 .. num)
  BY DEF HandleBulk
<1>2. kind = "bulk" /\ evPc = "reaped" /\ phase = "flying" /\ allocated
  BY <1>1, State DEF Handle, IInv, Phases, TypeOK, Reporting
<1>3. inHand \in Urb /\ Ended(inHand)
  BY <1>2 DEF IInv, Once, AllEnded
<1>h. Handle(AllKinds)
  BY <1>1 DEF Handle, AllKinds
<1>4. /\ action' \in Actions /\ (action' = "CANCELLED" <=> action = "CANCELLED")
      /\ action' = "NORMAL" => s \notin {"error"} /\ (s \in {"short", "cancelled"} => last)
  BY <1>1 DEF Actions
<1>5. Remembers
  <2>1. reapStatus' \in {reapStatus, "noDevice"} \cup ({s} \cap {"stall", "overflow", "error"})
    BY <1>1 DEF Remembered
  <2>2. QED
    BY <1>4, <2>1 DEF IInv, TypeOK, Asked, Results, Remembers, Reporting
<1>6. CASE s = "overflow" \/ (full /\ last) \/ (s # "ok" /\ retired + 1 = num)
  <2>1. Report("action") /\ UNCHANGED kernelVars
    BY <1>1, <1>6
  <2>2. retired + 1 = num \/ last
    BY <1>2, <1>3, <1>6 DEF Ended
  <2>3. "action" \in Reports
    BY DEF Reports
  <2>4. Ends
    BY <1>1, <2>1, <2>2, <2>3 DEF Ends
  <2>5. Kept /\ NewOnes(IF kind = "control" THEN {} ELSE {"cancelled"}) /\ UNCHANGED <<disabled,
                                                                                       gone>>
    BY <2>1, KernelStays
  <2>6. QED
    BY <1>h, <1>5, <2>4, <2>5, HandleKeeps
<1>7. CASE ~(s = "overflow" \/ (full /\ last) \/ (s # "ok" /\ retired + 1 = num))
  <2>1. Wait
    BY <1>1, <1>7
  <2>2. CASE s = "ok"
    <3>1. UNCHANGED kernelVars /\ ~last
      BY <1>1, <1>7, <2>2
    <3>2. /\ Kept /\ NewOnes(IF kind = "control" THEN {} ELSE {"cancelled"})
          /\ UNCHANGED <<disabled, gone>> /\ Line(reapable', inKernel')
      BY <1>1, <1>2, <3>1, KernelStays
    <3>3. Continues
      BY <1>1, <2>1, <3>1, <3>2 DEF Continues
    <3>4. QED
      BY <1>h, <1>5, <3>2, <3>3, HandleKeeps
  <2>3. CASE s # "ok"
    <3>1. Discard(inHand.urb + 1 .. num)
      BY <1>1, <1>7, <2>3
    <3>2. TypeOK /\ Once
      BY DEF IInv
    <3>3. /\ Kept /\ NewOnes({"cancelled"}) /\ UNCHANGED <<disabled, gone>>
          /\ inKernel = {} => reapable' = reapable
      BY <3>1, <3>2, DiscardKeeps
    <3>k. /\ Kept /\ NewOnes(IF kind = "control" THEN {} ELSE {"cancelled"})
          /\ UNCHANGED <<disabled, gone>>
      BY <1>2, <3>3
    <3>4. ~last
      <4>1. evPc' # "reaped"
        BY <2>1 DEF Wait
      <4>2. last => retired + 1 = num
        BY <1>1, <3>3, <4>1, HandleCounts DEF Kept
      <4>3. QED
        BY <1>7, <2>3, <4>2
    <3>5. ASSUME action' = "NORMAL" PROVE Line(reapable', inKernel')
      <4>1. s \in {"stall", "gone"}
        BY <1>3, <1>4, <1>7, <2>3, <3>4, <3>5 DEF Urb, UrbStatuses
      <4>2. gone \/ disabled
        BY <1>2, <1>3, <3>4, <4>1 DEF Ended
      <4>3. inKernel = {}
        BY <4>2 DEF IInv, KernelGivesUp
      <4>4. reapable' = reapable /\ inKernel' = inKernel
        BY <3>3, <4>3 DEF Kept
      <4>5. Line(reapable, inKernel)
        BY <1>1, <1>2 DEF IInv, InOrder
      <4>6. QED
        BY <4>4, <4>5
    <3>6. Continues
      BY <1>1, <2>1, <3>4, <3>5 DEF Continues
    <3>7. QED
      BY <1>h, <1>5, <3>k, <3>6, HandleKeeps
  <2>4. QED
    BY <2>2, <2>3
<1>8. QED
  BY <1>6, <1>7

\* Giving the transfer back.
LEMMA LookKeeps == IInv /\ Look => IInv'
<1> SUFFICES ASSUME IInv, Look PROVE IInv'
  OBVIOUS
<1>1. /\ evPc = "report" /\ phase # "submitting" /\ evPc' = "completing"
      /\ UNCHANGED <<kind, num, inKernel, reapable, disabled, gone, phase, next, timedOut,
                     cancelling, allocated, action, reapStatus, retired, inHand, status>>
  BY DEF Look, kernelVars, ownerVars, privVars
<1>2. Outstanding = {} /\ ~allocated /\ verdict # "none"
  BY <1>1 DEF IInv, Phases, Asked, Reporting
<1>3. Outstanding' = {}
  BY <1>1, <1>2 DEF Outstanding
<1>4. /\ verdict' \in Results
      /\ verdict' = "cancelled" => cancelling
      /\ verdict' = "timedOut" => timedOut
  <2>1. reapStatus \in Results \ {"cancelled", "timedOut"}
    BY DEF IInv, TypeOK, Asked, Reporting
  <2>2. verdict \in Results \cup {"cancel", "action"}
    BY <1>2 DEF IInv, TypeOK
  <2>3. /\ action = "CANCELLED" \/ verdict \in {"cancel", "cancelled"} => cancelling
        /\ verdict = "timedOut" => timedOut
    BY DEF IInv, Asked, Reporting
  <2>4. \/ verdict \in {"cancel", "action"} /\ verdict' = "timedOut" /\ timedOut
        \/ (verdict = "cancel" \/ action = "CANCELLED") /\ verdict' = "cancelled"
        \/ verdict = "action" /\ verdict' = reapStatus
        \/ verdict \notin {"cancel", "action"} /\ verdict' = verdict
    BY DEF Look
  <2>5. QED
    BY <2>1, <2>2, <2>3, <2>4 DEF Results
<1>5. TypeOK'
  BY <1>1, <1>4 DEF IInv, TypeOK, Urbs, Results
<1>6. Once' /\ InOrder' /\ AllEnded'
  BY <1>1, <1>2, State DEF Once, Apart, InOrder, AllEnded
<1>7. KernelGivesUp' /\ LastComes' /\ RetiredIsCounted' /\ NoUrbLeft'
  BY <1>1, <1>2, <1>3, State DEF IInv, KernelGivesUp, LastComes, RetiredIsCounted, NoUrbLeft
<1>8. Phases'
  BY <1>1, <1>2, <1>3 DEF IInv, Phases, Reporting
<1>9. Asked'
  BY <1>1, <1>4 DEF IInv, Asked, Reporting, Results
<1>10. QED
  BY <1>5, <1>6, <1>7, <1>8, <1>9 DEF IInv

LEMMA CallbackKeeps == IInv /\ Callback => IInv'
<1> SUFFICES ASSUME IInv, Callback PROVE IInv'
  OBVIOUS
<1>1. /\ evPc = "completing" /\ evPc' = "idle" /\ phase' = "idle"
      /\ status' = verdict /\ verdict' = "none"
      /\ UNCHANGED <<kind, num, inKernel, reapable, disabled, gone, next, timedOut, cancelling,
                     allocated, action, reapStatus, retired, inHand>>
  BY DEF Callback, kernelVars, privVars
<1>2. Outstanding = {} /\ ~allocated /\ verdict \in Results
  BY <1>1 DEF IInv, TypeOK, Phases, Asked, Reporting
<1>3. Outstanding' = {}
  BY <1>1, <1>2 DEF Outstanding
<1>4. TypeOK'
  BY <1>1, <1>2 DEF IInv, TypeOK, Urbs, Results
<1>5. Once' /\ InOrder' /\ AllEnded'
  BY <1>1, <1>2, State DEF Once, Apart, InOrder, AllEnded
<1>6. KernelGivesUp' /\ LastComes' /\ RetiredIsCounted' /\ NoUrbLeft'
  BY <1>1, <1>2, <1>3, State DEF IInv, KernelGivesUp, LastComes, RetiredIsCounted, NoUrbLeft
<1>7. Phases' /\ Asked'
  BY <1>1, <1>2, <1>3 DEF IInv, Phases, Asked, Reporting
<1>8. QED
  BY <1>4, <1>5, <1>6, <1>7 DEF IInv

LEMMA DisconnectKeeps == IInv /\ Disconnect => IInv'
<1> SUFFICES ASSUME IInv, Disconnect PROVE IInv'
  OBVIOUS
<1>1. /\ evPc = "idle" /\ gone /\ phase = "flying"
      /\ allocated' = FALSE /\ phase' = "idle" /\ status' = "noDevice" /\ reapable' = <<>>
      /\ UNCHANGED <<kind, num, inKernel, disabled, gone, next, timedOut, cancelling, action,
                     reapStatus, retired, evPc, inHand, verdict>>
  BY DEF Disconnect
<1>2. inKernel = {}
  BY <1>1 DEF IInv, KernelGivesUp
<1>3. Outstanding' = {}
  BY <1>1, <1>2 DEF Outstanding
<1>4. TypeOK'
  <2>1. allocated' \in BOOLEAN
    BY <1>1
  <2>2. <<>> \in Seq([urb : Urbs, status : UrbStatuses])
    BY EmptySeq
  <2>3. QED
    BY <1>1, <2>1, <2>2 DEF IInv, TypeOK, Urbs, Results
<1>5. Once' /\ InOrder' /\ AllEnded'
  BY <1>1, <1>2 DEF Once, Apart, InOrder, AllEnded
<1>6. KernelGivesUp' /\ LastComes' /\ RetiredIsCounted' /\ NoUrbLeft'
  BY <1>1, <1>2, <1>3 DEF IInv, KernelGivesUp, LastComes, RetiredIsCounted, NoUrbLeft
<1>7. Phases' /\ Asked'
  BY <1>1, <1>2, <1>3 DEF IInv, Phases, Asked, Reporting
<1>8. QED
  BY <1>4, <1>5, <1>6, <1>7 DEF IInv

LEMMA NextIInv == "split" \notin Kinds /\ IInv /\ [Next]_vars => IInv'
<1> SUFFICES ASSUME "split" \notin Kinds, IInv, [Next]_vars
             PROVE  IInv'
  OBVIOUS
<1>1. CASE Submit
  BY <1>1, SubmitKeeps
<1>2. CASE SubmitStep
  BY <1>2, SubmitUrbKeeps, SubmitFailsKeeps, SubmitFailsLaterKeeps, SubmitStopsEarlyKeeps
  DEF SubmitStep
<1>3. CASE Cancel
  BY <1>3, CancelUrbsKeeps DEF Cancel, IInv, TypeOK
<1>4. CASE Timeout
  BY <1>4, CancelUrbsKeeps DEF Timeout
<1>5. CASE KernelCompletes
  BY <1>5, KernelCompletesKeeps
<1>6. CASE Unplug
  BY <1>6, UnplugStepKeeps
<1>7. CASE Reap
  BY <1>7, ReapKeeps
<1>8. CASE HandleUrb
  <2>1. kind # "split"
    BY DEF IInv, TypeOK
  <2>2. QED
    BY <1>8, <2>1, HandleIsoKeeps, HandleControlKeeps, HandleBulkAbnormalKeeps, HandleBulkKeeps
    DEF HandleUrb
<1>9. CASE Look \/ Callback
  BY <1>9, LookKeeps, CallbackKeeps
<1>10. CASE Disconnect
  BY <1>10, DisconnectKeeps
<1>11. CASE UNCHANGED vars
  BY <1>11
  DEF vars, kernelVars, ownerVars, privVars, eventVars, IInv, TypeOK, Urbs, RetiredIsCounted,
      Outstanding, NoUrbLeft, Once, Apart, UrbsOf, Urb, InOrder, Line, Ascending, AllEnded, Ended,
      KernelGivesUp, Phases, Reporting, LastComes, Asked
<1>12. QED
  BY <1>1, <1>2, <1>3, <1>4, <1>5, <1>6, <1>7, <1>8, <1>9, <1>10, <1>11 DEF Next
--------------------------------------------------------------------------------
\* Every variable keeps its type; num_retired, for one, never exceeds num_urbs.
THEOREM TypeCorrect ==
  ASSUME "split" \notin Kinds
  PROVE  Spec => []TypeOK
<1>1. IInv => TypeOK
  BY DEF IInv
<1>2. IInv /\ [Next]_vars => IInv'
  BY NextIInv
<1>3. QED
  BY InitIInv, <1>1, <1>2, PTL DEF Spec

\* However a transfer ends, its URBs are freed and its callback is called after
\* the last of them has come back.
THEOREM LastUrbEnds ==
  ASSUME "split" \notin Kinds
  PROVE  Spec => []NoUrbLeft
<1>1. IInv => NoUrbLeft
  BY DEF IInv
<1>2. IInv /\ [Next]_vars => IInv'
  BY NextIInv
<1>3. QED
  BY InitIInv, <1>1, <1>2, PTL DEF Spec

\* num_retired counts the URBs that are over, whatever was refused or discarded.
THEOREM CountExact ==
  ASSUME "split" \notin Kinds
  PROVE  Spec => []RetiredIsCounted
<1>1. IInv => RetiredIsCounted
  BY DEF IInv
<1>2. IInv /\ [Next]_vars => IInv'
  BY NextIInv
<1>3. QED
  BY InitIInv, <1>1, <1>2, PTL DEF Spec
--------------------------------------------------------------------------------
\* Each step is one of the contract's, or changes nothing that the owner sees.
LEMMA StepKeepsContract == IInv /\ [Next]_vars => [Contract!Next]_(Contract!vars)
<1> SUFFICES ASSUME IInv, [Next]_vars
             PROVE  [Contract!Next]_(Contract!vars)
  OBVIOUS
<1> USE DEF IInv, AtHome, Expired, Phases, Asked, Reporting, kernelVars, ownerVars, privVars,
        eventVars, Contract!Next, Contract!vars
<1>1. CASE Submit
  BY <1>1 DEF Submit
<1>2. CASE SubmitUrb
  <2>1. phase = "submitting" /\ ~timedOut /\ ~cancelling /\ UNCHANGED <<timedOut, cancelling,
                                                                        status>>
    BY <1>2 DEF SubmitUrb
  <2>2. AtHome' = FALSE
    BY <1>2, State DEF SubmitUrb
  <2>3. CASE AtHome
    <3>1. Contract!Submit(1)
      BY <2>1, <2>2, <2>3 DEF Contract!Submit
    <3>2. QED
      BY <3>1
  <2>4. CASE ~AtHome
    BY <2>1, <2>2, <2>4
  <2>5. QED
    BY <2>3, <2>4
<1>3. CASE SubmitFails
  BY <1>3 DEF SubmitFails
<1>4. CASE SubmitFailsLater \/ SubmitStopsEarly
  BY <1>4 DEF SubmitFailsLater, SubmitStopsEarly, SkipRest, Discard
<1>5. CASE Cancel
  BY <1>5 DEF Cancel, CancelUrbs, Contract!Cancel
<1>6. CASE Timeout
  <2>1. /\ phase = "flying" /\ ~timedOut /\ timedOut' = TRUE
        /\ UNCHANGED <<phase, next, status>>
    BY <1>6 DEF Timeout, CancelUrbs
  <2>2. ~AtHome /\ ~AtHome' /\ ~Expired /\ UNCHANGED <<evPc, verdict>>
    BY <1>6, <2>1 DEF Timeout, CancelUrbs
  <2>3. CASE Expired'
    <3>1. Contract!Expire(1)
      BY <2>1, <2>2, <2>3 DEF Contract!Expire
    <3>2. QED
      BY <3>1
  <2>4. CASE ~Expired'
    <3>1. cancelling /\ cancelling'
      BY <1>6, <2>1, <2>2, <2>4 DEF Timeout, CancelUrbs
    <3>2. QED
      BY <2>1, <2>2, <2>4, <3>1
  <2>5. QED
    BY <2>3, <2>4
<1>7. CASE KernelCompletes \/ Unplug \/ Reap
  <2>1. UNCHANGED <<phase, next, timedOut, cancelling, status>>
    BY <1>7 DEF KernelCompletes, Unplug, Reap
  <2>2. UNCHANGED <<evPc, verdict>> \/ "completing" \notin {evPc, evPc'}
    BY <1>7 DEF KernelCompletes, Unplug, Reap
  <2>3. QED
    BY <2>1, <2>2
<1>8. CASE HandleUrb
  <2>1. UNCHANGED <<phase, next, timedOut, cancelling, status>> /\ evPc = "reaped"
    BY <1>8 DEF HandleUrb, HandleIso, HandleControl, HandleBulkAbnormal, HandleBulk, Handle
  <2>2. evPc' # "completing"
    BY <1>8 DEF HandleUrb, HandleIso, HandleControl, HandleBulkAbnormal, HandleBulk, Wait, Report
  <2>3. QED
    BY <2>1, <2>2
<1>9. CASE Look
  <2>1. UNCHANGED <<phase, next, timedOut, cancelling, status>> /\ evPc # "completing"
    BY <1>9 DEF Look
  <2>2. verdict' = "cancelled" => ~timedOut
    BY <1>9, <2>1 DEF Look
  <2>3. Expired' = Expired
    BY <2>1, <2>2
  <2>4. QED
    BY <2>1, <2>3
<1>10. CASE Callback
  <2>1. /\ ~AtHome /\ AtHome' /\ status' = verdict /\ verdict \in Results
        /\ evPc = "completing"
    BY <1>10 DEF Callback, TypeOK, Reporting
  <2>2. verdict = "cancelled" => cancelling /\ ~Expired
    BY <2>1 DEF Expired
  <2>3. verdict = "timedOut" => Expired
    BY DEF Expired
  <2>4. Contract!Complete(1)
    BY <2>1, <2>2, <2>3 DEF Contract!Complete, Contract!Statuses, Results
  <2>5. QED
    BY <2>4
<1>11. CASE Disconnect
  BY <1>11 DEF Disconnect, Contract!Complete, Contract!Statuses
<1>12. CASE UNCHANGED vars
  BY <1>12 DEF vars, Expired
<1>13. QED
  BY <1>1, <1>2, <1>3, <1>4, <1>5, <1>6, <1>7, <1>8, <1>9, <1>10, <1>11, <1>12 DEF Next, SubmitStep

\* The safety part of KeepsContract: a transfer is given back once for each
\* submission, as cancelled or timed out only when it was.
THEOREM ContractSteps ==
  ASSUME "split" \notin Kinds
  PROVE  Spec => Contract!Safe
<1>1. Init => Contract!Init
  BY DEF Init, AtHome, Contract!Init
<1>2. IInv /\ [Next]_vars => IInv'
  BY NextIInv
<1>3. QED
  BY InitIInv, StepKeepsContract, <1>1, <1>2, PTL DEF Spec, Contract!Safe
================================================================================
