-------------------------- MODULE AdmissionProofs ---------------------------
(***************************************************************************)
(* The limits of the Redis rate limiter, and the caps and slots of the     *)
(* wait that follows a denial: proofs about RateLimiter, LazyAdmission and *)
(* their composition, for any number of requests, any limits, windows and  *)
(* TTLs, and any workload that the settings allow.                         *)
(***************************************************************************)
EXTENDS Admission, FiniteSetTheorems, TLAPS

\* Few steps need arithmetic or the values of strings; those name SMT.
USE Zenon

-----------------------------------------------------------------------------
(* The tokens of a set of requests *)

\* The tokens of one request, counted one by one.
LEMMA TokensOfOne ==
    ASSUME NEW r \in Request
    PROVE  LET own == {r} \X (1 .. Tokens[r])
           IN  IsFiniteSet(own) /\ Cardinality(own) = Tokens[r]
<1>0. Tokens[r] \in Nat
  BY RequestType
<1>1. IsFiniteSet(1 .. Tokens[r]) /\ Cardinality(1 .. Tokens[r]) = Tokens[r]
  <2>1. 1 \in Int /\ Tokens[r] \in Int
    BY <1>0, SMT
  <2>2. /\ IsFiniteSet(1 .. Tokens[r])
        /\ Cardinality(1 .. Tokens[r]) = IF 1 > Tokens[r] THEN 0 ELSE Tokens[r] - 1 + 1
    BY <2>1, FS_Interval
  <2> QED BY <1>0, <2>2, SMT
<1>2. IsFiniteSet({r}) /\ Cardinality({r}) = 1
  BY FS_Singleton
<1>3. /\ IsFiniteSet({r} \X (1 .. Tokens[r]))
      /\ Cardinality({r} \X (1 .. Tokens[r])) = Cardinality({r}) * Cardinality(1 .. Tokens[r])
  BY <1>1, <1>2, FS_Product, Zenon
<1> QED BY <1>0, <1>1, <1>2, <1>3, SMT

\* Finitely many requests have finitely many tokens.
LEMMA TokensFinite ==
    ASSUME NEW S, S \subseteq Request
    PROVE  IsFiniteSet(Units(S, Tokens)) /\ Total(S, Tokens) \in Nat
<1> DEFINE own == [r \in S |-> {r} \X (1 .. Tokens[r])]
           T == {{r} \X (1 .. Tokens[r]) : r \in S}
<1>1. own \in Surjection(S, T)
  BY ZenonT(30) DEF Surjection
<1>2. IsFiniteSet(S)
  BY RequestType, FS_Subset
<1>3. IsFiniteSet(T)
  <2> HIDE DEF own, T
  <2> QED BY <1>1, <1>2, FS_Surjection
<1>4. \A U \in T : IsFiniteSet(U)
  <2> SUFFICES ASSUME NEW r \in S PROVE IsFiniteSet({r} \X (1 .. Tokens[r]))
    OBVIOUS
  <2> QED BY TokensOfOne
<1>5. IsFiniteSet(UNION T)
  <2> HIDE DEF T
  <2> QED BY <1>3, <1>4, FS_UNION
<1> QED BY <1>5, FS_CardinalityType DEF Units, Total

\* One more request adds its tokens.
LEMMA TokensOfOneMore ==
    ASSUME NEW S, S \subseteq Request, NEW r \in Request, r \notin S
    PROVE  Total(S \cup {r}, Tokens) = Total(S, Tokens) + Tokens[r]
<1> DEFINE A == Units(S, Tokens)
           B == {r} \X (1 .. Tokens[r])
<1>1. Units(S \cup {r}, Tokens) = A \cup B
  BY Zenon DEF Units
<1>2. A \cap B = {}
  BY SMT DEF Units
<1>3. IsFiniteSet(A) /\ Cardinality(A) \in Nat
  BY TokensFinite DEF Total
<1>4. IsFiniteSet(B) /\ Cardinality(B) = Tokens[r]
  BY TokensOfOne
<1>5. Tokens[r] \in Nat
  BY RequestType
<1> HIDE DEF A, B
<1>6. Cardinality(A \cup B) = Cardinality(A) + Tokens[r]
  BY <1>2, <1>3, <1>4, <1>5, FS_Union, FS_EmptySet, SMT
<1> QED BY <1>1, <1>6 DEF Total, A

\* No request has no tokens.
LEMMA TokensOfNone == Total({}, Tokens) = 0
<1>1. Units({}, Tokens) = {}
  BY DEF Units
<1> QED BY <1>1, FS_EmptySet DEF Total
-----------------------------------------------------------------------------
(* Windows of time *)

\* A window is shorter than its length.
LEMMA WindowLength ==
    ASSUME NEW t \in Nat, NEW u \in Nat, WindowOf(t) = WindowOf(u)
    PROVE  t < u + Window
BY TimingType, Z3 DEF WindowOf

\* Every moment up to the bound has its window.
LEMMA WindowExists ==
    ASSUME NEW t \in Nat, t <= MaxTime
    PROVE  WindowOf(t) \in Windows
<1>1. Window \in Nat \ {0} /\ MaxTime \in Nat
  BY TimingType, LimitType
<1>2. WindowOf(t) \in Nat /\ WindowOf(t) <= MaxTime \div Window /\ MaxTime \div Window \in Nat
  BY <1>1, Z3 DEF WindowOf
<1> QED BY <1>2, SMT DEF Windows

-----------------------------------------------------------------------------
(* The inductive invariant of the limiter *)

Counter == [Windows -> [n : Nat, end : Nat]]

LimiterTypeOK ==
    /\ now \in Nat /\ now <= MaxTime
    /\ slots \in [Request -> Nat]
    /\ slotsEnd \in Nat
    /\ hits \in Counter
    /\ spent \in Counter
    /\ place \in [Request -> {"idle", "running", "over"}]
    /\ beat \in [Request -> Nat]
    /\ granted \in [Request -> Nat \cup {NoTime}]
    /\ fresh \in [Request -> Nat \cup {NoTime}]
    /\ missed \in SUBSET Request
    /\ ended \in [Request -> Nat \cup {NoTime}]

\* Redis keeps a slot at most a TTL, and the set of slots longer than any.
SlotsTimed ==
    \A r \in Request :
        /\ slots[r] <= now + TTL
        /\ slots[r] > 0 => slots[r] < slotsEnd
        /\ place[r] = "over" => ended[r] \in Nat /\ slots[r] <= ended[r] + TTL

\* The slot of a request that runs lasts a TTL from its last confirmation;
\* the heartbeats of a stream come in time.
SlotsConfirmed ==
    ConcurrencyLimit > 0 =>
        /\ Cardinality(InUse) <= ConcurrencyLimit
        /\ \A r \in Request :
              place[r] = "running" =>
                  /\ fresh[r] \in Nat => \/ slots[r] >= fresh[r] + TTL
                                         \/ now >= fresh[r] + TTL
                  /\ r \in Streaming =>
                        /\ now <= beat[r]
                        /\ granted[r] \in Nat /\ r \notin missed =>
                              fresh[r] \in Nat /\ beat[r] = fresh[r] + Heartbeat

LetIn(w) == {r \in Request : granted[r] # NoTime /\ WindowOf(granted[r]) = w}

\* A counter that was incremented lasts until its window is over.
Lasting(counter) ==
    \A w \in Windows : counter[w].n > 0 =>
        \A t \in Nat : WindowOf(t) = w => t < counter[w].end

\* The counters of a window are never below what was let in.
Counted ==
    /\ RequestLimit > 0 =>
          /\ Lasting(hits)
          /\ \A w \in Windows : /\ Cardinality(LetIn(w)) <= hits[w].n
                                /\ hits[w].n <= RequestLimit
    /\ TokenLimit > 0 =>
          /\ Lasting(spent)
          /\ \A w \in Windows : /\ Total(LetIn(w), Tokens) <= spent[w].n
                                /\ spent[w].n <= TokenLimit
    /\ \A r \in Request : place[r] = "idle" => granted[r] = NoTime /\ fresh[r] = NoTime

LimiterInv == LimiterTypeOK /\ SlotsTimed /\ SlotsConfirmed /\ Counted

\* What Redis purges is what has expired: the sorted set never goes before
\* one of its members.
LEMMA PurgedIsLive ==
    ASSUME LimiterTypeOK, SlotsTimed
    PROVE  /\ Purged = [q \in Request |-> IF slots[q] > now THEN slots[q] ELSE 0]
           /\ InUse = {q \in Request : slots[q] > now}
<1>1. \A q \in Request : slots[q] > now => slotsEnd > now
  BY SMT DEF LimiterTypeOK, SlotsTimed
<1>2. Purged = [q \in Request |-> IF slots[q] > now THEN slots[q] ELSE 0]
  BY <1>1 DEF Purged
<1>3. \A q \in Request : Purged[q] > 0 <=> slots[q] > now
  BY <1>2, SMT DEF LimiterTypeOK
<1> QED BY <1>2, <1>3 DEF InUse

\* The slots in use are finitely many.
LEMMA InUseFinite ==
    ASSUME NEW S, S \subseteq Request
    PROVE  IsFiniteSet(S) /\ Cardinality(S) \in Nat
BY RequestType, FS_Subset, FS_CardinalityType

\* One more slot in use.
LEMMA OneMoreSlot ==
    ASSUME NEW S, S \subseteq Request, NEW r \in Request, NEW n \in Nat,
           r \in S \/ Cardinality(S) < n, Cardinality(S) <= n
    PROVE  Cardinality(S \cup {r}) <= n
<1>1. IsFiniteSet(S) /\ Cardinality(S) \in Nat
  BY InUseFinite
<1>2. CASE r \in S
  <2>1. S \cup {r} = S
    BY <1>2
  <2> QED BY <2>1
<1>3. CASE r \notin S
  <2>1. Cardinality(S \cup {r}) = Cardinality(S) + 1
    BY <1>1, <1>3, FS_AddElement
  <2> QED BY <2>1, <1>1, <1>3, SMT
<1> QED BY <1>2, <1>3

\* What a script may do to the slots of the other requests, and to its own.
SlotsStep(r) ==
    /\ slots' \in [Request -> Nat]
    /\ slotsEnd' \in Nat
    /\ \A q \in Request \ {r} : \/ slots'[q] = slots[q]
                                \/ slots'[q] = 0 /\ slots[q] <= now
    /\ slots'[r] <= now + TTL
    /\ \A q \in Request : slots'[q] > 0 => slots'[q] < slotsEnd'
    /\ ConcurrencyLimit > 0 =>
          Cardinality({q \in Request : slots'[q] > now}) <= ConcurrencyLimit

\* Purging takes away only slots that have ended (ZREMRANGEBYSCORE).
LEMMA PurgeSlots ==
    ASSUME LimiterInv, NEW r \in Request, slots' = Purged, slotsEnd' = slotsEnd
    PROVE  SlotsStep(r)
<1>1. /\ Purged = [q \in Request |-> IF slots[q] > now THEN slots[q] ELSE 0]
      /\ InUse = {q \in Request : slots[q] > now}
  BY PurgedIsLive DEF LimiterInv
<1>2. slots' \in [Request -> Nat] /\ \A q \in Request : slots'[q] > now <=> slots[q] > now
  BY <1>1, SMT DEF LimiterInv, LimiterTypeOK
<1>3. {q \in Request : slots'[q] > now} = InUse
  BY <1>1, <1>2
<1>4. now \in Nat /\ TTL \in Nat /\ slots \in [Request -> Nat] /\ slotsEnd' \in Nat
  BY TimingType DEF LimiterInv, LimiterTypeOK
<1>5. ASSUME NEW q \in Request
      PROVE  /\ slots'[q] = slots[q] \/ (slots'[q] = 0 /\ slots[q] <= now)
             /\ slots'[q] <= now + TTL
             /\ slots'[q] > 0 => slots'[q] < slotsEnd'
  <2>1. slots'[q] = IF slots[q] > now THEN slots[q] ELSE 0
    BY <1>1
  <2>2. slots[q] \in Nat /\ slots[q] <= now + TTL /\ (slots[q] > 0 => slots[q] < slotsEnd)
    BY <1>4 DEF LimiterInv, SlotsTimed
  <2> QED BY <1>4, <2>1, <2>2, SMT
<1>6. ConcurrencyLimit > 0 =>
          Cardinality({q \in Request : slots'[q] > now}) <= ConcurrencyLimit
  BY <1>3 DEF LimiterInv, SlotsConfirmed
<1> QED BY <1>2, <1>4, <1>5, <1>6 DEF SlotsStep

\* Taking or renewing a slot where there is room stays within the limit.
LEMMA OccupySlot ==
    ASSUME LimiterInv, NEW r \in Request, Occupy(r),
           ConcurrencyLimit > 0,
           r \in InUse \/ Cardinality(InUse) < ConcurrencyLimit
    PROVE  SlotsStep(r) /\ slots'[r] = now + TTL
<1>1. /\ Purged = [q \in Request |-> IF slots[q] > now THEN slots[q] ELSE 0]
      /\ InUse = {q \in Request : slots[q] > now}
  BY PurgedIsLive DEF LimiterInv
<1>2. now \in Nat /\ TTL \in Nat \ {0} /\ Grace \in Nat \ {0} /\ slots \in [Request -> Nat]
  BY TimingType DEF LimiterInv, LimiterTypeOK
<1>3. slots' = [q \in Request |-> IF q = r THEN now + TTL
                                  ELSE IF slots[q] > now THEN slots[q] ELSE 0]
  BY <1>1 DEF Occupy
<1>4. {q \in Request : slots'[q] > now} = InUse \cup {r}
  BY <1>1, <1>2, <1>3, SMT
<1>5. Cardinality(InUse \cup {r}) <= ConcurrencyLimit
  BY <1>1, OneMoreSlot, LimitType DEF LimiterInv, SlotsConfirmed
<1>6. slotsEnd' = now + TTL + Grace
  BY DEF Occupy
<1>7. \A q \in Request : slots'[q] <= now + TTL
  BY <1>2, <1>3, SMT DEF LimiterInv, SlotsTimed
<1>8. slots' \in [Request -> Nat]
  BY <1>2, <1>3, SMT
<1>9. \A q \in Request : slots'[q] > 0 => slots'[q] < slotsEnd'
  BY <1>2, <1>6, <1>7, <1>8, SMT
<1>10. ASSUME NEW q \in Request \ {r}
       PROVE  slots'[q] = slots[q] \/ (slots'[q] = 0 /\ slots[q] <= now)
  <2>1. slots'[q] = IF slots[q] > now THEN slots[q] ELSE 0
    BY <1>3
  <2> QED BY <1>2, <2>1, SMT
<1>11. slotsEnd' \in Nat /\ slots'[r] = now + TTL
  BY <1>2, <1>3, <1>6, SMT
<1> QED BY <1>4, <1>5, <1>7, <1>8, <1>9, <1>10, <1>11 DEF SlotsStep

\* Giving a slot back, or failing to, stays within the limit.
LEMMA FreeSlot ==
    ASSUME LimiterInv, NEW r \in Request,
           slots' = [slots EXCEPT ![r] = 0] \/ slots' = slots, slotsEnd' = slotsEnd
    PROVE  SlotsStep(r)
<1>1. InUse = {q \in Request : slots[q] > now}
  BY PurgedIsLive DEF LimiterInv
<1>2. now \in Nat /\ TTL \in Nat \ {0} /\ slots \in [Request -> Nat]
  BY TimingType DEF LimiterInv, LimiterTypeOK
<1>3. /\ slots' \in [Request -> Nat]
      /\ \A q \in Request : slots'[q] \in {0, slots[q]}
      /\ \A q \in Request \ {r} : slots'[q] = slots[q]
  BY <1>2, SMT
<1>4. {q \in Request : slots'[q] > now} \subseteq InUse
  BY <1>1, <1>2, <1>3, SMT
<1>5. Cardinality({q \in Request : slots'[q] > now}) <= Cardinality(InUse)
      /\ Cardinality({q \in Request : slots'[q] > now}) \in Nat
      /\ Cardinality(InUse) \in Nat
  BY <1>4, InUseFinite, FS_Subset DEF InUse
<1> QED
  BY <1>2, <1>3, <1>5, LimitType, SMT
  DEF LimiterInv, LimiterTypeOK, SlotsTimed, SlotsConfirmed, SlotsStep

\* A step of one request leaves what the others remember alone.
OthersKeep(r) ==
    \A q \in Request \ {r} :
        /\ place'[q] = place[q] /\ beat'[q] = beat[q] /\ ended'[q] = ended[q]
        /\ granted'[q] = granted[q] /\ fresh'[q] = fresh[q]
        /\ q \in missed' <=> q \in missed

\* What the request itself has to see to.
OwnSlot(r) ==
    /\ place'[r] = "over" => ended'[r] \in Nat /\ slots'[r] <= ended'[r] + TTL
    /\ ConcurrencyLimit > 0 /\ place'[r] = "running" =>
          /\ fresh'[r] \in Nat => slots'[r] >= fresh'[r] + TTL \/ now >= fresh'[r] + TTL
          /\ r \in Streaming =>
                /\ now <= beat'[r]
                /\ granted'[r] \in Nat /\ r \notin missed' =>
                      fresh'[r] \in Nat /\ beat'[r] = fresh'[r] + Heartbeat

\* The slots stay in order when a request sees to its own: a script purges
\* none that is confirmed.
LEMMA SlotsInv ==
    ASSUME LimiterInv, NEW r \in Request, LimiterTypeOK', now' = now,
           SlotsStep(r), OthersKeep(r), OwnSlot(r)
    PROVE  SlotsTimed' /\ SlotsConfirmed'
<1>1. /\ now \in Nat /\ TTL \in Nat \ {0} /\ slots \in [Request -> Nat]
      /\ slots' \in [Request -> Nat] /\ slotsEnd' \in Nat
      /\ ended \in [Request -> Nat \cup {NoTime}]
      /\ fresh \in [Request -> Nat \cup {NoTime}]
  BY TimingType DEF LimiterInv, LimiterTypeOK
<1>2. SlotsTimed'
  <2> SUFFICES ASSUME NEW q \in Request
               PROVE  /\ slots'[q] <= now + TTL
                      /\ slots'[q] > 0 => slots'[q] < slotsEnd'
                      /\ place'[q] = "over" => ended'[q] \in Nat /\ slots'[q] <= ended'[q] + TTL
    BY DEF SlotsTimed
  <2>1. CASE q = r
    BY <2>1 DEF SlotsStep, OwnSlot
  <2>2. CASE q # r
    <3>1. slots'[q] = slots[q] \/ slots'[q] = 0
      BY <2>2 DEF SlotsStep
    <3>2. slots[q] <= now + TTL /\ (slots'[q] > 0 => slots'[q] < slotsEnd')
      BY DEF LimiterInv, SlotsTimed, SlotsStep
    <3>3. place[q] = "over" => ended[q] \in Nat /\ slots[q] <= ended[q] + TTL
      BY DEF LimiterInv, SlotsTimed
    <3>4. place'[q] = place[q] /\ ended'[q] = ended[q]
      BY <2>2 DEF OthersKeep
    <3> QED BY <1>1, <3>1, <3>2, <3>3, <3>4, SMT
  <2> QED BY <2>1, <2>2
<1>3. InUse' = {q \in Request : slots'[q] > now}
  <2>1. \A q \in Request : slots'[q] > now => slotsEnd' > now
    BY <1>1, <1>2, SMT DEF SlotsTimed
  <2>2. Purged' = [q \in Request |-> IF slots'[q] > now THEN slots'[q] ELSE 0]
    BY <2>1 DEF Purged
  <2>3. \A q \in Request : Purged'[q] > 0 <=> slots'[q] > now
    BY <1>1, <2>2, SMT
  <2> QED BY <2>3 DEF InUse
<1>4. SlotsConfirmed'
  <2> SUFFICES ASSUME ConcurrencyLimit > 0, NEW q \in Request, place'[q] = "running"
               PROVE  /\ fresh'[q] \in Nat => \/ slots'[q] >= fresh'[q] + TTL
                                              \/ now >= fresh'[q] + TTL
                      /\ q \in Streaming =>
                            /\ now <= beat'[q]
                            /\ granted'[q] \in Nat /\ q \notin missed' =>
                                  fresh'[q] \in Nat /\ beat'[q] = fresh'[q] + Heartbeat
    BY <1>3 DEF SlotsConfirmed, SlotsStep
  <2>1. CASE q = r
    BY <2>1 DEF OwnSlot
  <2>2. CASE q # r
    <3>1. /\ place[q] = "running" /\ beat'[q] = beat[q] /\ granted'[q] = granted[q]
          /\ fresh'[q] = fresh[q] /\ (q \in missed' <=> q \in missed)
      BY <2>2 DEF OthersKeep
    <3>2. slots'[q] = slots[q] \/ (slots'[q] = 0 /\ slots[q] <= now)
      BY <2>2 DEF SlotsStep
    <3>3. /\ fresh[q] \in Nat => \/ slots[q] >= fresh[q] + TTL
                                 \/ now >= fresh[q] + TTL
          /\ q \in Streaming =>
                /\ now <= beat[q]
                /\ granted[q] \in Nat /\ q \notin missed =>
                      fresh[q] \in Nat /\ beat[q] = fresh[q] + Heartbeat
      BY <3>1 DEF LimiterInv, SlotsConfirmed
    <3>4. fresh[q] \in Nat => \/ slots'[q] >= fresh[q] + TTL
                              \/ now >= fresh[q] + TTL
      BY <1>1, <3>2, <3>3, SMT
    <3> QED BY <3>1, <3>3, <3>4
  <2> QED BY <2>1, <2>2
<1> QED BY <1>2, <1>4

\* A counter that lasts is read as it was written.
LEMMA GetIsCount ==
    ASSUME LimiterTypeOK, NEW c \in Counter, Lasting(c)
    PROVE  WindowOf(now) \in Windows /\ Get(c) = c[WindowOf(now)].n
<1>1. now \in Nat /\ WindowOf(now) \in Windows
  BY WindowExists DEF LimiterTypeOK
<1>2. PICK w \in Windows : w = WindowOf(now)
  BY <1>1
<1>3. c[w].n \in Nat /\ c[w].end \in Nat
  BY DEF Counter
<1>4. c[w].n > 0 => now < c[w].end
  BY <1>1, <1>2 DEF Lasting
<1>5. Get(c) = IF c[w].end > now THEN c[w].n ELSE 0
  BY <1>2 DEF Get
<1> QED BY <1>1, <1>2, <1>3, <1>4, <1>5, SMT

\* INCRBY adds to the counter of the window and nothing else, and its EXPIRE
\* comes after the window.
LEMMA IncrCounts ==
    ASSUME LimiterTypeOK, NEW c \in Counter, Lasting(c), NEW by \in Nat
    PROVE  /\ Incr(c, by) \in Counter
           /\ Lasting(Incr(c, by))
           /\ \A w \in Windows : Incr(c, by)[w].n = IF w = WindowOf(now) THEN c[w].n + by
                                                                        ELSE c[w].n
<1>1. WindowOf(now) \in Windows /\ Get(c) = c[WindowOf(now)].n
  BY GetIsCount
<1>2. PICK v \in Windows : v = WindowOf(now)
  BY <1>1
<1>3. now \in Nat /\ Window \in Nat /\ c[v].n \in Nat
  BY TimingType DEF LimiterTypeOK, Counter
<1> DEFINE row == [n |-> c[v].n + by, end |-> now + Window]
           d == [c EXCEPT ![v] = row]
<1>4. Incr(c, by) = d
  BY <1>1, <1>2 DEF Incr
<1>5. row \in [n : Nat, end : Nat] /\ row.n = c[v].n + by /\ row.end = now + Window
  BY <1>3, SMT
<1> HIDE DEF row
<1>6. d \in Counter
  BY <1>5 DEF Counter
<1>7. \A w \in Windows : d[w] = IF w = v THEN row ELSE c[w]
  BY DEF Counter
<1>8. Lasting(d)
  <2> SUFFICES ASSUME NEW w \in Windows, d[w].n > 0, NEW t \in Nat, WindowOf(t) = w
               PROVE  t < d[w].end
    BY DEF Lasting
  <2>1. CASE w = v
    <3>1. t < now + Window
      BY <1>2, <1>3, <2>1, WindowLength
    <3> QED BY <1>5, <1>7, <2>1, <3>1
  <2>2. CASE w # v
    BY <1>7, <2>2 DEF Lasting
  <2> QED BY <2>1, <2>2
<1> QED BY <1>2, <1>4, <1>5, <1>6, <1>7, <1>8

\* A step moves a counter up, and never above its limit.
CounterGrows(old, new, limit) ==
    limit > 0 => /\ Lasting(new)
                 /\ \A w \in Windows : old[w].n <= new[w].n /\ new[w].n <= limit

CountersStep ==
    /\ hits' \in Counter /\ spent' \in Counter
    /\ CounterGrows(hits, hits', RequestLimit)
    /\ CounterGrows(spent, spent', TokenLimit)

\* A script that counts nothing leaves the windows as they were.
LEMMA CountersSame ==
    ASSUME LimiterInv, UNCHANGED <<hits, spent>>
    PROVE  CountersStep
<1>1. /\ hits \in Counter /\ spent \in Counter
      /\ \A w \in Windows : hits[w].n \in Nat /\ spent[w].n \in Nat
  BY DEF LimiterInv, LimiterTypeOK, Counter
<1> QED BY <1>1, SMT DEF LimiterInv, Counted, CountersStep, CounterGrows

\* An increment that was checked against the limit stays within it.
LEMMA IncrWithin ==
    ASSUME LimiterTypeOK, NEW c \in Counter, Lasting(c), NEW by \in Nat, NEW limit \in Nat,
           \A w \in Windows : c[w].n <= limit, Get(c) + by <= limit
    PROVE  CounterGrows(c, Incr(c, by), limit)
<1>1. WindowOf(now) \in Windows /\ Get(c) = c[WindowOf(now)].n
  BY GetIsCount
<1>2. /\ Lasting(Incr(c, by))
      /\ \A w \in Windows : Incr(c, by)[w].n = IF w = WindowOf(now) THEN c[w].n + by
                                                                   ELSE c[w].n
  BY IncrCounts
<1>3. \A w \in Windows : c[w].n \in Nat
  BY DEF Counter
<1> QED BY <1>1, <1>2, <1>3, SMT DEF CounterGrows

\* The reserve script counts a request only if its window has room for it.
LEMMA ReserveCounters ==
    ASSUME LimiterInv, NEW r \in Request, ReserveScript(r)
    PROVE  CountersStep
<1>1. CASE ~(SlotFree(r) /\ RateFree(r))
  BY <1>1, CountersSame DEF ReserveScript
<1>2. CASE SlotFree(r) /\ RateFree(r)
  <2>1. LimiterTypeOK /\ hits \in Counter /\ spent \in Counter /\ Tokens[r] \in Nat
        /\ RequestLimit \in Nat /\ TokenLimit \in Nat
    BY RequestType, LimitType DEF LimiterInv, LimiterTypeOK
  <2>2. /\ hits' = IF RequestLimit > 0 THEN Incr(hits, 1) ELSE hits
        /\ spent' = IF TokenLimit > 0 THEN Incr(spent, Tokens[r]) ELSE spent
    BY <1>2 DEF ReserveScript
  <2>3. hits' \in Counter /\ CounterGrows(hits, hits', RequestLimit)
    <3>1. CASE RequestLimit > 0
      <4>1. Lasting(hits) /\ \A w \in Windows : hits[w].n <= RequestLimit
        BY <3>1 DEF LimiterInv, Counted
      <4>2. Get(hits) + 1 <= RequestLimit
        BY <1>2, <3>1 DEF RateFree
      <4> QED BY <2>1, <2>2, <3>1, <4>1, <4>2, IncrWithin, IncrCounts
    <3>2. CASE ~(RequestLimit > 0)
      BY <2>1, <2>2, <3>2 DEF CounterGrows
    <3> QED BY <3>1, <3>2
  <2>4. spent' \in Counter /\ CounterGrows(spent, spent', TokenLimit)
    <3>1. CASE TokenLimit > 0
      <4>1. Lasting(spent) /\ \A w \in Windows : spent[w].n <= TokenLimit
        BY <3>1 DEF LimiterInv, Counted
      <4>2. Get(spent) + Tokens[r] <= TokenLimit
        BY <1>2, <3>1 DEF RateFree
      <4> QED BY <2>1, <2>2, <3>1, <4>1, <4>2, IncrWithin, IncrCounts
    <3>2. CASE ~(TokenLimit > 0)
      BY <2>1, <2>2, <3>2 DEF CounterGrows
    <3> QED BY <3>1, <3>2
  <2> QED BY <2>3, <2>4 DEF CountersStep
<1> QED BY <1>1, <1>2

\* The reservation script keeps the slots in order.
LEMMA ReserveSlots ==
    ASSUME LimiterInv, NEW r \in Request, ReserveScript(r)
    PROVE  /\ SlotsStep(r)
           /\ ConcurrencyLimit > 0 /\ SlotFree(r) /\ RateFree(r) => slots'[r] = now + TTL
<1>1. ConcurrencyLimit \in Nat
  BY LimitType
<1>2. CASE SlotFree(r) /\ RateFree(r) /\ ConcurrencyLimit > 0
  BY <1>2, OccupySlot DEF ReserveScript, SlotFree
<1>3. CASE ~(SlotFree(r) /\ RateFree(r)) /\ ConcurrencyLimit > 0
  BY <1>3, PurgeSlots DEF ReserveScript
<1>4. CASE ~(ConcurrencyLimit > 0)
  BY <1>4, FreeSlot DEF ReserveScript
<1> QED BY <1>2, <1>3, <1>4

\* What was let in is counted as long as nothing more is let in.
LEMMA CountedInv ==
    ASSUME LimiterInv, CountersStep, LimiterTypeOK', granted' = granted,
           \A r \in Request : place'[r] = "idle" => place[r] = "idle" /\ fresh'[r] = fresh[r]
    PROVE  Counted'
<1>1. \A w \in Windows : LetIn(w)' = LetIn(w)
  BY DEF LetIn
<1>2. ASSUME NEW w \in Windows
      PROVE  Cardinality(LetIn(w)) \in Nat /\ Total(LetIn(w), Tokens) \in Nat
  <2>1. LetIn(w) \subseteq Request /\ \A x \in LetIn(w) : Tokens[x] \in Nat
    BY RequestType DEF LetIn
  <2> QED BY <2>1, InUseFinite, TokensFinite
<1>3. \A w \in Windows : /\ hits[w].n \in Nat /\ spent[w].n \in Nat
                         /\ hits'[w].n \in Nat /\ spent'[w].n \in Nat
  BY DEF LimiterInv, LimiterTypeOK, CountersStep, Counter
<1>4. RequestLimit > 0 => /\ Lasting(hits)'
                          /\ \A w \in Windows : /\ Cardinality(LetIn(w))' <= hits'[w].n
                                                /\ hits'[w].n <= RequestLimit
  BY <1>1, <1>2, <1>3, SMT DEF LimiterInv, Counted, CountersStep, CounterGrows, Lasting
<1>5. TokenLimit > 0 => /\ Lasting(spent)'
                        /\ \A w \in Windows : /\ Total(LetIn(w), Tokens)' <= spent'[w].n
                                              /\ spent'[w].n <= TokenLimit
  <2>1. \A w \in Windows : Total(LetIn(w), Tokens)' = Total(LetIn(w), Tokens)
    BY <1>1 DEF Total, Units
  <2> QED BY <2>1, <1>2, <1>3, SMT DEF LimiterInv, Counted, CountersStep, CounterGrows, Lasting
<1> QED BY <1>4, <1>5 DEF LimiterInv, Counted

\* A request that is let in is counted in its window.
LEMMA LetInCounted ==
    ASSUME LimiterInv, LimiterTypeOK', NEW r \in Request, ReserveScript(r),
           SlotFree(r) /\ RateFree(r), place[r] = "idle",
           granted' = [granted EXCEPT ![r] = now], place' = [place EXCEPT ![r] = "running"],
           fresh' = [fresh EXCEPT ![r] = now]
    PROVE  Counted'
<1>1. CountersStep
  BY ReserveCounters
<1>2. granted[r] = NoTime /\ now \in Nat /\ granted \in [Request -> Nat \cup {NoTime}]
  BY DEF LimiterInv, LimiterTypeOK, Counted
<1>3. PICK v \in Windows : v = WindowOf(now)
  BY WindowExists DEF LimiterInv, LimiterTypeOK
<1>4. r \notin LetIn(v) /\ LetIn(v)' = LetIn(v) \cup {r}
  BY <1>2, <1>3, SMT DEF LetIn, NoTime
<1>5. \A w \in Windows \ {v} : LetIn(w)' = LetIn(w)
  BY <1>2, <1>3 DEF LetIn, NoTime
<1>6. ASSUME NEW w \in Windows
      PROVE  /\ IsFiniteSet(LetIn(w)) /\ LetIn(w) \subseteq Request
             /\ Cardinality(LetIn(w)) \in Nat /\ Total(LetIn(w), Tokens) \in Nat
  <2>1. LetIn(w) \subseteq Request /\ \A x \in LetIn(w) : Tokens[x] \in Nat
    BY RequestType DEF LetIn
  <2> QED BY <2>1, InUseFinite, TokensFinite
<1>7. Cardinality(LetIn(v) \cup {r}) = Cardinality(LetIn(v)) + 1
  BY <1>4, <1>6, FS_AddElement
<1>8. Total(LetIn(v) \cup {r}, Tokens) = Total(LetIn(v), Tokens) + Tokens[r]
  <2>1. \A y \in LetIn(v) \cup {r} : Tokens[y] \in Nat
    BY <1>6, RequestType
  <2> QED BY <2>1, <1>4, <1>6, TokensOfOneMore
<1>9. \A w \in Windows : /\ hits[w].n \in Nat /\ spent[w].n \in Nat
                         /\ hits'[w].n \in Nat /\ spent'[w].n \in Nat
  BY <1>1 DEF LimiterInv, LimiterTypeOK, CountersStep, Counter
<1>10. LimiterTypeOK /\ hits \in Counter /\ spent \in Counter /\ Tokens[r] \in Nat
  BY RequestType DEF LimiterInv, LimiterTypeOK
<1>11. ASSUME RequestLimit > 0
       PROVE  \A w \in Windows : /\ Cardinality(LetIn(w))' <= hits'[w].n
                                 /\ hits'[w].n <= RequestLimit
  <2>1. Lasting(hits) /\ \A w \in Windows : Cardinality(LetIn(w)) <= hits[w].n
    BY <1>11 DEF LimiterInv, Counted
  <2>2. hits'[v].n = hits[v].n + 1
    <3>1. hits' = Incr(hits, 1)
      BY <1>11 DEF ReserveScript
    <3> QED BY <1>3, <1>10, <2>1, <3>1, IncrCounts
  <2>3. \A w \in Windows : hits[w].n <= hits'[w].n /\ hits'[w].n <= RequestLimit
    BY <1>1, <1>11 DEF CountersStep, CounterGrows
  <2>4. ASSUME NEW w \in Windows PROVE Cardinality(LetIn(w))' <= hits'[w].n
    <3>1. CASE w = v
      <4>1. Cardinality(LetIn(v))' = Cardinality(LetIn(v)) + 1
        BY <1>4, <1>7
      <4> QED BY <3>1, <4>1, <1>6, <1>9, <2>1, <2>2, SMT
    <3>2. CASE w # v
      <4>1. Cardinality(LetIn(w))' = Cardinality(LetIn(w))
        BY <1>5, <3>2
      <4> QED BY <4>1, <1>6, <1>9, <2>1, <2>3, SMT
    <3> QED BY <3>1, <3>2
  <2> QED BY <2>3, <2>4
<1>12. ASSUME TokenLimit > 0
       PROVE  \A w \in Windows : /\ Total(LetIn(w), Tokens)' <= spent'[w].n
                                 /\ spent'[w].n <= TokenLimit
  <2>1. Lasting(spent) /\ \A w \in Windows : Total(LetIn(w), Tokens) <= spent[w].n
    BY <1>12 DEF LimiterInv, Counted
  <2>2. spent'[v].n = spent[v].n + Tokens[r]
    <3>1. spent' = Incr(spent, Tokens[r])
      BY <1>12 DEF ReserveScript
    <3> QED BY <1>3, <1>10, <2>1, <3>1, IncrCounts
  <2>3. \A w \in Windows : spent[w].n <= spent'[w].n /\ spent'[w].n <= TokenLimit
    BY <1>1, <1>12 DEF CountersStep, CounterGrows
  <2>4. ASSUME NEW w \in Windows PROVE Total(LetIn(w), Tokens)' <= spent'[w].n
    <3>1. CASE w = v
      <4>1. Total(LetIn(v), Tokens)' = Total(LetIn(v), Tokens) + Tokens[r]
        BY <1>4, <1>8 DEF Total, Units
      <4> QED BY <3>1, <4>1, <1>6, <1>9, <1>10, <2>1, <2>2, SMT
    <3>2. CASE w # v
      <4>1. Total(LetIn(w), Tokens)' = Total(LetIn(w), Tokens)
        BY <1>5, <3>2 DEF Total, Units
      <4> QED BY <4>1, <1>6, <1>9, <2>1, <2>3, SMT
    <3> QED BY <3>1, <3>2
  <2> QED BY <2>3, <2>4
<1>13. RequestLimit > 0 => Lasting(hits)'
  BY <1>1 DEF CountersStep, CounterGrows, Lasting
<1>14. TokenLimit > 0 => Lasting(spent)'
  BY <1>1 DEF CountersStep, CounterGrows, Lasting
<1>15. \A q \in Request : place'[q] = "idle" => granted'[q] = NoTime /\ fresh'[q] = NoTime
  BY DEF LimiterInv, LimiterTypeOK, Counted
<1> QED BY <1>11, <1>12, <1>13, <1>14, <1>15 DEF Counted

\* Redis starts empty.
LEMMA LimiterInitInv ==
    Init => LimiterInv
<1> SUFFICES ASSUME Init PROVE LimiterInv
  OBVIOUS
<1>1. \A w \in Windows : hits[w] = [n |-> 0, end |-> 0] /\ spent[w] = [n |-> 0, end |-> 0]
  BY DEF Init
<1>2. LimiterTypeOK
  BY LimitType, SMT DEF Init, LimiterTypeOK, Counter, NoTime
<1>3. SlotsTimed
  BY <1>2, TimingType, SMT DEF Init, SlotsTimed, LimiterTypeOK
<1>4. InUse = {}
  BY SMT DEF Init, InUse, Purged
<1>5. SlotsConfirmed
  BY <1>4, FS_EmptySet, LimitType, SMT DEF Init, SlotsConfirmed
<1>6. \A w \in Windows : LetIn(w) = {}
  BY DEF Init, LetIn
<1>7. Counted
  <2>1. Lasting(hits) /\ Lasting(spent)
    BY <1>1, SMT DEF Lasting
  <2>2. \A w \in Windows : Cardinality(LetIn(w)) = 0 /\ Total(LetIn(w), Tokens) = 0
    BY <1>6, FS_EmptySet, TokensOfNone
  <2>3. \A r \in Request : granted[r] = NoTime /\ fresh[r] = NoTime
    BY DEF Init
  <2> QED BY <1>1, <2>1, <2>2, <2>3, LimitType, SMT DEF Counted
<1> QED BY <1>2, <1>3, <1>5, <1>7 DEF LimiterInv

\* A request that ends leaves at most a slot of this moment.
LEMMA EndInv ==
    ASSUME LimiterInv, NEW r \in Request, End(r), SlotsStep(r), CountersStep,
           place[r] # "over", UNCHANGED <<now, granted, fresh, missed>>
    PROVE  LimiterInv'
<1>1. LimiterTypeOK'
  BY DEF LimiterInv, LimiterTypeOK, End, SlotsStep, CountersStep
<1>2. OthersKeep(r)
  BY DEF LimiterInv, LimiterTypeOK, OthersKeep, End
<1>3. place'[r] = "over" /\ ended'[r] = now /\ now \in Nat
  BY DEF LimiterInv, LimiterTypeOK, End
<1>4. OwnSlot(r)
  BY <1>3 DEF OwnSlot, SlotsStep
<1>5. SlotsTimed' /\ SlotsConfirmed'
  BY <1>1, <1>2, <1>4, SlotsInv
<1>6. \A q \in Request : place'[q] = "idle" => place[q] = "idle"
  BY DEF LimiterInv, LimiterTypeOK, End
<1>7. Counted'
  BY <1>1, <1>6, CountedInv
<1> QED BY <1>1, <1>5, <1>7 DEF LimiterInv

\* An answered reserve lets a request in or turns it away.
LEMMA ReserveInv ==
    ASSUME LimiterInv, NEW r \in Request, Reserve(r)
    PROVE  LimiterInv'
<1>1. /\ SlotsStep(r) /\ CountersStep
      /\ ConcurrencyLimit > 0 /\ SlotFree(r) /\ RateFree(r) => slots'[r] = now + TTL
  BY ReserveSlots, ReserveCounters DEF Reserve
<1>2. CASE ~(SlotFree(r) /\ RateFree(r))
  BY <1>1, <1>2, EndInv DEF Reserve
<1>3. CASE SlotFree(r) /\ RateFree(r)
  <2>1. /\ place' = [place EXCEPT ![r] = "running"]
        /\ beat' = [beat EXCEPT ![r] = now + Heartbeat]
        /\ granted' = [granted EXCEPT ![r] = now]
        /\ fresh' = [fresh EXCEPT ![r] = now]
        /\ UNCHANGED <<ended, now, missed>>
        /\ place[r] = "idle"
    BY <1>3 DEF Reserve, Run
  <2>2. now \in Nat /\ Heartbeat \in Nat \ {0} /\ TTL \in Nat
    BY TimingType DEF LimiterInv, LimiterTypeOK
  <2>3. LimiterTypeOK'
    BY <1>1, <2>1, <2>2, SMT DEF LimiterInv, LimiterTypeOK, SlotsStep, CountersStep
  <2>4. OthersKeep(r)
    BY <2>1 DEF LimiterInv, LimiterTypeOK, OthersKeep
  <2>5. /\ place'[r] = "running" /\ beat'[r] = now + Heartbeat
        /\ granted'[r] = now /\ fresh'[r] = now
    BY <2>1 DEF LimiterInv, LimiterTypeOK
  <2>6. OwnSlot(r)
    BY <1>1, <1>3, <2>2, <2>5, SMT DEF OwnSlot
  <2>7. SlotsTimed' /\ SlotsConfirmed'
    BY <1>1, <2>1, <2>3, <2>4, <2>6, SlotsInv
  <2>8. Counted'
    BY <1>3, <2>1, <2>3, LetInCounted DEF Reserve
  <2> QED BY <2>3, <2>7, <2>8 DEF LimiterInv
<1> QED BY <1>2, <1>3

\* A reserve without an answer follows the outage policy.
LEMMA ReserveUnansweredInv ==
    ASSUME LimiterInv, NEW r \in Request, ReserveUnanswered(r)
    PROVE  LimiterInv'
<1>1. SlotsStep(r) /\ CountersStep
  BY ReserveSlots, ReserveCounters, FreeSlot, CountersSame DEF ReserveUnanswered, redisVars
<1>2. CASE failClosed
  BY <1>1, <1>2, EndInv DEF ReserveUnanswered
<1>3. CASE ~failClosed
  <2>1. /\ place' = [place EXCEPT ![r] = "running"]
        /\ beat' = [beat EXCEPT ![r] = now + Heartbeat]
        /\ UNCHANGED <<ended, now, missed, granted, fresh>>
        /\ place[r] = "idle"
    BY <1>3 DEF ReserveUnanswered, Run
  <2>2. now \in Nat /\ Heartbeat \in Nat \ {0} /\ TTL \in Nat
    BY TimingType DEF LimiterInv, LimiterTypeOK
  <2>3. LimiterTypeOK'
    BY <1>1, <2>1, <2>2, SMT DEF LimiterInv, LimiterTypeOK, SlotsStep, CountersStep
  <2>4. OthersKeep(r)
    BY <2>1 DEF LimiterInv, LimiterTypeOK, OthersKeep
  <2>5. /\ place'[r] = "running" /\ beat'[r] = now + Heartbeat
        /\ granted'[r] = NoTime /\ fresh'[r] = NoTime
    BY <2>1 DEF LimiterInv, LimiterTypeOK, Counted
  <2>6. OwnSlot(r)
    <3>1. NoTime \notin Nat /\ now <= now + Heartbeat
      BY <2>2, SMT DEF NoTime
    <3> QED BY <2>5, <3>1 DEF OwnSlot
  <2>7. SlotsTimed' /\ SlotsConfirmed'
    BY <1>1, <2>1, <2>3, <2>4, <2>6, SlotsInv
  <2>8. Counted'
    BY <1>1, <2>1, <2>3, CountedInv DEF LimiterInv, LimiterTypeOK
  <2> QED BY <2>3, <2>7, <2>8 DEF LimiterInv
<1> QED BY <1>2, <1>3

\* A heartbeat renews the slot or fails; the stream goes on.
LEMMA HeartbeatInv ==
    ASSUME LimiterInv, NEW r \in Request, HeartbeatRound(r)
    PROVE  LimiterInv'
<1>1. /\ beat' = [beat EXCEPT ![r] = now + Heartbeat]
      /\ UNCHANGED <<now, place, granted, ended, hits, spent>>
      /\ place[r] = "running" /\ ConcurrencyLimit > 0 /\ r \in Streaming
      /\ HeartbeatScript(r) \/ UNCHANGED redisVars
  BY DEF HeartbeatRound, HeartbeatScript, redisVars, Beats
<1>2. CountersStep
  BY <1>1, CountersSame
<1>3. SlotsStep(r) /\ (HeartbeatScript(r) /\ r \in InUse => slots'[r] = now + TTL)
  <2>1. CASE HeartbeatScript(r) /\ r \in InUse
    BY <1>1, <2>1, OccupySlot DEF HeartbeatScript
  <2>2. CASE HeartbeatScript(r) /\ r \notin InUse
    BY <1>1, <2>2, PurgeSlots DEF HeartbeatScript
  <2>3. CASE UNCHANGED redisVars /\ ~HeartbeatScript(r)
    BY <1>1, <2>3, FreeSlot DEF redisVars
  <2> QED BY <1>1, <2>1, <2>2, <2>3
<1>4. \/ HeartbeatScript(r) /\ r \in InUse /\ fresh' = [fresh EXCEPT ![r] = now]
         /\ missed' = missed
      \/ missed' = missed \cup {r} /\ fresh' = fresh
  BY DEF HeartbeatRound
<1>5. now \in Nat /\ Heartbeat \in Nat \ {0} /\ TTL \in Nat /\ slots \in [Request -> Nat]
      /\ fresh \in [Request -> Nat \cup {NoTime}]
  BY TimingType DEF LimiterInv, LimiterTypeOK
<1>6. LimiterTypeOK'
  <2>1. fresh' \in [Request -> Nat \cup {NoTime}] /\ missed' \in SUBSET Request
    BY <1>4, <1>5 DEF LimiterInv, LimiterTypeOK
  <2>2. beat' \in [Request -> Nat]
    BY <1>1, <1>5, SMT DEF LimiterInv, LimiterTypeOK
  <2> QED BY <1>1, <1>2, <1>3, <2>1, <2>2
          DEF LimiterInv, LimiterTypeOK, SlotsStep, CountersStep
<1>7. OthersKeep(r)
  BY <1>1, <1>4 DEF LimiterInv, LimiterTypeOK, OthersKeep
<1>8. beat'[r] = now + Heartbeat
  BY <1>1 DEF LimiterInv, LimiterTypeOK
<1>9. OwnSlot(r)
  <2>1. CASE HeartbeatScript(r) /\ r \in InUse /\ fresh' = [fresh EXCEPT ![r] = now]
    BY <1>1, <1>3, <1>5, <1>8, <2>1, SMT DEF OwnSlot
  <2>2. CASE missed' = missed \cup {r} /\ fresh' = fresh
    <3>1. fresh[r] \in Nat => slots[r] >= fresh[r] + TTL \/ now >= fresh[r] + TTL
      BY <1>1 DEF LimiterInv, SlotsConfirmed
    <3>2. slots'[r] = slots[r] \/ slots'[r] = now + TTL \/ (slots'[r] = 0 /\ slots[r] <= now)
      <4>1. CASE HeartbeatScript(r) /\ r \in InUse
        BY <1>3, <4>1
      <4>2. CASE HeartbeatScript(r) /\ r \notin InUse
        <5>1. InUse = {q \in Request : slots[q] > now}
              /\ Purged = [q \in Request |-> IF slots[q] > now THEN slots[q] ELSE 0]
          BY PurgedIsLive DEF LimiterInv
        <5>2. slots'[r] = 0 /\ ~(slots[r] > now)
          BY <4>2, <5>1 DEF HeartbeatScript
        <5> QED BY <1>5, <5>2, SMT
      <4>3. CASE UNCHANGED redisVars
        BY <4>3 DEF redisVars
      <4> QED BY <1>1, <4>1, <4>2, <4>3
    <3>3. fresh[r] \in Nat => slots'[r] >= fresh[r] + TTL \/ now >= fresh[r] + TTL
      <4> SUFFICES ASSUME fresh[r] \in Nat
                   PROVE  slots'[r] >= fresh[r] + TTL \/ now >= fresh[r] + TTL
        OBVIOUS
      <4>1. slots[r] \in Nat /\ slots[r] <= now + TTL
        BY <1>5 DEF LimiterInv, SlotsTimed
      <4> QED BY <1>5, <3>1, <3>2, <4>1, SMT
    <3> QED BY <1>1, <1>5, <1>8, <2>2, <3>3, SMT DEF OwnSlot
  <2> QED BY <1>4, <2>1, <2>2
<1>10. SlotsTimed' /\ SlotsConfirmed'
  BY <1>1, <1>3, <1>6, <1>7, <1>9, SlotsInv
<1>11. Counted'
  <2>1. \A q \in Request : place'[q] = "idle" => fresh'[q] = fresh[q]
    BY <1>1, <1>4 DEF LimiterInv, LimiterTypeOK
  <2> QED BY <1>1, <1>2, <1>6, <2>1, CountedInv
<1> QED BY <1>6, <1>10, <1>11 DEF LimiterInv

\* Time does not pass a heartbeat that is due.
LEMMA TickInv ==
    ASSUME LimiterInv, Tick
    PROVE  LimiterInv'
<1>1. /\ now' = now + 1 /\ now < MaxTime
      /\ UNCHANGED <<slots, slotsEnd, hits, spent, place, beat, granted, fresh, missed, ended>>
      /\ ConcurrencyLimit > 0 => \A r \in Request : ~Beats(r)
  BY DEF Tick, redisVars
<1>2. now \in Nat /\ TTL \in Nat /\ MaxTime \in Nat /\ ConcurrencyLimit \in Nat
      /\ slots \in [Request -> Nat] /\ beat \in [Request -> Nat]
      /\ fresh \in [Request -> Nat \cup {NoTime}]
  BY LimitType, TimingType DEF LimiterInv, LimiterTypeOK
<1>3. LimiterTypeOK'
  BY <1>1, <1>2, SMT DEF LimiterInv, LimiterTypeOK
<1>4. SlotsTimed'
  BY <1>1, <1>2, SMT DEF LimiterInv, SlotsTimed
<1>5. SlotsConfirmed'
  <2> SUFFICES ASSUME ConcurrencyLimit > 0 PROVE SlotsConfirmed'
    BY DEF SlotsConfirmed
  <2>1. InUse' \subseteq InUse /\ InUse \subseteq Request
    <3>1. \A q \in Request : slots[q] > now + 1 => slots[q] > now
      BY <1>2, SMT
    <3>2. slotsEnd \in Nat /\ (slotsEnd > now + 1 => slotsEnd > now)
      BY <1>2, SMT DEF LimiterInv, LimiterTypeOK
    <3>3. \A q \in Request : (slotsEnd > now + 1 /\ slots[q] > now + 1)
                             => (slotsEnd > now /\ slots[q] > now /\ slots[q] > 0)
      BY <1>2, <3>1, <3>2, SMT
    <3> QED BY <1>1, <1>2, <3>3, SMT DEF InUse, Purged
  <2>2. Cardinality(InUse)' <= ConcurrencyLimit
    <3>1. /\ Cardinality(InUse') <= Cardinality(InUse)
          /\ Cardinality(InUse') \in Nat /\ Cardinality(InUse) \in Nat
      BY <2>1, InUseFinite, FS_Subset
    <3> QED BY <1>2, <3>1, SMT DEF LimiterInv, SlotsConfirmed
  <2>3. ASSUME NEW q \in Request, place[q] = "running"
        PROVE  /\ fresh[q] \in Nat => \/ slots[q] >= fresh[q] + TTL
                                      \/ now + 1 >= fresh[q] + TTL
               /\ q \in Streaming => now + 1 <= beat[q]
    <3>1. /\ fresh[q] \in Nat => \/ slots[q] >= fresh[q] + TTL
                                 \/ now >= fresh[q] + TTL
          /\ q \in Streaming => now <= beat[q]
      BY <2>3 DEF LimiterInv, SlotsConfirmed
    <3>2. q \in Streaming => beat[q] # now
      BY <1>1, <2>3 DEF Beats
    <3> QED BY <1>2, <3>1, <3>2, SMT
  <2> QED BY <1>1, <2>2, <2>3 DEF LimiterInv, SlotsConfirmed
<1>6. CountersStep
  BY <1>1, CountersSame
<1>7. Counted'
  BY <1>1, <1>3, <1>6, CountedInv
<1> QED BY <1>3, <1>4, <1>5, <1>7 DEF LimiterInv

\* Every step keeps the invariant.
LEMMA LimiterStepInv ==
    LimiterInv /\ [Next]_vars => LimiterInv'
<1> SUFFICES ASSUME LimiterInv, [Next]_vars PROVE LimiterInv'
  OBVIOUS
<1>1. ASSUME NEW r \in Request, Reserve(r) PROVE LimiterInv'
  BY <1>1, ReserveInv
<1>2. ASSUME NEW r \in Request, ReserveUnanswered(r) PROVE LimiterInv'
  BY <1>2, ReserveUnansweredInv
<1>3. ASSUME NEW r \in Request, HeartbeatRound(r) PROVE LimiterInv'
  BY <1>3, HeartbeatInv
<1>4. ASSUME NEW r \in Request, Finish(r) PROVE LimiterInv'
  <2>1. SlotsStep(r) /\ CountersStep
    BY <1>4, FreeSlot, CountersSame DEF Finish, ReleaseScript, redisVars
  <2> QED BY <1>4, <2>1, EndInv DEF Finish
<1>5. ASSUME NEW r \in Request, Abandon(r) PROVE LimiterInv'
  <2>1. SlotsStep(r) /\ CountersStep
    BY <1>5, FreeSlot, CountersSame DEF Abandon, redisVars
  <2> QED BY <1>5, <2>1, EndInv DEF Abandon
<1>6. CASE Tick
  BY <1>6, TickInv
<1>7. CASE UNCHANGED vars
  BY <1>7 DEF LimiterInv, LimiterTypeOK, SlotsTimed, SlotsConfirmed, Counted, InUse, Purged,
              LetIn, Lasting, Total, Units, vars, redisVars
<1> QED BY <1>1, <1>2, <1>3, <1>4, <1>5, <1>6, <1>7 DEF Next

-----------------------------------------------------------------------------
(* What the limiter promises *)

\* A confirmed request has its slot in Redis.
LEMMA ConfirmedInUse ==
    ASSUME LimiterInv, ConcurrencyLimit > 0
    PROVE  Confirmed \subseteq InUse
<1> SUFFICES ASSUME NEW r \in Confirmed PROVE r \in InUse
  OBVIOUS
<1>1. r \in Request /\ place[r] = "running" /\ fresh[r] \in Nat /\ now < fresh[r] + TTL
  BY DEF Confirmed, LimiterInv, LimiterTypeOK
<1>2. slots[r] >= fresh[r] + TTL \/ now >= fresh[r] + TTL
  BY <1>1 DEF LimiterInv, SlotsConfirmed
<1>3. slots[r] \in Nat /\ now \in Nat /\ TTL \in Nat
  BY <1>1, TimingType DEF LimiterInv, LimiterTypeOK
<1>4. slots[r] > now
  BY <1>1, <1>2, <1>3, SMT
<1> QED BY <1>1, <1>4, PurgedIsLive DEF LimiterInv

\* The invariant implies the limits and that streams keep their slots.
LEMMA LimiterPromise ==
    LimiterInv => LimitsHold /\ StreamKeepsSlot
<1> SUFFICES ASSUME LimiterInv PROVE LimitsHold /\ StreamKeepsSlot
  OBVIOUS
<1>1. ASSUME ConcurrencyLimit > 0 PROVE Cardinality(Confirmed) <= ConcurrencyLimit
  <2>1. Confirmed \subseteq InUse /\ InUse \subseteq Request
    BY <1>1, ConfirmedInUse DEF InUse
  <2>2. /\ Cardinality(Confirmed) <= Cardinality(InUse)
        /\ Cardinality(Confirmed) \in Nat /\ Cardinality(InUse) \in Nat
    BY <2>1, InUseFinite, FS_Subset
  <2> QED BY <1>1, <2>2, LimitType, SMT DEF LimiterInv, SlotsConfirmed
<1>2. ASSUME NEW w \in Windows
      PROVE  /\ RequestLimit > 0 => Cardinality(LetIn(w)) <= RequestLimit
             /\ TokenLimit > 0 => Total(LetIn(w), Tokens) <= TokenLimit
  <2>1. LetIn(w) \subseteq Request /\ \A x \in LetIn(w) : Tokens[x] \in Nat
    BY RequestType DEF LetIn
  <2>2. Cardinality(LetIn(w)) \in Nat /\ Total(LetIn(w), Tokens) \in Nat
    BY <2>1, InUseFinite, TokensFinite
  <2>3. hits[w].n \in Nat /\ spent[w].n \in Nat
    BY DEF LimiterInv, LimiterTypeOK, Counter
  <2> QED BY <2>2, <2>3, LimitType, SMT DEF LimiterInv, Counted
<1>3. ASSUME NEW r \in Request, r \in InUse, place[r] = "over" PROVE now < ended[r] + TTL
  <2>1. slots[r] > now
    BY <1>3, PurgedIsLive DEF LimiterInv
  <2>2. ended[r] \in Nat /\ slots[r] <= ended[r] + TTL
    BY <1>3 DEF LimiterInv, SlotsTimed
  <2> QED BY <2>1, <2>2, TimingType, SMT DEF LimiterInv, LimiterTypeOK
<1>4. LimitsHold
  BY <1>1, <1>2, <1>3 DEF LimitsHold, LetIn
<1>5. StreamKeepsSlot
  <2> SUFFICES ASSUME ConcurrencyLimit > 0, NEW r \in Streaming, place[r] = "running",
                      granted[r] # NoTime, r \notin missed
               PROVE  r \in Confirmed
    BY ConfirmedInUse DEF StreamKeepsSlot
  <2>1. r \in Request /\ granted[r] \in Nat
    BY RequestType DEF LimiterInv, LimiterTypeOK
  <2>2. now <= beat[r] /\ fresh[r] \in Nat /\ beat[r] = fresh[r] + Heartbeat
    BY <2>1 DEF LimiterInv, SlotsConfirmed
  <2>3. now < fresh[r] + TTL
    BY <2>2, TimingType, SMT DEF LimiterInv, LimiterTypeOK
  <2> QED BY <2>1, <2>2, <2>3, SMT DEF Confirmed, NoTime
<1> QED BY <1>4, <1>5

-----------------------------------------------------------------------------
(* The theorems *)

\* The inductive invariant of the limiter holds of every behaviour.
THEOREM LimiterInvariant ==
    LimiterSpec => []LimiterInv
BY LimiterInitInv, LimiterStepInv, PTL DEF LimiterSpec

\* At most concurrent_requests confirmed requests run at a time, no window
\* lets in more requests or tokens than its limits, and an ended request
\* keeps its slot at most a TTL (the Lua scripts of RedisRateLimitService,
\* whether their answers arrive or not).
THEOREM LimitsHoldAlways ==
    LimiterSpec => []LimitsHold
BY LimiterInvariant, LimiterPromise, PTL

\* A stream whose heartbeats are answered keeps its slot
\* (_heartbeat_rate_limit_concurrency_loop).
THEOREM StreamKeepsSlotAlways ==
    LimiterSpec => []StreamKeepsSlot
BY LimiterInvariant, LimiterPromise, PTL

-----------------------------------------------------------------------------
(* The inductive invariant of the wait *)

Phase == {"idle", "preflight", "asking", "waiting", "trying", "granted", "leaving",
          "running", "undoing", "closing", "expiring", "ended", "expired", "dead"}

LazyTypeOK ==
    /\ load \in DOMAIN Load
    /\ clock \in Nat
    /\ keyrow \in [Key -> [active : BOOLEAN, policy : {0, 1}, fits : BOOLEAN]]
    /\ pc \in [Waiter -> Phase]
    /\ start \in [Waiter -> Nat]
    /\ known \in [Waiter -> {0, 1}]
    /\ lease \in [Waiter -> Int]
    /\ held \subseteq Waiter /\ lost \subseteq Waiter /\ changed \subseteq Waiter

\* Who waits has a lease from the beginning of the wait.
WaitLeased == \A r \in Eligible : lease[r] = start[r] + Skew[r] + Ttl

\* Policies only change once, so a request that knows another policy than its
\* key's knows the old one; it does not pass the revalidation.
ChangedWait ==
    /\ \A r \in Waiter : Row(r).policy = 0 => known[r] = 0
    /\ \A r \in changed : /\ pc[r] \in {"waiting", "closing", "ended", "dead"}
                          /\ pc[r] = "waiting" => Row(r).policy = 1 /\ known[r] = 0

\* Where a request stands whose slot was not lost on the way: somebody will give
\* it back, or its wait ended in the look for the client.
SlotOwned ==
    \A r \in held \ lost :
        pc[r] \in {"undoing", "running", "granted", "leaving", "expiring", "expired"}

LazyInv == LazyTypeOK /\ WaitLeased /\ WaitersWithinCaps /\ ChangedWait /\ SlotOwned

\* The settings of a behaviour do not change.
LEMMA LoadFrame ==
    ASSUME load' = load
    PROVE  /\ Waiter' = Waiter /\ MaxTotal' = MaxTotal /\ MaxWait' = MaxWait /\ Ttl' = Ttl
           /\ Skew' = Skew /\ Key' = Key
BY DEF Waiter, MaxTotal, MaxWait, Ttl, Skew, Key

\* The parameters of a workload have their types, and a lease outlives a wait.
LEMMA LoadTypes ==
    ASSUME load \in DOMAIN Load
    PROVE  /\ IsFiniteSet(Waiter) /\ MaxTotal \in Nat /\ MaxWait \in Nat /\ Ttl \in Nat
           /\ Skew \in [Waiter -> Int]
           /\ \A r, q \in Waiter : Ttl + Skew[r] >= MaxWait + Skew[q]
<1>1. PICK n \in DOMAIN Load : n = load
  OBVIOUS
<1>2. /\ IsFiniteSet(Load[n].waiters)
      /\ {Load[n].maxTotal, Load[n].maxWait, Load[n].ttl, Load[n].maxClock} \subseteq Nat
      /\ Load[n].skew \in [Load[n].waiters -> Int]
  BY LoadType
<1>3. \A r, q \in Load[n].waiters : Load[n].ttl + Load[n].skew[r] >= Load[n].maxWait + Load[n].skew[q]
  BY LeaseOutlivesWait
<1> QED BY <1>1, <1>2, <1>3 DEF Waiter, MaxTotal, MaxWait, Ttl, Skew

\* Fewer waiters are within the caps.
LEMMA FewerWait ==
    ASSUME LazyTypeOK, WaitersWithinCaps, load' = load, Eligible' \subseteq Eligible
    PROVE  WaitersWithinCaps'
<1>1. IsFiniteSet(Waiter) /\ MaxTotal \in Nat
  BY LoadTypes DEF LazyTypeOK
<1>2. IsFiniteSet(Eligible)
  BY <1>1, FS_Subset DEF Eligible
<1>3. Cardinality(Eligible') <= MaxTotal
  <2>1. /\ Cardinality(Eligible') <= Cardinality(Eligible)
        /\ Cardinality(Eligible') \in Nat /\ Cardinality(Eligible) \in Nat
    BY <1>2, FS_Subset, FS_CardinalityType
  <2> QED BY <1>1, <2>1, SMT DEF WaitersWithinCaps
<1>4. ASSUME NEW k \in Key PROVE Cardinality({r \in Eligible' : KeyOf[r] = k}) <= MaxPerKey
  <2> DEFINE A == {r \in Eligible' : KeyOf[r] = k}
             B == {r \in Eligible : KeyOf[r] = k}
  <2>1. A \subseteq B /\ IsFiniteSet(B)
    BY <1>2, FS_Subset
  <2>2. Cardinality(B) <= MaxPerKey
    BY DEF WaitersWithinCaps
  <2> HIDE DEF A, B
  <2>3. Cardinality(A) <= Cardinality(B) /\ Cardinality(A) \in Nat /\ Cardinality(B) \in Nat
    BY <2>1, FS_Subset, FS_CardinalityType
  <2>4. Cardinality(A) <= MaxPerKey
    BY <2>2, <2>3, SMT DEF MaxPerKey
  <2> QED BY <2>4 DEF A
<1> QED BY <1>3, <1>4, LoadFrame DEF WaitersWithinCaps, MaxPerKey

\* A step of the task of r, which goes to p without beginning to wait.
TaskStep(r, p) ==
    /\ load' = load
    /\ pc' = [pc EXCEPT ![r] = p]
    /\ UNCHANGED <<clock, keyrow, changed>>
    /\ \A q \in Waiter \ {r} :
          /\ start'[q] = start[q] /\ known'[q] = known[q]
          /\ q \in held' <=> q \in held
          /\ q \in lost' <=> q \in lost
    /\ Row(r).policy = 0 => known'[r] = 0
    /\ \A q \in Eligible \ {r} : lease'[q] = lease[q]
    /\ p \in {"waiting", "trying", "granted"} /\ r \notin lost' /\ clock < start'[r] + MaxWait
          => r \in Eligible /\ start'[r] = start[r] /\ lease'[r] = lease[r]
    /\ r \in changed => p \in {"closing", "ended", "dead"}
    /\ r \in held' \ lost' => p \in {"undoing", "running", "granted", "leaving", "expiring", "expired"}

\* A step of one request that fits its new place keeps the invariant.
LEMMA TaskInv ==
    ASSUME LazyInv, LazyTypeOK', NEW r \in Waiter, NEW p, TaskStep(r, p)
    PROVE  LazyInv'
<1>1. load' = load /\ Waiter' = Waiter /\ MaxWait' = MaxWait /\ Ttl' = Ttl /\ Skew' = Skew
  BY LoadFrame DEF TaskStep
<1>2. \A q \in Waiter : pc'[q] = IF q = r THEN p ELSE pc[q]
  BY DEF TaskStep, LazyInv, LazyTypeOK
<1>3. ASSUME NEW q \in Eligible'
      PROVE  q \in Eligible /\ start'[q] = start[q] /\ lease'[q] = lease[q]
  <2>1. /\ q \in Waiter /\ pc'[q] \in {"waiting", "trying", "granted"}
        /\ clock < start'[q] + MaxWait /\ q \notin lost'
    BY <1>1 DEF Eligible, Deadline, TaskStep
  <2>2. CASE q = r
    BY <1>2, <2>1, <2>2 DEF TaskStep
  <2>3. CASE q # r
    BY <1>2, <2>1, <2>3 DEF TaskStep, Eligible, Deadline
  <2> QED BY <2>2, <2>3
<1>4. WaitLeased'
  <2> SUFFICES ASSUME NEW q \in Eligible' PROVE lease'[q] = start'[q] + Skew[q] + Ttl
    BY <1>1 DEF WaitLeased
  <2> QED BY <1>3 DEF LazyInv, WaitLeased
<1>5. WaitersWithinCaps'
  BY <1>1, <1>3, FewerWait DEF LazyInv
<1>6. ChangedWait'
  <2>1. \A q \in Waiter : Row(q)' = Row(q)
    BY DEF Row, TaskStep
  <2>2. \A q \in Waiter : Row(q).policy = 0 => known'[q] = 0
    BY DEF TaskStep, LazyInv, ChangedWait
  <2>3. ASSUME NEW q \in changed
        PROVE  /\ pc'[q] \in {"waiting", "closing", "ended", "dead"}
               /\ pc'[q] = "waiting" => Row(q).policy = 1 /\ known'[q] = 0
    <3>1. q \in Waiter
      BY DEF LazyInv, LazyTypeOK
    <3>2. CASE q = r
      BY <1>2, <3>1, <3>2 DEF TaskStep
    <3>3. CASE q # r
      BY <1>2, <3>1, <3>3 DEF TaskStep, LazyInv, ChangedWait
    <3> QED BY <3>2, <3>3
  <2>4. changed' = changed /\ changed \subseteq Waiter
    BY DEF TaskStep, LazyInv, LazyTypeOK
  <2> QED BY <1>1, <2>1, <2>2, <2>3, <2>4 DEF ChangedWait
<1>7. SlotOwned'
  BY <1>1, <1>2 DEF LazyInv, SlotOwned, TaskStep, LazyTypeOK
<1> QED BY <1>4, <1>5, <1>6, <1>7 DEF LazyInv

\* A step of a task, once its variables are known to have their types.
LEMMA TaskTyped ==
    ASSUME LazyInv, NEW r \in Waiter, NEW p \in Phase, TaskStep(r, p),
           start' \in [Waiter -> Nat], known' \in [Waiter -> {0, 1}], lease' \in [Waiter -> Int],
           held' \subseteq Waiter, lost' \subseteq Waiter
    PROVE  LazyInv'
<1>1. LazyTypeOK'
  BY LoadFrame DEF TaskStep, LazyInv, LazyTypeOK
<1> QED BY <1>1, TaskInv

\* The types of a state, for the steps of the tasks.
LEMMA LazyTypes ==
    ASSUME LazyInv
    PROVE  /\ start \in [Waiter -> Nat] /\ known \in [Waiter -> {0, 1}]
           /\ lease \in [Waiter -> Int] /\ pc \in [Waiter -> Phase] /\ clock \in Nat
           /\ held \subseteq Waiter /\ lost \subseteq Waiter /\ changed \subseteq Waiter
           /\ \A r \in Waiter : KeyOf[r] \in Key /\ Row(r).policy \in {0, 1}
BY DEF LazyInv, LazyTypeOK, Key, Row

\* So does a step that only moves on.
LEMMA GotoInv ==
    ASSUME LazyInv, load' = load, NEW r \in Waiter, NEW p \in Phase, Goto(r, p),
           UNCHANGED <<clock, keyrow, start, known, lease, held, lost, changed>>,
           p \in {"waiting", "trying", "granted"} =>
               pc[r] \in {"waiting", "trying", "granted"} \/ r \in lost,
           r \in changed => p \in {"closing", "ended", "dead"},
           r \in held \ lost => p \in {"undoing", "running", "granted", "leaving", "expiring", "expired"}
    PROVE  LazyInv'
<1>1. Row(r).policy = 0 => known[r] = 0
  BY DEF LazyInv, ChangedWait
<1>2. TaskStep(r, p)
  BY <1>1 DEF TaskStep, Goto, Eligible, Deadline
<1> QED BY <1>2, LazyTypes, TaskTyped

\* The attempt before any wait takes a slot, ends or goes on to wait.
LEMMA FirstAttemptInv ==
    ASSUME LazyInv, load' = load, NEW r \in Waiter, FirstAttempt(r)
    PROVE  LazyInv'
<1> USE LazyTypes
<1>1. known' \in [Waiter -> {0, 1}] /\ known'[r] = Row(r).policy
      /\ \A q \in Waiter \ {r} : known'[q] = known[q]
  BY DEF FirstAttempt
<1>2. r \notin changed /\ r \notin held \ lost
  BY DEF FirstAttempt, LazyInv, ChangedWait, SlotOwned
<1>3. CASE held' = held \cup {r} /\ Goto(r, "running")
  <2>1. TaskStep(r, "running")
    BY <1>1, <1>2, <1>3 DEF TaskStep, Goto, FirstAttempt
  <2> QED BY <1>1, <1>3, <2>1, TaskTyped DEF FirstAttempt, Phase
<1>4. CASE UNCHANGED held /\ Goto(r, "preflight")
  <2>1. TaskStep(r, "preflight")
    BY <1>1, <1>2, <1>4 DEF TaskStep, Goto, FirstAttempt
  <2> QED BY <1>1, <1>4, <2>1, TaskTyped DEF FirstAttempt, Phase
<1> QED BY <1>3, <1>4 DEF FirstAttempt

\* A task that is over waits no more.
LEMMA OverInv ==
    ASSUME LazyInv, load' = load, NEW r \in Waiter, NEW p \in {"ended", "expired", "dead"}, Over(r, p),
           UNCHANGED <<clock, keyrow, changed>>, lease' \in [Waiter -> Int],
           \A q \in Waiter \ {r} : lease'[q] = lease[q],
           held' \in {held, held \ {r}}, lost' \in {lost, lost \cup {r}},
           p = "expired" \/ r \notin held' \ lost',
           p = "expired" => r \notin changed
    PROVE  LazyInv'
<1> USE LazyTypes
<1>1. /\ start' \in [Waiter -> Nat] /\ known' \in [Waiter -> {0, 1}] /\ known'[r] = 0
      /\ \A q \in Waiter \ {r} : start'[q] = start[q] /\ known'[q] = known[q]
  BY DEF Over
<1>2. Eligible \subseteq Waiter
  BY DEF Eligible
<1>3. TaskStep(r, p)
  BY <1>1, <1>2 DEF TaskStep, Goto, Over
<1>4. held' \subseteq Waiter /\ lost' \subseteq Waiter /\ p \in Phase
  BY DEF Phase
<1> QED BY <1>1, <1>3, <1>4, TaskTyped

\* Before it waits a request holds no slot.
LEMMA PreflightInv ==
    ASSUME LazyInv, load' = load, NEW r \in Waiter, Preflight(r)
    PROVE  LazyInv'
<1> USE LazyTypes
<1>1. r \notin changed /\ r \notin held \ lost
  BY DEF Preflight, LazyInv, ChangedWait, SlotOwned
<1>2. CASE Over(r, "ended")
  BY <1>1, <1>2, OverInv DEF Preflight
<1>3. CASE ~Over(r, "ended")
  <2>1. /\ start' = [start EXCEPT ![r] = clock] /\ Goto(r, "asking")
        /\ UNCHANGED <<clock, keyrow, known, lease, held, lost, changed>>
    BY <1>3 DEF Preflight
  <2>2. start' \in [Waiter -> Nat] /\ \A q \in Waiter \ {r} : start'[q] = start[q]
    BY <2>1
  <2>3. Row(r).policy = 0 => known[r] = 0
    BY DEF LazyInv, ChangedWait
  <2>4. TaskStep(r, "asking")
    BY <1>1, <2>1, <2>2, <2>3 DEF TaskStep, Goto
  <2> QED BY <2>1, <2>2, <2>4, TaskTyped DEF Phase
<1> QED BY <1>2, <1>3

\* What the acquisition script purges has expired by every clock: no waiter
\* within its deadline loses its lease.
LEMMA EligibleIsLive ==
    ASSUME LazyInv, NEW q \in Eligible, NEW r \in Waiter
    PROVE  q \in Live(r)
<1>1. q \in Waiter /\ clock < start[q] + MaxWait /\ lease[q] = start[q] + Skew[q] + Ttl
  BY DEF Eligible, Deadline, LazyInv, WaitLeased
<1>2. /\ MaxWait \in Nat /\ Ttl \in Nat /\ Skew[q] \in Int /\ Skew[r] \in Int
      /\ Ttl + Skew[q] >= MaxWait + Skew[r]
  BY <1>1, LoadTypes DEF LazyInv, LazyTypeOK
<1>3. start[q] \in Nat /\ clock \in Nat
  BY <1>1, LazyTypes
<1>4. start[q] + Skew[q] + Ttl > clock + Skew[r]
  BY <1>1, <1>2, <1>3, SMT
<1> QED BY <1>1, <1>4 DEF Live

\* The script that adds a lease purges none that an eligible waiter needs.
LEMMA AcquireScriptKeeps ==
    ASSUME LazyInv, NEW r \in Waiter, AcquireScript(r)
    PROVE  /\ lease' \in [Waiter -> Int]
           /\ \A q \in Eligible \ {r} : lease'[q] = lease[q]
           /\ Room(r) => lease'[r] = start[r] + Skew[r] + Ttl
<1> USE LazyTypes
<1>1. MaxWait \in Nat /\ Ttl \in Nat /\ Skew \in [Waiter -> Int]
  BY LoadTypes DEF LazyInv, LazyTypeOK
<1>2. start[r] + Skew[r] + Ttl \in Int
  BY <1>1, SMT
<1>3. lease' \in [Waiter -> Int]
  BY <1>2, SMT DEF AcquireScript
<1>4. \A q \in Eligible : q \in Waiter /\ q \in Live(r)
  BY EligibleIsLive DEF Eligible
<1> QED BY <1>3, <1>4 DEF AcquireScript

\* One more waiter where there is room.
LEMMA RoomForOne ==
    ASSUME LazyInv, NEW r \in Waiter, Room(r), r \notin Eligible,
           NEW S, S \subseteq Eligible \cup {r}
    PROVE  /\ Cardinality(S) <= MaxTotal
           /\ Cardinality({q \in S : KeyOf[q] = KeyOf[r]}) <= MaxPerKey
<1>1. IsFiniteSet(Waiter) /\ MaxTotal \in Nat
  BY LoadTypes DEF LazyInv, LazyTypeOK
<1>2. Eligible \subseteq Live(r) /\ Live(r) \subseteq Waiter
  BY EligibleIsLive DEF Live
<1>3. ASSUME NEW A, A \subseteq Waiter, NEW B, B \subseteq A \cup {r}, NEW n \in Nat,
             Cardinality(A) < n
      PROVE  Cardinality(B) <= n
  <2>1. IsFiniteSet(A) /\ Cardinality(A) \in Nat
    BY <1>1, <1>3, FS_Subset, FS_CardinalityType
  <2>2. IsFiniteSet(A \cup {r}) /\ Cardinality(A \cup {r}) \in Nat
        /\ (Cardinality(A \cup {r}) = Cardinality(A) \/ Cardinality(A \cup {r}) = Cardinality(A) + 1)
    BY <2>1, FS_AddElement, FS_CardinalityType
  <2>3. Cardinality(B) <= Cardinality(A \cup {r}) /\ Cardinality(B) \in Nat
    BY <1>3, <2>2, FS_Subset, FS_CardinalityType
  <2> QED BY <1>3, <2>1, <2>2, <2>3, SMT
<1>4. Cardinality(S) <= MaxTotal
  <2>1. S \subseteq Live(r) \cup {r} /\ Cardinality(Live(r)) < MaxTotal
    BY <1>2 DEF Room
  <2> QED BY <1>1, <1>2, <1>3, <2>1
<1>5. Cardinality({q \in S : KeyOf[q] = KeyOf[r]}) <= MaxPerKey
  <2> DEFINE A == {q \in Live(r) : KeyOf[q] = KeyOf[r]}
             B == {q \in S : KeyOf[q] = KeyOf[r]}
  <2>1. B \subseteq A \cup {r} /\ A \subseteq Waiter
    BY <1>2
  <2>2. Cardinality(A) < MaxPerKey /\ MaxPerKey \in Nat
    BY DEF Room, MaxPerKey
  <2> HIDE DEF A, B
  <2>3. Cardinality(B) <= MaxPerKey
    BY <1>3, <2>1, <2>2
  <2> QED BY <2>3 DEF B
<1> QED BY <1>4, <1>5

\* A lease is added only where the caps leave room.
LEMMA AcquireLeaseInv ==
    ASSUME LazyInv, load' = load, NEW r \in Waiter, AcquireLease(r)
    PROVE  LazyInv'
<1> USE LazyTypes
<1>1. /\ lease' \in [Waiter -> Int]
      /\ \A q \in Eligible \ {r} : lease'[q] = lease[q]
      /\ Room(r) => lease'[r] = start[r] + Skew[r] + Ttl
  BY AcquireScriptKeeps DEF AcquireLease
<1>2. r \notin changed /\ r \notin held \ lost /\ r \notin Eligible
      /\ (Row(r).policy = 0 => known[r] = 0)
  BY DEF AcquireLease, LazyInv, ChangedWait, SlotOwned, Eligible
<1>3. UNCHANGED <<clock, keyrow, start, known, held, lost, changed>>
  BY DEF AcquireLease
<1>4. CASE ~Room(r)
  <2>1. TaskStep(r, "closing")
    BY <1>1, <1>2, <1>3, <1>4 DEF TaskStep, Goto, AcquireLease
  <2> QED BY <1>1, <1>3, <2>1, TaskTyped DEF Phase
<1>5. CASE Room(r)
  <2>1. pc' = [pc EXCEPT ![r] = "waiting"]
    BY <1>5 DEF AcquireLease, Goto
  <2>2. /\ Waiter' = Waiter /\ MaxWait' = MaxWait /\ Ttl' = Ttl /\ Skew' = Skew
        /\ Key' = Key /\ MaxTotal' = MaxTotal
    BY LoadFrame
  <2>3. LazyTypeOK'
    BY <1>1, <1>3, <2>1, <2>2 DEF LazyInv, LazyTypeOK, Phase
  <2>4. \A q \in Waiter \ {r} : pc'[q] = pc[q]
    BY <2>1
  <2>5. Eligible' \subseteq Eligible \cup {r}
    BY <1>3, <2>2, <2>4 DEF Eligible, Deadline
  <2>6. WaitLeased'
    <3> SUFFICES ASSUME NEW q \in Eligible' PROVE lease'[q] = start[q] + Skew[q] + Ttl
      BY <1>3, <2>2 DEF WaitLeased
    <3>1. CASE q = r
      BY <1>1, <1>5, <3>1
    <3>2. CASE q # r
      BY <1>1, <2>5, <3>2 DEF LazyInv, WaitLeased
    <3> QED BY <3>1, <3>2
  <2>7. Cardinality(Eligible') <= MaxTotal
    BY <1>2, <1>5, <2>5, RoomForOne
  <2>8. ASSUME NEW k \in Key PROVE Cardinality({q \in Eligible' : KeyOf[q] = k}) <= MaxPerKey
    <3>1. CASE k = KeyOf[r]
      BY <1>2, <1>5, <2>5, <3>1, RoomForOne, SMT
    <3>2. CASE k # KeyOf[r]
      <4> DEFINE A == {q \in Eligible' : KeyOf[q] = k}
                 B == {q \in Eligible : KeyOf[q] = k}
      <4>1. A \subseteq B
        BY <2>5, <3>2
      <4>2. Cardinality(B) <= MaxPerKey
        BY DEF LazyInv, WaitersWithinCaps
      <4>3. IsFiniteSet(B)
        <5>1. IsFiniteSet(Waiter) /\ B \subseteq Waiter
          BY LoadTypes DEF LazyInv, LazyTypeOK, Eligible
        <5> QED BY <5>1, FS_Subset
      <4> HIDE DEF A, B
      <4>4. Cardinality(A) <= Cardinality(B) /\ Cardinality(A) \in Nat /\ Cardinality(B) \in Nat
        BY <4>1, <4>3, FS_Subset, FS_CardinalityType
      <4>5. Cardinality(A) <= MaxPerKey
        BY <4>2, <4>4, SMT DEF MaxPerKey
      <4> QED BY <4>5 DEF A
    <3> QED BY <3>1, <3>2
  <2>9. WaitersWithinCaps'
    BY <2>2, <2>7, <2>8 DEF WaitersWithinCaps, MaxPerKey
  <2>10. ChangedWait'
    <3>1. \A q \in Waiter : Row(q)' = Row(q)
      BY <1>3 DEF Row
    <3> QED BY <1>2, <1>3, <2>2, <2>4, <3>1 DEF LazyInv, ChangedWait
  <2>11. SlotOwned'
    BY <1>2, <1>3, <2>4 DEF LazyInv, SlotOwned
  <2> QED BY <2>3, <2>6, <2>9, <2>10, <2>11 DEF LazyInv
<1> QED BY <1>4, <1>5

\* A lease whose answer was lost belongs to a request that no longer counts.
LEMMA AcquireFailsInv ==
    ASSUME LazyInv, load' = load, NEW r \in Waiter, AcquireFails(r)
    PROVE  LazyInv'
<1> USE LazyTypes
<1>1. lease' \in [Waiter -> Int] /\ \A q \in Eligible \ {r} : lease'[q] = lease[q]
  BY AcquireScriptKeeps DEF AcquireFails
<1>2. r \notin changed /\ r \notin held \ lost /\ (Row(r).policy = 0 => known[r] = 0)
  BY DEF AcquireFails, LazyInv, ChangedWait, SlotOwned
<1>3. UNCHANGED <<clock, keyrow, start, known, held, changed>>
  BY DEF AcquireFails
<1>4. CASE Goto(r, "closing") /\ UNCHANGED lost
  <2>1. TaskStep(r, "closing")
    BY <1>1, <1>2, <1>3, <1>4 DEF TaskStep, Goto
  <2> QED BY <1>1, <1>3, <1>4, <2>1, TaskTyped DEF Phase
<1>5. CASE Goto(r, "waiting") /\ lost' = lost \cup {r}
  <2>1. TaskStep(r, "waiting")
    BY <1>1, <1>2, <1>3, <1>5 DEF TaskStep, Goto
  <2> QED BY <1>1, <1>3, <1>5, <2>1, TaskTyped DEF Phase
<1> QED BY <1>4, <1>5 DEF AcquireFails

\* Giving up, looking at the key again and being granted keep the invariant.
LEMMA RoundInv ==
    ASSUME LazyInv, load' = load, NEW r \in Waiter,
           GiveUp(r) \/ Revalidate(r) \/ Granted(r) \/ LookExpires(r)
    PROVE  LazyInv'
<1> USE LazyTypes
<1>1. r \in held \ lost => pc[r] \in {"undoing", "running", "granted", "leaving", "expiring", "expired"}
  BY DEF LazyInv, SlotOwned
<1>2. r \in changed => /\ pc[r] \in {"waiting", "closing", "ended", "dead"}
                       /\ pc[r] = "waiting" => Row(r).policy = 1 /\ known[r] = 0
  BY DEF LazyInv, ChangedWait
<1>3. CASE GiveUp(r)
  BY <1>1, <1>3, GotoInv DEF GiveUp, Phase
<1>4. CASE Revalidate(r)
  BY <1>1, <1>2, <1>4, GotoInv, SMT DEF Revalidate, Phase
<1>5. CASE Granted(r)
  BY <1>1, <1>2, <1>5, GotoInv DEF Granted, Phase
<1>6. CASE LookExpires(r)
  BY <1>1, <1>2, <1>6, GotoInv DEF LookExpires, Phase
<1> QED BY <1>3, <1>4, <1>5, <1>6

\* An attempt for a slot, answered, stalled or failed, keeps the invariant.
LEMMA TryInv ==
    ASSUME LazyInv, load' = load, NEW r \in Waiter, Try(r) \/ TryStalls(r) \/ TryFails(r)
    PROVE  LazyInv'
<1> USE LazyTypes
<1>1. /\ pc[r] = "trying" /\ r \notin held \ lost /\ r \notin changed
      /\ Row(r).policy = 0 => known[r] = 0
      /\ UNCHANGED <<clock, keyrow, start, known, lease, changed>>
  BY DEF Try, TryStalls, TryFails, LazyInv, SlotOwned, ChangedWait
<1>2. held' \in {held, held \cup {r}} /\ lost' \in {lost, lost \cup {r}}
  BY DEF Try, TryStalls, TryFails, MayTakeSlot
<1>3. r \notin lost /\ clock < Deadline(r) => r \in Eligible
  BY <1>1 DEF Eligible
<1>4. PICK p \in Phase : /\ Goto(r, p)
                         /\ r \in held' \ lost' => p \in {"undoing", "granted"}
                         /\ p \in {"waiting", "trying", "granted"} =>
                               clock < Deadline(r) \/ r \in lost'
  <2>1. CASE Try(r) /\ Goto(r, "granted")
    BY <2>1 DEF Try, Phase
  <2>2. CASE Try(r) /\ Goto(r, "waiting") /\ UNCHANGED <<held, lost>>
    BY <1>1, <2>2 DEF Try, Phase
  <2>3. CASE TryStalls(r)
    BY <2>3 DEF TryStalls, Phase
  <2>4. CASE TryFails(r)
    BY <2>4 DEF TryFails, Phase
  <2> QED BY <2>1, <2>2, <2>3, <2>4 DEF Try
<1>5. TaskStep(r, p)
  BY <1>1, <1>2, <1>3, <1>4 DEF TaskStep, Goto, Deadline
<1>6. held' \subseteq Waiter /\ lost' \subseteq Waiter
  BY <1>2
<1> QED BY <1>1, <1>5, <1>6, TaskTyped

\* A slot that came too late is given back or lost with its request.
LEMMA UndoInv ==
    ASSUME LazyInv, load' = load, NEW r \in Waiter, Undo(r)
    PROVE  LazyInv'
<1> USE LazyTypes
<1>1. /\ r \notin changed /\ (Row(r).policy = 0 => known[r] = 0)
      /\ UNCHANGED <<clock, keyrow, start, known, lease, changed>> /\ Goto(r, "closing")
  BY DEF Undo, LazyInv, ChangedWait
<1>2. held' \in {held, held \ {r}} /\ lost' \in {lost, lost \cup {r}} /\ r \notin held' \ lost'
  BY DEF Undo, ReleaseSlot
<1>3. TaskStep(r, "closing")
  BY <1>1, <1>2 DEF TaskStep, Goto
<1> QED BY <1>1, <1>2, <1>3, TaskTyped DEF Phase

\* Whoever stops waiting, is cut off, finishes or dies keeps the invariant.
LEMMA LeaveInv ==
    ASSUME LazyInv, load' = load, NEW r \in Waiter,
           CloseWait(r) \/ ExpireWait(r) \/ LeaveWait(r) \/ FinishAdmitted(r) \/ Die(r)
    PROVE  LazyInv'
<1> USE LazyTypes
<1>1. r \in held \ lost => pc[r] \in {"undoing", "running", "granted", "leaving", "expiring", "expired"}
  BY DEF LazyInv, SlotOwned
<1>2. CASE CloseWait(r)
  <2>1. lease' \in [Waiter -> Int] /\ \A q \in Waiter \ {r} : lease'[q] = lease[q]
    BY <1>2, SMT DEF CloseWait, ReleaseLease
  <2>2. lost' \in {lost, lost \cup {r}} /\ r \notin held \ lost'
    BY <1>1, <1>2 DEF CloseWait, ReleaseLease
  <2> QED BY <1>2, <2>1, <2>2, OverInv DEF CloseWait
<1>3. CASE LeaveWait(r)
  <2>1. UNCHANGED <<clock, keyrow, changed>> /\ r \notin changed
        /\ (Row(r).policy = 0 => known[r] = 0)
    BY <1>3 DEF LeaveWait, LazyInv, ChangedWait
  <2>2. /\ lease' \in [Waiter -> Int] /\ \A q \in Waiter \ {r} : lease'[q] = lease[q]
        /\ lost' \in {lost, lost \cup {r}}
    BY <1>3, SMT DEF LeaveWait, ReleaseLease
  <2>3. CASE Goto(r, "running") /\ UNCHANGED <<start, known, held>>
    <3>1. Eligible \subseteq Waiter
      BY DEF Eligible
    <3>2. TaskStep(r, "running")
      BY <2>1, <2>2, <2>3, <3>1 DEF TaskStep, Goto
    <3>3. lost' \subseteq Waiter
      BY <2>2
    <3> QED BY <2>2, <2>3, <3>2, <3>3, TaskTyped DEF Phase
  <2>4. CASE held' \in {held, held \ {r}} /\ lost' = lost \cup {r} /\ Over(r, "ended")
    BY <2>1, <2>2, <2>4, OverInv
  <2> QED BY <1>3, <2>3, <2>4 DEF LeaveWait
<1>4. CASE FinishAdmitted(r)
  <2>1. held' \in {held, held \ {r}} /\ lost' \in {lost, lost \cup {r}} /\ r \notin held' \ lost'
    BY <1>4 DEF FinishAdmitted, ReleaseSlot
  <2> QED BY <1>4, <2>1, OverInv DEF FinishAdmitted
<1>5. CASE Die(r)
  BY <1>5, OverInv DEF Die
<1>6. CASE ExpireWait(r)
  <2>1. lease' \in [Waiter -> Int] /\ \A q \in Waiter \ {r} : lease'[q] = lease[q]
    BY <1>6, SMT DEF ExpireWait, ReleaseLease
  <2>2. held' \in {held, held \ {r}} /\ lost' \in {lost, lost \cup {r}} /\ r \notin changed
    BY <1>6 DEF ExpireWait, ReleaseLease, LazyInv, ChangedWait
  <2> QED BY <1>6, <2>1, <2>2, OverInv DEF ExpireWait
<1> QED BY <1>2, <1>3, <1>4, <1>5, <1>6

\* The rows of the other keys are left alone.
LEMMA KeyChangeInv ==
    ASSUME LazyInv, load' = load, NEW k \in Key, SwitchKey(k) \/ ChangePolicy(k) \/ ShrinkWindow(k)
    PROVE  LazyInv'
<1> USE LazyTypes
<1>1. Waiter' = Waiter /\ Key' = Key /\ MaxWait' = MaxWait /\ Ttl' = Ttl /\ Skew' = Skew
  BY LoadFrame
<1>2. UNCHANGED <<clock, pc, start, known, lease, held, lost>>
  BY DEF SwitchKey, ChangePolicy, ShrinkWindow
<1>3. Eligible' = Eligible
  BY <1>1, <1>2 DEF Eligible, Deadline
<1>4. WaitersWithinCaps'
  BY <1>3, FewerWait DEF LazyInv
<1>5. WaitLeased' /\ SlotOwned'
  BY <1>1, <1>2, <1>3 DEF LazyInv, WaitLeased, SlotOwned
<1>6. keyrow' \in [Key -> [active : BOOLEAN, policy : {0, 1}, fits : BOOLEAN]]
  <2> DEFINE Rows == [active : BOOLEAN, policy : {0, 1}, fits : BOOLEAN]
  <2>1. keyrow \in [Key -> Rows] /\ keyrow[k] \in Rows
    BY DEF LazyInv, LazyTypeOK
  <2>2. /\ [keyrow[k] EXCEPT !.active = ~keyrow[k].active] \in Rows
        /\ [keyrow[k] EXCEPT !.policy = 1] \in Rows
        /\ [keyrow[k] EXCEPT !.fits = FALSE] \in Rows
    BY <2>1
  <2>3. \/ keyrow' = [keyrow EXCEPT ![k] = [keyrow[k] EXCEPT !.active = ~keyrow[k].active]]
        \/ keyrow' = [keyrow EXCEPT ![k] = [keyrow[k] EXCEPT !.policy = 1]]
        \/ keyrow' = [keyrow EXCEPT ![k] = [keyrow[k] EXCEPT !.fits = FALSE]]
    BY <2>1 DEF SwitchKey, ChangePolicy, ShrinkWindow
  <2> HIDE DEF Rows
  <2>4. keyrow' \in [Key -> Rows]
    BY <2>1, <2>2, <2>3
  <2> QED BY <2>4 DEF Rows
<1>7. changed' \subseteq Waiter
  BY DEF SwitchKey, ChangePolicy, ShrinkWindow
<1>8. ASSUME NEW r \in Waiter
      PROVE  /\ Row(r).policy = 1 => Row(r)'.policy = 1
             /\ r \in changed' => r \in changed \/ (/\ pc[r] = "waiting" /\ Row(r).policy = 0
                                                    /\ Row(r)'.policy = 1)
  <2>1. keyrow[KeyOf[r]] \in [active : BOOLEAN, policy : {0, 1}, fits : BOOLEAN]
    BY DEF LazyInv, LazyTypeOK
  <2>2. CASE SwitchKey(k)
    BY <2>1, <2>2 DEF SwitchKey, Row, LazyInv, LazyTypeOK
  <2>3. CASE ChangePolicy(k)
    BY <2>1, <2>3 DEF ChangePolicy, Row, LazyInv, LazyTypeOK
  <2>4. CASE ShrinkWindow(k)
    BY <2>1, <2>4 DEF ShrinkWindow, Row, LazyInv, LazyTypeOK
  <2> QED BY <2>2, <2>3, <2>4
<1>9. \A r \in Waiter : Row(r)'.policy \in {0, 1}
  BY <1>6 DEF Row
<1>10. ChangedWait'
  BY <1>1, <1>2, <1>7, <1>8, <1>9 DEF LazyInv, ChangedWait
<1> QED BY <1>1, <1>2, <1>4, <1>5, <1>6, <1>7, <1>10 DEF LazyInv, LazyTypeOK

\* The time that passes only ends waits.
LEMMA ClockTickInv ==
    ASSUME LazyInv, load' = load, ClockTick
    PROVE  LazyInv'
<1> USE LazyTypes
<1>1. /\ Waiter' = Waiter /\ Key' = Key /\ MaxWait' = MaxWait /\ Ttl' = Ttl /\ Skew' = Skew
      /\ MaxWait \in Nat
  BY LoadFrame, LoadTypes DEF LazyInv, LazyTypeOK
<1>2. clock' = clock + 1 /\ UNCHANGED <<keyrow, pc, start, known, lease, held, lost, changed>>
  BY DEF ClockTick
<1>3. Eligible' \subseteq Eligible
  BY <1>1, <1>2, SMT DEF Eligible, Deadline
<1>4. WaitersWithinCaps'
  BY <1>3, FewerWait DEF LazyInv
<1>5. WaitLeased' /\ SlotOwned'
  BY <1>1, <1>2, <1>3 DEF LazyInv, WaitLeased, SlotOwned
<1>6. ChangedWait'
  BY <1>1, <1>2 DEF LazyInv, ChangedWait, Row
<1> QED BY <1>1, <1>2, <1>4, <1>5, <1>6, SMT DEF LazyInv, LazyTypeOK

\* Nobody waits at the start.
LEMMA LazyInitInv ==
    LazyInit => LazyInv
<1> SUFFICES ASSUME LazyInit PROVE LazyInv
  OBVIOUS
<1>1. LazyTypeOK
  BY SMT DEF LazyInit, LazyTypeOK, Phase
<1>2. Eligible = {}
  BY DEF LazyInit, Eligible
<1>3. WaitersWithinCaps
  <2>1. MaxTotal \in Nat
    BY <1>1, LoadTypes DEF LazyTypeOK
  <2> QED BY <1>2, <2>1, FS_EmptySet, SMT DEF WaitersWithinCaps, MaxPerKey
<1>4. WaitLeased /\ SlotOwned /\ ChangedWait
  BY <1>2 DEF WaitLeased, SlotOwned, ChangedWait, LazyInit
<1> QED BY <1>1, <1>3, <1>4 DEF LazyInv

\* Every step of the waiters, the operator and the clock keeps the invariant.
LEMMA LazyStepInv ==
    ASSUME LazyInv, load' = load, [LazyNext]_lazyVars
    PROVE  LazyInv'
<1>1. ASSUME NEW r \in Waiter, Step(r) PROVE LazyInv'
  BY <1>1, FirstAttemptInv, PreflightInv, AcquireLeaseInv, AcquireFailsInv, RoundInv, TryInv,
     UndoInv, LeaveInv DEF Step
<1>2. ASSUME NEW r \in Waiter, Die(r) PROVE LazyInv'
  BY <1>2, LeaveInv
<1>3. ASSUME NEW k \in Key, SwitchKey(k) \/ ChangePolicy(k) \/ ShrinkWindow(k) PROVE LazyInv'
  BY <1>3, KeyChangeInv
<1>4. CASE ClockTick
  BY <1>4, ClockTickInv
<1>5. CASE UNCHANGED lazyVars
  <2>1. /\ Waiter' = Waiter /\ Key' = Key /\ MaxWait' = MaxWait /\ Ttl' = Ttl /\ Skew' = Skew
        /\ MaxTotal' = MaxTotal
    BY LoadFrame
  <2>2. Eligible' = Eligible
    BY <1>5, <2>1 DEF Eligible, Deadline, lazyVars
  <2> QED BY <1>5, <2>1, <2>2 DEF LazyInv, LazyTypeOK, WaitLeased, WaitersWithinCaps, SlotOwned,
                                  ChangedWait, Row, MaxPerKey, lazyVars
<1> QED BY <1>1, <1>2, <1>3, <1>4, <1>5 DEF LazyNext

\* The invariant implies both promises of the wait.
LEMMA LazyPromise ==
    LazyInv => WaitersWithinCaps /\ SlotIsDue
BY DEF LazyInv, SlotOwned, ChangedWait, SlotIsDue

-----------------------------------------------------------------------------
(* The theorems *)

\* The inductive invariant of the wait holds of every behaviour.
THEOREM LazyInvariant ==
    LazySpec => []LazyInv
<1>1. LazyInv /\ [LazyNext /\ UNCHANGED load]_<<lazyVars, load>> => LazyInv'
  <2> SUFFICES ASSUME LazyInv, [LazyNext /\ UNCHANGED load]_<<lazyVars, load>> PROVE LazyInv'
    OBVIOUS
  <2>1. load' = load /\ [LazyNext]_lazyVars
    OBVIOUS
  <2> QED BY <2>1, LazyStepInv
<1> QED BY <1>1, LazyInitInv, PTL DEF LazySpec

\* No more requests wait than the caps of the key and of the deployment, with
\* clocks that differ by less than the margin of the lease
\* (_ACQUIRE_WAITING_SCRIPT).
THEOREM WaitersWithinCapsAlways ==
    LazySpec => []WaitersWithinCaps
BY LazyInvariant, LazyPromise, PTL

\* A slot that is not left to its TTL belongs to a request that runs or is
\* about to under the policy it fell asleep with, or is being given back
\* (_revalidate_responses_after_wait, _release_admitted_slot_quietly).  The
\* exception the property names is a wait that ended in the look for the
\* client, which keeps its slot (_client_gone).
THEOREM SlotIsDueAlways ==
    LazySpec => []SlotIsDue
BY LazyInvariant, LazyPromise, PTL

-----------------------------------------------------------------------------
(* Both together *)

\* A request is admitted within the limits and waits within the caps, whichever
\* of the two a behaviour looks at: what the run on Admission checks.
THEOREM AdmissionHolds ==
    AdmissionSpec => [](LimitsHold /\ StreamKeepsSlot /\ WaitersWithinCaps /\ SlotIsDue)
<1> DEFINE all == <<vars, lazyVars, load>>
<1>1. AdmissionInit => LimiterInv /\ LazyInv
  BY LimiterInitInv, LazyInitInv DEF AdmissionInit
<1>2. LimiterInv /\ LazyInv /\ [AdmissionNext]_all => LimiterInv' /\ LazyInv'
  <2> SUFFICES ASSUME LimiterInv, LazyInv, [AdmissionNext]_all PROVE LimiterInv' /\ LazyInv'
    OBVIOUS
  <2>1. [Next]_vars /\ [LazyNext]_lazyVars /\ load' = load
    BY DEF AdmissionNext
  <2> QED BY <2>1, LimiterStepInv, LazyStepInv
<1> QED BY <1>1, <1>2, LimiterPromise, LazyPromise, PTL DEF AdmissionSpec
=============================================================================
