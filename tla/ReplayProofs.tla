---------------------------- MODULE ReplayProofs ----------------------------
(***************************************************************************)
(* Proofs about CodexReplay and ReplayMaintenance, for any number of       *)
(* requests, routes, secrets, operators and any workload whose provider    *)
(* names one item by one identifier.                                       *)
(*                                                                         *)
(* References are never taken away, and storing an item again keeps the    *)
(* call and the tool it names.  What a request was authorised to replay    *)
(* therefore stays backed, whatever the others store meanwhile; what the   *)
(* operator reviewed is compared with the locked rows just before they are *)
(* written.                                                                *)
(***************************************************************************)
EXTENDS ReplayMaintenance, FiniteSetTheorems, TLAPS

\* Few steps need arithmetic or the values of strings; those name SMT.
USE Zenon

-----------------------------------------------------------------------------
(* Requests *)

Fields == {"stage", "body", "compact", "auth", "route", "out"}

\* An authorisation that backs an item, by the references R
Backs(a, c, R) ==
    /\ a.kind = c.kind /\ (c.item # None => a.id.item = c.item)
    /\ R[a.id].call = c.call /\ R[a.id].tool = c.tool

\* The items of a request of key k are backed one by one.
Backed(body, auth, k, R) ==
    /\ \A a \in auth : a.id \in DOMAIN R /\ a.id.key = k
    /\ Cardinality(auth) = Cardinality(body)
    /\ \A c \in body : \E a \in auth : Backs(a, c, R)

\* The local variables of a request of key k, with the references R and the
\* output O that its provider may give
QueryOK(q, k, R, O) ==
    /\ DOMAIN q = Fields
    /\ q.out \subseteq O /\ IsFiniteSet(q.out) /\ IsFiniteSet(q.body)
    /\ q.auth # None => Backed(q.body, q.auth, k, R)
    /\ q.stage \in {"admission", "sent"} =>
          q.auth # None /\ \A a \in q.auth : FitsRoute(a, q.route, q.compact)

RowFields == {"request", "route", "model", "call", "tool", "created", "expires"}

\* A reference stands for an item of a charged request of its key that is over.
RefOK(id) ==
    /\ refs[id].request \in Request /\ refs[id].request \in ledger
    /\ KeyOf[refs[id].request] = id.key
    /\ req[refs[id].request].stage = "ended"
    /\ refs[id].created \in Nat /\ refs[id].expires \in Nat /\ DOMAIN refs[id] = RowFields
    /\ \E c \in Output : /\ c.kind = id.kind /\ c.item = id.item
                         /\ c.call = refs[id].call /\ c.tool = refs[id].tool

RefsInv == IsFiniteSet(DOMAIN refs) /\ \A id \in DOMAIN refs : RefOK(id)
RequestsInv == DOMAIN req = Request /\ \A r \in Request : QueryOK(req[r], KeyOf[r], refs, Output)
ReplayInv == load \in DOMAIN Load /\ now \in Nat /\ RefsInv /\ RequestsInv

\* The invariant implies the two promises about what goes upstream.
LEMMA ReplayPromise ==
    ASSUME ReplayInv
    PROVE  SentWhereProduced /\ EveryItemBacked
<1>1. ASSUME NEW r \in Request, req[r].stage = "sent", NEW a \in req[r].auth
      PROVE  FitsRoute(a, req[r].route, req[r].compact)
  BY <1>1 DEF ReplayInv, RequestsInv, QueryOK
<1>2. SentWhereProduced
  BY <1>1 DEF SentWhereProduced, FitsRoute
<1>3. ASSUME NEW r \in Request, req[r].auth # None
      PROVE  Backed(req[r].body, req[r].auth, KeyOf[r], refs)
  BY <1>3 DEF ReplayInv, RequestsInv, QueryOK
<1>4. ASSUME NEW r \in Request, req[r].auth # None, NEW a \in req[r].auth
      PROVE  /\ a.id.key = KeyOf[r]
             /\ KeyOf[refs[a.id].request] = KeyOf[r] /\ refs[a.id].request \in ledger
  <2>1. a.id \in DOMAIN refs /\ a.id.key = KeyOf[r]
    BY <1>3, <1>4 DEF Backed
  <2> QED BY <2>1 DEF ReplayInv, RefsInv, RefOK
<1>5. ASSUME NEW r \in Request, req[r].stage \in {"admission", "sent"} PROVE req[r].auth # None
  BY <1>5 DEF ReplayInv, RequestsInv, QueryOK
<1>6. EveryItemBacked
  BY <1>3, <1>4, <1>5 DEF EveryItemBacked, Backed, Backs
<1> QED BY <1>2, <1>6

\* It holds at the start.
LEMMA ReplayInitInv ==
    ASSUME ReplayInit
    PROVE  ReplayInv
<1>1. RefsInv
  <2>1. DOMAIN refs = {}
    BY SMT DEF ReplayInit
  <2> QED BY <2>1, FS_EmptySet DEF RefsInv
<1>2. \A k : QueryOK(Idle, k, refs, Output)
  <2>1. /\ DOMAIN Idle = Fields /\ Idle.out = {} /\ Idle.body = {} /\ Idle.auth = None
        /\ Idle.stage \notin {"admission", "sent"}
    BY SMT DEF Idle, Fields
  <2> QED BY <2>1, FS_EmptySet DEF QueryOK
<1>3. RequestsInv
  BY <1>2 DEF ReplayInit, RequestsInv
<1> QED BY <1>1, <1>3, SMT DEF ReplayInit, ReplayInv

\* A reference may be renewed and does not go away; what it names stays.
Grow ==
    \A id \in DOMAIN refs :
        id \in DOMAIN refs' /\ refs'[id].call = refs[id].call /\ refs'[id].tool = refs[id].tool

\* What the requests do, as an operator sees it: a request that is over stays
\* over, and a reference is written by a request that was not, or extended.
Going ==
    /\ \A s \in Request : req[s].stage = "ended" => req'[s].stage = "ended"
    /\ \A id \in DOMAIN refs : /\ id \in DOMAIN refs'
                                /\ \/ refs'[id] = refs[id]
                                   \/ req[refs'[id].request].stage # "ended"
                                   \/ /\ refs'[id].request = refs[id].request
                                      /\ refs'[id].expires > refs[id].expires

\* What a request was authorised to replay stays backed.
LEMMA StaysBacked ==
    ASSUME Grow, NEW q, NEW k, QueryOK(q, k, refs, Output), UNCHANGED load
    PROVE  QueryOK(q, k, refs', Output')
<1>1. Output' = Output
  BY DEF Output
<1>2. ASSUME Backed(q.body, q.auth, k, refs) PROVE Backed(q.body, q.auth, k, refs')
  <2>1. \A a \in q.auth : a.id \in DOMAIN refs' /\ a.id.key = k
    BY <1>2 DEF Grow, Backed
  <2>2. ASSUME NEW c \in q.body PROVE \E a \in q.auth : Backs(a, c, refs')
    <3>1. PICK a \in q.auth : Backs(a, c, refs)
      BY <1>2 DEF Backed
    <3>2. a.id \in DOMAIN refs
      BY <1>2 DEF Backed
    <3>3. Backs(a, c, refs')
      BY <3>1, <3>2 DEF Backs, Grow
    <3> QED BY <3>3
  <2> QED BY <1>2, <2>1, <2>2 DEF Backed
<1> QED BY <1>1, <1>2 DEF QueryOK

\* A reference stays what it is while it is not written.
LEMMA RefStays ==
    ASSUME UNCHANGED load, ledger \subseteq ledger',
           \A r \in Request : req[r].stage = "ended" => req'[r].stage = "ended",
           NEW id \in DOMAIN refs, RefOK(id), refs'[id] = refs[id]
    PROVE  RefOK(id)'
BY DEF RefOK, Output

\* A step of a request that stores nothing.
LEMMA LocalStep ==
    ASSUME ReplayInv, NEW r \in Request, req[r].stage # "ended", NEW q,
           QueryOK(q, KeyOf[r], refs, Output), req' = [req EXCEPT ![r] = q],
           UNCHANGED <<now, refs, load>>, ledger \subseteq ledger'
    PROVE  ReplayInv' /\ Going
<1>1. /\ DOMAIN req' = Request /\ req'[r] = q /\ \A s \in Request \ {r} : req'[s] = req[s]
  BY DEF ReplayInv, RequestsInv
<1>2. \A s \in Request : req[s].stage = "ended" => req'[s].stage = "ended"
  BY <1>1
<1>3. RefsInv'
  BY <1>2, RefStays DEF ReplayInv, RefsInv
<1>4. RequestsInv'
  BY <1>1 DEF ReplayInv, RequestsInv, Output
<1> QED BY <1>2, <1>3, <1>4 DEF ReplayInv, Going

\* A request that is over has nothing left to show.
LEMMA OverOK ==
    ASSUME NEW k
    PROVE  QueryOK([Idle EXCEPT !.stage = "ended"], k, refs, Output)
<1> DEFINE q == [Idle EXCEPT !.stage = "ended"]
<1>1. /\ DOMAIN q = Fields /\ q.out = {} /\ q.body = {} /\ q.auth = None
      /\ q.stage \notin {"admission", "sent"}
  BY SMT DEF Idle, Fields
<1> QED BY <1>1, FS_EmptySet DEF QueryOK

\* A request begins with a body and nothing else.
LEMMA BeginInv ==
    ASSUME ReplayInv, NEW r \in Request, NEW body \in Bodies, NEW compact,
           Begin(r, body, compact), UNCHANGED load
    PROVE  ReplayInv' /\ Going
<1> DEFINE q == [Idle EXCEPT !.stage = "checking", !.body = body, !.compact = compact]
<1>1. req[r].stage = "idle" /\ req' = [req EXCEPT ![r] = q] /\ UNCHANGED <<now, refs, ledger>>
  BY DEF Begin
<1>2. /\ DOMAIN q = Fields /\ q.out = {} /\ q.body = body /\ q.auth = None
      /\ q.stage \notin {"admission", "sent"}
  BY SMT DEF Idle, Fields
<1>3. IsFiniteSet(body)
  BY ReplayConstants DEF ReplayInv, Bodies
<1> HIDE DEF q
<1>4. QueryOK(q, KeyOf[r], refs, Output)
  BY <1>2, <1>3, FS_EmptySet DEF QueryOK
<1>5. req[r].stage # "ended"
  BY <1>1, SMT
<1> QED BY <1>1, <1>4, <1>5, LocalStep

\* A task that is over.
LEMMA EndInv ==
    ASSUME ReplayInv, NEW r \in Request, req[r].stage # "ended", End(r),
           UNCHANGED <<now, refs, ledger, load>>
    PROVE  ReplayInv' /\ Going
BY OverOK, LocalStep DEF End

\* Everything that only moves a request on.
LEMMA MoveInv ==
    ASSUME ReplayInv, NEW r \in Request, UNCHANGED load,
           \/ \E t \in InUse : Resolve(r, t) \/ Reroute(r, t)
           \/ CheckRoute(r) \/ Send(r) \/ Fail(r)
           \/ \E out \in {{}} \cup {{c} : c \in Output} : Answer(r, out)
    PROVE  ReplayInv' /\ Going
<1> DEFINE q == req[r]
<1>1. QueryOK(q, KeyOf[r], refs, Output)
  BY DEF ReplayInv, RequestsInv
<1>2. DOMAIN q = Fields
  BY <1>1 DEF QueryOK
<1>3. ASSUME NEW t, Resolve(r, t) PROVE ReplayInv' /\ Going
  <2> DEFINE p == [q EXCEPT !.route = [id |-> t, model |-> upstream[t]]]
  <2>1. req' = [req EXCEPT ![r] = p] /\ UNCHANGED <<now, refs, ledger>> /\ q.stage = "checking"
    BY <1>3 DEF Resolve
  <2>2. /\ DOMAIN p = Fields /\ p.out = q.out /\ p.body = q.body /\ p.auth = q.auth
        /\ p.stage = q.stage
    BY <1>2, SMT DEF Fields
  <2>3. q.stage # "ended" /\ q.stage \notin {"admission", "sent"}
    BY <2>1, SMT
  <2> HIDE DEF p, q
  <2>4. QueryOK(p, KeyOf[r], refs, Output)
    BY <1>1, <2>2, <2>3 DEF QueryOK
  <2> QED BY <2>1, <2>3, <2>4, LocalStep DEF q
<1>4. ASSUME NEW t, Reroute(r, t) PROVE ReplayInv' /\ Going
  <2> DEFINE p == [q EXCEPT !.route = [id |-> t, model |-> upstream[t]], !.stage = "checking"]
  <2>1. req' = [req EXCEPT ![r] = p] /\ UNCHANGED <<now, refs, ledger>> /\ q.stage = "admission"
    BY <1>4 DEF Reroute
  <2>2. /\ DOMAIN p = Fields /\ p.out = q.out /\ p.body = q.body /\ p.auth = q.auth
        /\ p.stage \notin {"admission", "sent"}
    BY <1>2, SMT DEF Fields
  <2>3. q.stage # "ended"
    BY <2>1, SMT
  <2> HIDE DEF p, q
  <2>4. QueryOK(p, KeyOf[r], refs, Output)
    BY <1>1, <2>2, <2>3 DEF QueryOK
  <2> QED BY <2>1, <2>3, <2>4, LocalStep DEF q
<1>5. CASE CheckRoute(r)
  <2>1. /\ q.stage = "checking" /\ q.auth # None /\ UNCHANGED <<now, refs, ledger>>
    BY <1>5 DEF CheckRoute
  <2>2. q.stage # "ended"
    BY <2>1, SMT
  <2>3. CASE \A a \in q.auth : FitsRoute(a, q.route, q.compact)
    <3> DEFINE p == [q EXCEPT !.stage = "admission"]
    <3>1. req' = [req EXCEPT ![r] = p]
      BY <1>5, <2>3 DEF CheckRoute
    <3>2. /\ DOMAIN p = Fields /\ p.out = q.out /\ p.body = q.body /\ p.auth = q.auth
          /\ p.route = q.route /\ p.compact = q.compact
      BY <1>2, SMT DEF Fields
    <3> HIDE DEF p, q
    <3>3. QueryOK(p, KeyOf[r], refs, Output)
      BY <1>1, <2>1, <2>3, <3>2 DEF QueryOK
    <3> QED BY <2>1, <2>2, <3>1, <3>3, LocalStep DEF q
  <2>4. CASE ~\A a \in q.auth : FitsRoute(a, q.route, q.compact)
    BY <1>5, <2>1, <2>2, <2>4, EndInv DEF CheckRoute
  <2> QED BY <2>3, <2>4
<1>6. CASE Send(r)
  <2> DEFINE p == [q EXCEPT !.stage = "sent"]
  <2>1. req' = [req EXCEPT ![r] = p] /\ UNCHANGED <<now, refs, ledger>> /\ q.stage = "admission"
    BY <1>6 DEF Send
  <2>2. /\ DOMAIN p = Fields /\ p.out = q.out /\ p.body = q.body /\ p.auth = q.auth
        /\ p.route = q.route /\ p.compact = q.compact
    BY <1>2, SMT DEF Fields
  <2>3. q.stage # "ended"
    BY <2>1, SMT
  <2> HIDE DEF p, q
  <2>4. QueryOK(p, KeyOf[r], refs, Output)
    BY <1>1, <2>1, <2>2 DEF QueryOK
  <2> QED BY <2>1, <2>3, <2>4, LocalStep DEF q
<1>7. ASSUME NEW out \in {{}} \cup {{c} : c \in Output}, Answer(r, out) PROVE ReplayInv' /\ Going
  <2> DEFINE p == [q EXCEPT !.stage = "answered", !.out = out]
  <2>1. req' = [req EXCEPT ![r] = p] /\ UNCHANGED <<now, refs>> /\ ledger' = ledger \cup {r}
        /\ q.stage = "sent"
    BY <1>7 DEF Answer
  <2>2. /\ DOMAIN p = Fields /\ p.out = out /\ p.body = q.body /\ p.auth = q.auth
        /\ p.stage \notin {"admission", "sent"}
    BY <1>2, SMT DEF Fields
  <2>3. q.stage # "ended"
    BY <2>1, SMT
  <2>4. out \subseteq Output /\ IsFiniteSet(out)
    <3>1. CASE out = {}
      BY <3>1, FS_EmptySet
    <3>2. ASSUME NEW c \in Output, out = {c} PROVE out \subseteq Output /\ IsFiniteSet(out)
      BY <3>2, FS_Singleton
    <3> QED BY <3>1, <3>2
  <2> HIDE DEF p, q
  <2>5. QueryOK(p, KeyOf[r], refs, Output)
    BY <1>1, <2>2, <2>4 DEF QueryOK
  <2>6. ledger \subseteq ledger'
    BY <2>1
  <2> QED BY <2>1, <2>3, <2>5, <2>6, LocalStep DEF q
<1>8. CASE Fail(r)
  <2>1. q.stage # "ended"
    BY <1>8, SMT DEF Fail
  <2> QED BY <1>8, <2>1, EndInv DEF Fail
<1> QED BY <1>3, <1>4, <1>5, <1>6, <1>7, <1>8

\* The reference of an item that has exactly one
Found(k, c) == CHOOSE id : Matches(k, c) = {id}

\* What a request is granted for a reference
Grant(id) == [id |-> id, kind |-> id.kind, route |-> refs[id].route, model |-> refs[id].model]

\* A grant tells its reference.
LEMMA GrantIs ==
    ASSUME NEW id
    PROVE  Grant(id).id = id /\ Grant(id).kind = id.kind
BY SMT DEF Grant

\* Two items of a valid body have different references: one identifier is not
\* used twice, and an item without one is told by its call.
LEMMA FoundApart ==
    ASSUME RefsInv, NEW k, NEW body, NEW idless, Valid(body, idless), NEW c \in body, NEW d \in body,
           NEW id, id \in Matches(k, c), id \in Matches(k, d), RowMatches(id, c), RowMatches(id, d)
    PROVE  c = d
<1> SUFFICES ASSUME c # d PROVE FALSE
  OBVIOUS
<1>1. id.kind = c.kind /\ id.kind = d.kind
  BY DEF Matches, Active
<1>2. refs[id].call = c.call /\ refs[id].call = d.call
  BY DEF RowMatches
<1>3. (c.item = d.item => c.item = None) /\ (c.call = d.call => c.call = None)
  BY <1>1 DEF Valid
<1>4. c.call = None /\ d.call = None
  BY <1>2, <1>3
<1>5. c.item # None /\ d.item # None
  BY <1>4 DEF Valid
<1>6. id.item = c.item /\ id.item = d.item
  BY <1>5 DEF Matches
<1> QED BY <1>3, <1>5, <1>6

\* What verify_owned_replay authorises backs the items one by one.
LEMMA OwnedBacked ==
    ASSUME RefsInv, NEW k, NEW body, IsFiniteSet(body), NEW idless, Valid(body, idless),
           \A c \in body : /\ Cardinality(Matches(k, c)) = 1
                           /\ \A id \in Matches(k, c) : RowMatches(id, c)
    PROVE  Backed(body, {[id |-> id, kind |-> id.kind, route |-> refs[id].route,
                          model |-> refs[id].model] :
                         id \in UNION {Matches(k, c) : c \in body}}, k, refs)
<1> DEFINE U == UNION {Matches(k, c) : c \in body}
           A == {Grant(id) : id \in U}
<1>1. ASSUME NEW c \in body
      PROVE  Matches(k, c) = {Found(k, c)} /\ Found(k, c) \in Matches(k, c)
  <2>1. Matches(k, c) \in SUBSET DOMAIN refs
    BY DEF Matches, Active
  <2>2. IsFiniteSet(Matches(k, c))
    BY <2>1, FS_Subset DEF RefsInv
  <2>3. \E id : Matches(k, c) = {id}
    BY <2>2, FS_Singleton
  <2> QED BY <2>3 DEF Found
<1>2. ASSUME NEW c \in body
      PROVE  LET id == Found(k, c) IN
             /\ id \in DOMAIN refs /\ id.key = k /\ id.kind = c.kind
             /\ c.item # None => id.item = c.item
             /\ refs[id].call = c.call /\ refs[id].tool = c.tool
  <2>1. Found(k, c) \in Matches(k, c)
    BY <1>1
  <2>2. RowMatches(Found(k, c), c)
    BY <2>1
  <2> QED BY <2>1, <2>2 DEF Matches, Active, RowMatches
<1>3. \A id : id \in U <=> \E c \in body : id = Found(k, c)
  <2>1. ASSUME NEW id \in U PROVE \E c \in body : id = Found(k, c)
    <3>1. PICK c \in body : id \in Matches(k, c)
      OBVIOUS
    <3> QED BY <1>1, <3>1
  <2>2. ASSUME NEW c \in body PROVE Found(k, c) \in U
    BY <1>1, <2>2
  <2> QED BY <2>1, <2>2
<1> HIDE DEF U
<1>4. \A a \in A : \E c \in body : a = Grant(Found(k, c))
  BY <1>3
<1>5. ASSUME NEW a \in A PROVE a.id \in DOMAIN refs /\ a.id.key = k
  <2>1. PICK c \in body : a = Grant(Found(k, c))
    BY <1>4
  <2>2. a.id = Found(k, c)
    BY <2>1, GrantIs
  <2> QED BY <1>2, <2>2
<1>6. ASSUME NEW c \in body PROVE Grant(Found(k, c)) \in A /\ Backs(Grant(Found(k, c)), c, refs)
  <2>1. Grant(Found(k, c)).id = Found(k, c) /\ Grant(Found(k, c)).kind = Found(k, c).kind
    BY GrantIs
  <2>2. Backs(Grant(Found(k, c)), c, refs)
    BY <1>2, <2>1 DEF Backs
  <2> QED BY <1>3, <2>2
<1>7. Cardinality(A) = Cardinality(body)
  <2> DEFINE f == [c \in body |-> Grant(Found(k, c))]
  <2>1. f \in [body -> A]
    BY <1>6
  <2>2. \A a \in A : \E c \in body : f[c] = a
    BY <1>4
  <2>3. ASSUME NEW c \in body, NEW d \in body, f[c] = f[d] PROVE c = d
    <3>1. Found(k, c) = Found(k, d)
      <4>1. Grant(Found(k, c)) = Grant(Found(k, d))
        BY <2>3
      <4>2. Grant(Found(k, c)).id = Found(k, c) /\ Grant(Found(k, d)).id = Found(k, d)
        BY GrantIs
      <4> QED BY <4>1, <4>2
    <3>2. /\ Found(k, c) \in Matches(k, c) /\ Found(k, c) \in Matches(k, d)
      BY <1>1, <3>1
    <3> QED BY <3>2, FoundApart
  <2> HIDE DEF f, A
  <2>4. f \in Bijection(body, A)
    BY <2>1, <2>2, <2>3 DEF Bijection, Injection, Surjection, IsInjective
  <2>5. ExistsBijection(body, A)
    BY <2>4 DEF ExistsBijection
  <2> QED BY <2>5, FS_Bijection
<1>8. Backed(body, A, k, refs)
  BY <1>5, <1>6, <1>7 DEF Backed
<1> QED BY <1>8 DEF U, Grant

\* Ownership is verified.
LEMMA VerifyInv ==
    ASSUME ReplayInv, NEW r \in Request, Verify(r), UNCHANGED load
    PROVE  ReplayInv' /\ Going
<1> DEFINE q == req[r]
           k == KeyOf[r]
           A == {[id |-> id, kind |-> id.kind, route |-> refs[id].route, model |-> refs[id].model] :
                 id \in UNION {Matches(k, c) : c \in q.body}}
           p == [q EXCEPT !.auth = A]
           single == \A c \in q.body : /\ Cardinality(Matches(k, c)) = 1
                                       /\ \A id \in Matches(k, c) : RowMatches(id, c)
<1>1. /\ q.stage = "checking" /\ UNCHANGED <<now, refs, ledger>>
      /\ \/ Valid(q.body, ~q.compact) /\ single /\ req' = [req EXCEPT ![r] = p]
         \/ End(r)
  BY DEF Verify
<1>2. q.stage # "ended" /\ q.stage \notin {"admission", "sent"}
  BY <1>1, SMT
<1>3. QueryOK(q, k, refs, Output) /\ RefsInv
  BY DEF ReplayInv, RequestsInv
<1>4. CASE Valid(q.body, ~q.compact) /\ single /\ req' = [req EXCEPT ![r] = p]
  <2>1. Backed(q.body, A, k, refs)
    BY <1>3, <1>4, OwnedBacked DEF QueryOK
  <2> HIDE DEF A
  <2>2. /\ DOMAIN p = Fields /\ p.out = q.out /\ p.body = q.body /\ p.auth = A /\ p.stage = q.stage
    BY <1>3, SMT DEF Fields, QueryOK
  <2> HIDE DEF p, q
  <2>3. QueryOK(p, k, refs, Output)
    BY <1>2, <1>3, <2>1, <2>2 DEF QueryOK
  <2> QED BY <1>1, <1>2, <1>4, <2>3, LocalStep DEF q
<1>5. CASE End(r)
  BY <1>1, <1>2, <1>5, EndInv
<1> QED BY <1>1, <1>4, <1>5

\* What a finished request stores for one of its items
StoredBy(row, id, r) ==
    /\ row.request = r /\ row.created = now /\ row.expires = now + Ttl
    /\ DOMAIN row = RowFields /\ id.key = KeyOf[r]
    /\ \E c \in Output : /\ c.kind = id.kind /\ c.item = id.item
                         /\ c.call = row.call /\ c.tool = row.tool

\* Upsert stores that.
LEMMA UpsertRow ==
    ASSUME ReplayInv, NEW r \in Request, NEW id \in IdsOf(r)
    PROVE  StoredBy(Upsert(r)[id], id, r)
<1> DEFINE c == CHOOSE c \in req[r].out : c.kind = id.kind /\ c.item = id.item
           row == [request |-> r, route |-> req[r].route.id,
                   model |-> req[r].route.model, call |-> c.call, tool |-> c.tool,
                   created |-> now, expires |-> now + Ttl]
<1>1. PICK d \in req[r].out : id = [key |-> KeyOf[r], kind |-> d.kind, item |-> d.item,
                                    version |-> signing]
  BY DEF IdsOf
<1>2. id.key = KeyOf[r] /\ id.kind = d.kind /\ id.item = d.item
  BY <1>1, SMT
<1>3. c \in req[r].out /\ c.kind = id.kind /\ c.item = id.item
  BY <1>2
<1>4. req[r].out \subseteq Output
  BY DEF ReplayInv, RequestsInv, QueryOK
<1> HIDE DEF c
<1>5. Upsert(r)[id] = row
  BY DEF Upsert, c
<1>6. /\ row.request = r /\ row.created = now /\ row.expires = now + Ttl
      /\ DOMAIN row = RowFields /\ c.call = row.call /\ c.tool = row.tool
  BY SMT DEF RowFields
<1> HIDE DEF row
<1>7. StoredBy(row, id, r)
  BY <1>2, <1>3, <1>4, <1>6 DEF StoredBy
<1> QED BY <1>5, <1>7

\* persist_validated_references
LEMMA PersistInv ==
    ASSUME ReplayInv, NEW r \in Request, Persist(r), UNCHANGED load
    PROVE  ReplayInv' /\ Going
<1>1. /\ req[r].stage = "answered" /\ r \in ledger /\ End(r) /\ UNCHANGED <<now, ledger>>
  BY DEF Persist
<1>2. req[r].stage # "ended"
  BY <1>1, SMT
<1>3. CASE UNCHANGED refs
  BY <1>1, <1>2, <1>3, EndInv
<1>4. CASE refs' = Upsert(r)
  <2>1. /\ DOMAIN req' = Request /\ req'[r] = [Idle EXCEPT !.stage = "ended"]
        /\ \A s \in Request \ {r} : req'[s] = req[s]
    BY <1>1 DEF End, ReplayInv, RequestsInv
  <2>2. req'[r].stage = "ended"
    BY <2>1, SMT DEF Idle
  <2>3. \A s \in Request : req[s].stage = "ended" => req'[s].stage = "ended"
    BY <2>1, <2>2
  <2>4. DOMAIN refs' = IdsOf(r) \cup DOMAIN refs
    BY <1>4 DEF Upsert
  <2>5. \A id \in DOMAIN refs \ IdsOf(r) : refs'[id] = refs[id]
    BY <1>4 DEF Upsert
  <2>6. ASSUME NEW id \in IdsOf(r)
        PROVE  /\ RefOK(id)' /\ refs'[id].request = r
               /\ \E c \in Output : /\ c.kind = id.kind /\ c.item = id.item
                                    /\ c.call = refs'[id].call /\ c.tool = refs'[id].tool
    <3>1. /\ refs'[id].request = r /\ refs'[id].created = now /\ refs'[id].expires = now + Ttl
          /\ DOMAIN refs'[id] = RowFields /\ id.key = KeyOf[r]
          /\ \E c \in Output : /\ c.kind = id.kind /\ c.item = id.item
                               /\ c.call = refs'[id].call /\ c.tool = refs'[id].tool
      <4>1. StoredBy(refs'[id], id, r)
        BY <1>4, UpsertRow
      <4> QED BY <4>1 DEF StoredBy
    <3>2. now \in Nat /\ now + Ttl \in Nat
      BY ReplayConstants, SMT DEF ReplayInv
    <3> QED BY <1>1, <2>2, <3>1, <3>2 DEF RefOK, Output
  <2>7. Grow
    <3>1. ASSUME NEW id \in DOMAIN refs, id \in IdsOf(r)
          PROVE  refs'[id].call = refs[id].call /\ refs'[id].tool = refs[id].tool
      <4>1. PICK c \in Output : /\ c.kind = id.kind /\ c.item = id.item
                                /\ c.call = refs'[id].call /\ c.tool = refs'[id].tool
        BY <2>6, <3>1
      <4>2. PICK d \in Output : /\ d.kind = id.kind /\ d.item = id.item
                                /\ d.call = refs[id].call /\ d.tool = refs[id].tool
        BY DEF ReplayInv, RefsInv, RefOK
      <4>3. c = d
        BY <4>1, <4>2, ReplayConstants DEF ReplayInv, Output
      <4> QED BY <4>1, <4>2, <4>3
    <3> QED BY <2>4, <2>5, <3>1 DEF Grow
  <2>8. RefsInv'
    <3>1. IsFiniteSet(IdsOf(r))
      <4> DEFINE f == [c \in req[r].out |-> [key |-> KeyOf[r], kind |-> c.kind, item |-> c.item,
                                             version |-> signing]]
      <4>1. f \in Surjection(req[r].out, IdsOf(r))
        BY DEF Surjection, IdsOf
      <4>2. IsFiniteSet(req[r].out)
        BY DEF ReplayInv, RequestsInv, QueryOK
      <4> HIDE DEF f
      <4> QED BY <4>1, <4>2, FS_Surjection
    <3>2. IsFiniteSet(DOMAIN refs')
      BY <2>4, <3>1, FS_Union DEF ReplayInv, RefsInv
    <3>3. ASSUME NEW id \in DOMAIN refs \ IdsOf(r) PROVE RefOK(id)'
      <4>1. RefOK(id) /\ refs'[id] = refs[id] /\ ledger \subseteq ledger'
        BY <1>1, <2>5 DEF ReplayInv, RefsInv
      <4> QED BY <2>3, <4>1, RefStays
    <3> QED BY <2>4, <2>6, <3>2, <3>3 DEF RefsInv
  <2>9. RequestsInv'
    <3>1. ASSUME NEW s \in Request PROVE QueryOK(req'[s], KeyOf[s], refs, Output)
      BY <2>1, OverOK DEF ReplayInv, RequestsInv
    <3> QED BY <2>1, <2>7, <3>1, StaysBacked DEF RequestsInv
  <2>10. Going
    BY <1>2, <2>3, <2>4, <2>5, <2>6 DEF Going
  <2> QED BY <1>1, <2>8, <2>9, <2>10 DEF ReplayInv
<1> QED BY <1>3, <1>4 DEF Persist

\* What touches neither requests nor references.
LEMMA AroundInv ==
    ASSUME ReplayInv, UNCHANGED <<refs, ledger, req, load>>, now' \in Nat
    PROVE  ReplayInv' /\ Going
<1>1. RefsInv'
  BY DEF ReplayInv, RefsInv, RefOK, Output
<1>2. RequestsInv'
  BY DEF ReplayInv, RequestsInv, Output
<1> QED BY <1>1, <1>2 DEF ReplayInv, Going

\* Every step of a request but the storing.
LEMMA RequestInv ==
    ASSUME ReplayInv, NEW r \in Request, RequestStep(r), UNCHANGED load
    PROVE  ReplayInv' /\ Going
BY BeginInv, VerifyInv, MoveInv DEF RequestStep

\* Every step of what happens around the requests.
LEMMA SecretsAndRoutes ==
    ASSUME ReplayInv, AroundStep, UNCHANGED load
    PROVE  ReplayInv' /\ Going
<1>1. now \in Nat
  BY DEF ReplayInv
<1>2. ASSUME NEW v, Rotate(v) \/ DropSecret(v) PROVE ReplayInv' /\ Going
  BY <1>1, <1>2, AroundInv DEF Rotate, DropSecret
<1>3. ASSUME NEW t, NEW m, EditRoute(t, m) PROVE ReplayInv' /\ Going
  BY <1>1, <1>3, AroundInv DEF EditRoute
<1>4. CASE Tick
  <2>1. now' \in Nat
    BY <1>1, <1>4, SMT DEF Tick
  <2> QED BY <1>4, <2>1, AroundInv DEF Tick
<1> QED BY <1>2, <1>3, <1>4 DEF AroundStep

-----------------------------------------------------------------------------
(* Operators *)

Locking == {"locked", "rows", "final", "apply"}
PlanFields == {"scope", "form", "ttl", "expired", "keys", "source", "post"}

\* How far a job is and whether there is a plan go together.
JobOK(j, p) ==
    /\ DOMAIN j = {"stage", "keys", "rows", "time"} /\ DOMAIN j.keys \subseteq Key
    /\ j.stage = "preview" => p.form = "none"
    /\ j.stage \in {"resolved"} \cup Locking => p.form # "none"

\* ScopeKeys, of one key
InScope(k, scope, row) ==
    IF scope = "cohort" THEN row.cohort ELSE IF scope = "all active" THEN row.active ELSE k = scope

\* What was read of locked keys, whose rows are in K, is still true; the keys of
\* an apply are in its scope.
LocksOK(j, p, K) ==
    /\ j.stage \in Locking => \A k \in DOMAIN j.keys : j.keys[k] = K[k].active
    /\ j.stage = "apply" => \A k \in DOMAIN j.keys : InScope(k, p.scope, K[k])

\* The rows of a plan were stored by requests that are over, as Q tells.
PlanOK(p, Q) ==
    p.form # "none" =>
        /\ DOMAIN p = PlanFields /\ p.ttl \in Nat
        /\ \A id \in DOMAIN p.source :
              /\ p.source[id].request \in Request /\ p.source[id].expires \in Nat
              /\ Q[p.source[id].request].stage = "ended"

\* A plan that was written does not describe the references R any more.
Spent(p, n, R) ==
    /\ n \in Nat
    /\ n > 0 => /\ p.form # "none"
                /\ \E id \in DOMAIN p.source : /\ id \in DOMAIN R
                                               /\ \/ R[id].request # p.source[id].request
                                                  \/ R[id].expires > p.source[id].expires

OperatorInv(m) ==
    /\ JobOK(job[m], plan[m]) /\ LocksOK(job[m], plan[m], keyrow)
    /\ PlanOK(plan[m], req) /\ Spent(plan[m], audit[m], refs)

MaintInv ==
    /\ ReplayInv
    /\ DOMAIN keyrow = Key /\ \A k \in Key : DOMAIN keyrow[k] = {"active", "cohort"}
    /\ DOMAIN plan = Maintainer /\ DOMAIN job = Maintainer /\ DOMAIN audit = Maintainer
    /\ \A m \in Maintainer : OperatorInv(m)

\* Nothing is planned at the start.
LEMMA NothingYet ==
    ASSUME NEW p, p.form = "none"
    PROVE  /\ JobOK(NoJob, p) /\ \A K : LocksOK(NoJob, p, K)
           /\ (\A Q : PlanOK(p, Q)) /\ \A R : Spent(p, 0, R)
<1>1. DOMAIN NoJob = {"stage", "keys", "rows", "time"} /\ NoJob.stage = "idle" /\ DOMAIN NoJob.keys = {}
  BY SMT DEF NoJob
<1>2. "idle" # "preview" /\ "idle" \notin {"resolved"} \cup Locking /\ "idle" \notin Locking
      /\ "idle" # "apply"
  BY SMT DEF Locking
<1>3. JobOK(NoJob, p)
  BY <1>1, <1>2 DEF JobOK
<1>4. \A K : LocksOK(NoJob, p, K)
  BY <1>1, <1>2 DEF LocksOK
<1>5. \A R : Spent(p, 0, R)
  BY SMT DEF Spent
<1> QED BY <1>3, <1>4, <1>5 DEF PlanOK

\* The invariant holds at the start.
LEMMA MaintInitInv ==
    ASSUME MaintInit
    PROVE  MaintInv
<1>1. ReplayInv
  BY ReplayInitInv DEF MaintInit
<1>2. \A k \in Key : keyrow[k] = [active |-> TRUE, cohort |-> TRUE]
  BY DEF MaintInit
<1>3. \A k \in Key : DOMAIN keyrow[k] = {"active", "cohort"}
  BY <1>2, SMT
<1>4. NoPlan.form = "none"
  BY SMT DEF NoPlan
<1>5. ASSUME NEW m \in Maintainer PROVE OperatorInv(m)
  <2>1. job[m] = NoJob /\ plan[m] = NoPlan /\ audit[m] = 0
    BY DEF MaintInit
  <2> QED BY <1>4, <2>1, NothingYet DEF OperatorInv
<1> QED BY <1>1, <1>3, <1>5 DEF MaintInit, MaintInv

\* A plan stays what it is while the requests go on.
LEMMA PlanStays ==
    ASSUME Going, NEW p, PlanOK(p, req)
    PROVE  PlanOK(p, req')
BY DEF Going, PlanOK

\* So does a plan that was written.
LEMMA SpentStays ==
    ASSUME ReplayInv, ReplayInv', Going, NEW p, NEW n, PlanOK(p, req), Spent(p, n, refs)
    PROVE  Spent(p, n, refs')
<1> SUFFICES ASSUME n > 0 PROVE Spent(p, n, refs')
  BY DEF Spent
<1>1. p.form # "none" /\ n \in Nat
  BY DEF Spent
<1>2. PICK id \in DOMAIN p.source : /\ id \in DOMAIN refs
                                    /\ \/ refs[id].request # p.source[id].request
                                       \/ refs[id].expires > p.source[id].expires
  BY DEF Spent
<1>3. id \in DOMAIN refs'
  BY <1>2 DEF Going
<1>4. /\ refs[id].expires \in Nat /\ refs'[id].expires \in Nat /\ p.source[id].expires \in Nat
      /\ p.source[id].request \in Request /\ req[p.source[id].request].stage = "ended"
  BY <1>1, <1>2, <1>3 DEF ReplayInv, RefsInv, RefOK, PlanOK
<1>5. \/ refs'[id].request # p.source[id].request \/ refs'[id].expires > p.source[id].expires
  <2>1. CASE refs'[id] = refs[id]
    BY <1>2, <2>1
  <2>2. CASE req[refs'[id].request].stage # "ended"
    BY <1>4, <2>2
  <2>3. CASE refs'[id].request = refs[id].request /\ refs'[id].expires > refs[id].expires
    <3>1. CASE refs[id].request # p.source[id].request
      BY <2>3, <3>1
    <3>2. CASE refs[id].expires > p.source[id].expires
      BY <1>4, <2>3, <3>2, SMT
    <3> QED BY <1>2, <3>1, <3>2
  <2> QED BY <1>2, <2>1, <2>2, <2>3 DEF Going
<1> QED BY <1>1, <1>2, <1>3, <1>5 DEF Spent

\* Locks are of use: what was read of locked keys stays true.
LEMMA LocksStay ==
    ASSUME NEW j, NEW p, LocksOK(j, p, keyrow),
           j.stage \in Locking => \A k \in DOMAIN j.keys : keyrow'[k] = keyrow[k]
    PROVE  LocksOK(j, p, keyrow')
<1>1. j.stage = "apply" => j.stage \in Locking
  BY DEF Locking
<1> QED BY <1>1 DEF LocksOK

\* Operators who do nothing, while requests go on and keys change that they do
\* not hold.
LEMMA OthersKept ==
    ASSUME MaintInv, ReplayInv', Going, NEW n \in Maintainer,
           job'[n] = job[n], plan'[n] = plan[n], audit'[n] = audit[n],
           \A k \in KeyLocks : keyrow'[k] = keyrow[k]
    PROVE  OperatorInv(n)'
<1>1. /\ JobOK(job[n], plan[n]) /\ LocksOK(job[n], plan[n], keyrow)
      /\ PlanOK(plan[n], req) /\ Spent(plan[n], audit[n], refs) /\ ReplayInv
  BY DEF MaintInv, OperatorInv
<1>2. job[n].stage \in Locking => \A k \in DOMAIN job[n].keys : k \in KeyLocks
  BY DEF KeyLocks, Locking
<1>3. LocksOK(job[n], plan[n], keyrow')
  BY <1>1, <1>2, LocksStay
<1>4. PlanOK(plan[n], req') /\ Spent(plan[n], audit[n], refs')
  BY <1>1, PlanStays, SpentStays
<1> QED BY <1>1, <1>3, <1>4 DEF OperatorInv

\* A step of operator m.
LEMMA OperatorStep ==
    ASSUME MaintInv, ReplayInv', Going, NEW m \in Maintainer, UNCHANGED keyrow,
           DOMAIN job' = Maintainer, DOMAIN plan' = Maintainer, DOMAIN audit' = Maintainer,
           \A n \in Maintainer \ {m} :
              job'[n] = job[n] /\ plan'[n] = plan[n] /\ audit'[n] = audit[n],
           OperatorInv(m)'
    PROVE  MaintInv'
<1>1. ASSUME NEW n \in Maintainer \ {m} PROVE OperatorInv(n)'
  BY OthersKept
<1> QED BY <1>1 DEF MaintInv, Key

\* A step of operator m that writes nothing but their own job and plan.
LEMMA QuietStep ==
    ASSUME MaintInv, NEW m \in Maintainer, UNCHANGED <<runtime, keyrow, audit, load>>,
           NEW j, job' = [job EXCEPT ![m] = j] \/ (job' = job /\ j = job[m]),
           NEW p, plan' = [plan EXCEPT ![m] = p] \/ (plan' = plan /\ p = plan[m]),
           JobOK(j, p), LocksOK(j, p, keyrow), PlanOK(p, req), Spent(p, audit[m], refs)
    PROVE  MaintInv'
<1>1. UNCHANGED <<refs, ledger, req, now>>
  BY DEF runtime
<1>2. ReplayInv /\ now' \in Nat
  BY <1>1 DEF MaintInv, ReplayInv
<1>3. ReplayInv' /\ Going
  BY <1>1, <1>2, AroundInv
<1>4. /\ DOMAIN job' = Maintainer /\ job'[m] = j /\ \A n \in Maintainer \ {m} : job'[n] = job[n]
  BY DEF MaintInv
<1>5. /\ DOMAIN plan' = Maintainer /\ plan'[m] = p /\ \A n \in Maintainer \ {m} : plan'[n] = plan[n]
  BY DEF MaintInv
<1>6. OperatorInv(m)'
  BY <1>1, <1>4, <1>5 DEF OperatorInv
<1>7. DOMAIN audit' = Maintainer
  BY DEF MaintInv
<1> QED BY <1>3, <1>4, <1>5, <1>6, <1>7, OperatorStep

\* A job that ends, with a plan or without.
LEMMA NoJobOK ==
    ASSUME NEW p, NEW K
    PROVE  JobOK(NoJob, p) /\ LocksOK(NoJob, p, K)
<1>1. DOMAIN NoJob = {"stage", "keys", "rows", "time"} /\ NoJob.stage = "idle" /\ DOMAIN NoJob.keys = {}
  BY SMT DEF NoJob
<1>2. "idle" # "preview" /\ "idle" \notin {"resolved"} \cup Locking /\ "idle" \notin Locking
      /\ "idle" # "apply"
  BY SMT DEF Locking
<1> QED BY <1>1, <1>2 DEF JobOK, LocksOK

\* A preview has no plan, so nothing was written from it.
LEMMA NotSpent ==
    ASSUME NEW n, NEW q, NEW R, Spent(q, n, R), q.form = "none", NEW p
    PROVE  Spent(p, n, R)
<1>1. n \in Nat /\ ~(n > 0)
  BY DEF Spent
<1> QED BY <1>1 DEF Spent

\* The first half of a preview.
LEMMA PreviewKeysInv ==
    ASSUME MaintInv, NEW m \in Maintainer, NEW scope, PreviewKeys(m, scope), UNCHANGED load
    PROVE  MaintInv' /\ UNCHANGED audit
<1> DEFINE j == [NoJob EXCEPT !.stage = "preview", !.time = now, !.keys = Snapshot(ScopeKeys(scope))]
           p == [form |-> "none", scope |-> scope]
<1>1. /\ plan[m].form = "none" /\ UNCHANGED <<runtime, keyrow, audit>>
      /\ job' = [job EXCEPT ![m] = j] /\ plan' = [plan EXCEPT ![m] = p]
  BY DEF PreviewKeys
<1>2. p.form = "none"
  BY SMT
<1>3. DOMAIN Snapshot(ScopeKeys(scope)) \subseteq Key
  BY DEF Snapshot, ScopeKeys
<1>4. DOMAIN j = {"stage", "keys", "rows", "time"} /\ j.keys = Snapshot(ScopeKeys(scope))
      /\ j.stage \notin {"resolved"} \cup Locking /\ j.stage \notin Locking /\ j.stage # "apply"
  BY SMT DEF NoJob, Locking
<1> HIDE DEF j, p
<1>5. JobOK(j, p) /\ LocksOK(j, p, keyrow) /\ PlanOK(p, req)
  BY <1>2, <1>3, <1>4 DEF JobOK, LocksOK, PlanOK
<1>6. Spent(p, audit[m], refs)
  BY <1>1, NotSpent DEF MaintInv, OperatorInv
<1> QED BY <1>1, <1>5, <1>6, QuietStep

\* The entry of a row that a plan is made from
EntryOf(e, id, keys, time, ttl, expired) ==
    /\ id \in DOMAIN refs /\ id.key \in DOMAIN keys /\ RefOK(id)
    /\ e.request = refs[id].request /\ e.created = refs[id].created
    /\ e.expires = refs[id].expires /\ "expires" \in DOMAIN e
    /\ e.verdict = Verdict(id, keys, time, ttl, expired)

\* A plan has the entry of every row of its keys.
LEMMA EntriesIs ==
    ASSUME ReplayInv, NEW keys, NEW time, NEW ttl, NEW expired
    PROVE  /\ DOMAIN Entries(keys, time, ttl, expired) = RowsOf(DOMAIN keys)
           /\ \A id \in RowsOf(DOMAIN keys) :
                 EntryOf(Entries(keys, time, ttl, expired)[id], id, keys, time, ttl, expired)
<1> DEFINE of(id) == [request |-> refs[id].request, created |-> refs[id].created,
                      expires |-> refs[id].expires,
                      verdict |-> Verdict(id, keys, time, ttl, expired)]
           E == Entries(keys, time, ttl, expired)
<1>1. DOMAIN E = RowsOf(DOMAIN keys) /\ \A id \in RowsOf(DOMAIN keys) : E[id] = of(id)
  BY DEF Entries
<1>2. ASSUME NEW id
      PROVE  /\ of(id).request = refs[id].request /\ of(id).created = refs[id].created
             /\ of(id).expires = refs[id].expires /\ "expires" \in DOMAIN of(id)
             /\ of(id).verdict = Verdict(id, keys, time, ttl, expired)
  BY SMT
<1>3. \A id \in RowsOf(DOMAIN keys) : id \in DOMAIN refs /\ id.key \in DOMAIN keys /\ RefOK(id)
  BY DEF RowsOf, ReplayInv, RefsInv
<1> HIDE DEF of
<1>4. ASSUME NEW id \in RowsOf(DOMAIN keys) PROVE EntryOf(of(id), id, keys, time, ttl, expired)
  BY <1>2, <1>3 DEF EntryOf
<1> QED BY <1>1, <1>4

\* The second half of a preview.
LEMMA PreviewRowsInv ==
    ASSUME MaintInv, NEW m \in Maintainer, NEW ttl \in Nat, NEW expired, NEW form \in {"token", "file"},
           PreviewRows(m, ttl, expired, form), UNCHANGED load
    PROVE  MaintInv' /\ UNCHANGED audit
<1> DEFINE source == Entries(job[m].keys, job[m].time, ttl, expired)
           p == [scope |-> plan[m].scope, form |-> form, ttl |-> ttl, expired |-> expired,
                 keys |-> DOMAIN job[m].keys, source |-> source, post |-> PostEntries(source, ttl)]
<1>1. /\ job[m].stage = "preview" /\ UNCHANGED <<runtime, keyrow, audit>>
      /\ job' = [job EXCEPT ![m] = NoJob] /\ plan' = [plan EXCEPT ![m] = p]
  BY DEF PreviewRows
<1>2. \A id \in DOMAIN source :
         /\ source[id].request \in Request /\ source[id].expires \in Nat
         /\ req[source[id].request].stage = "ended"
  <2>1. ReplayInv
    BY DEF MaintInv
  <2>2. ASSUME NEW id \in DOMAIN source
        PROVE  EntryOf(source[id], id, job[m].keys, job[m].time, ttl, expired)
    BY <2>1, EntriesIs
  <2> HIDE DEF source
  <2> QED BY <2>2 DEF EntryOf, RefOK
<1> HIDE DEF source
<1>3. DOMAIN p = PlanFields /\ p.ttl = ttl /\ p.source = source
  BY SMT DEF PlanFields
<1> HIDE DEF p
<1>4. PlanOK(p, req)
  BY <1>2, <1>3 DEF PlanOK
<1>5. plan[m].form = "none" /\ Spent(plan[m], audit[m], refs)
  BY <1>1 DEF MaintInv, OperatorInv, JobOK
<1>6. Spent(p, audit[m], refs)
  BY <1>5, NotSpent
<1> QED BY <1>1, <1>4, <1>6, NoJobOK, QuietStep

\* A plan file is edited.
LEMMA EditPlanInv ==
    ASSUME MaintInv, NEW m \in Maintainer, NEW ttl \in Nat, NEW expired,
           EditPlan(m, ttl, expired), UNCHANGED load
    PROVE  MaintInv' /\ UNCHANGED audit
<1> DEFINE p == [plan[m] EXCEPT !.ttl = ttl, !.expired = expired]
<1>1. /\ job[m].stage = "idle" /\ plan[m].form = "file" /\ UNCHANGED <<runtime, keyrow, audit, job>>
      /\ plan' = [plan EXCEPT ![m] = p]
  BY DEF EditPlan
<1>2. plan[m].form # "none"
  BY <1>1, SMT
<1>3. OperatorInv(m)
  BY DEF MaintInv
<1>4. DOMAIN plan[m] = PlanFields
  BY <1>2, <1>3 DEF OperatorInv, PlanOK
<1>5. /\ DOMAIN p = PlanFields /\ p.ttl = ttl /\ p.form = plan[m].form /\ p.source = plan[m].source
      /\ p.scope = plan[m].scope
  BY <1>4, SMT DEF PlanFields
<1> HIDE DEF p
<1>6. JobOK(job[m], p) /\ LocksOK(job[m], p, keyrow)
  BY <1>3, <1>5 DEF OperatorInv, JobOK, LocksOK
<1>7. PlanOK(p, req) /\ Spent(p, audit[m], refs)
  BY <1>2, <1>3, <1>5 DEF OperatorInv, PlanOK, Spent
<1> QED BY <1>1, <1>6, <1>7, QuietStep

\* An apply begins.
LEMMA ResolvedInv ==
    ASSUME MaintInv, NEW m \in Maintainer, ApplyToken(m) \/ ExecuteFile(m), UNCHANGED load
    PROVE  MaintInv' /\ UNCHANGED audit
<1> DEFINE found == Snapshot(ScopeKeys(plan[m].scope))
           j == [NoJob EXCEPT !.stage = "resolved", !.keys = found]
<1>1. /\ plan[m].form = "token" \/ plan[m].form = "file"
      /\ UNCHANGED <<runtime, keyrow, plan, audit>> /\ job' = [job EXCEPT ![m] = j]
  BY DEF ApplyToken, ExecuteFile, Resolved
<1>2. plan[m].form # "none"
  BY <1>1, SMT
<1>3. DOMAIN found \subseteq Key
  BY DEF Snapshot, ScopeKeys
<1> HIDE DEF found
<1>4. DOMAIN j = {"stage", "keys", "rows", "time"} /\ j.keys = found
      /\ j.stage # "preview" /\ j.stage \notin Locking /\ j.stage # "apply"
  BY SMT DEF NoJob, Locking
<1> HIDE DEF j
<1>5. JobOK(j, plan[m]) /\ LocksOK(j, plan[m], keyrow)
  BY <1>2, <1>3, <1>4 DEF JobOK, LocksOK
<1> QED BY <1>1, <1>5, QuietStep DEF MaintInv, OperatorInv

\* The keys are locked and read again.
LEMMA LockKeysInv ==
    ASSUME MaintInv, NEW m \in Maintainer, LockKeys(m), UNCHANGED load
    PROVE  MaintInv' /\ UNCHANGED audit
<1> DEFINE found == Snapshot(DOMAIN job[m].keys)
           j == [job[m] EXCEPT !.stage = "locked", !.keys = found]
<1>1. /\ job[m].stage = "resolved"
      /\ UNCHANGED <<runtime, keyrow, plan, audit>> /\ job' = [job EXCEPT ![m] = j]
  BY DEF LockKeys
<1>2. /\ JobOK(job[m], plan[m]) /\ PlanOK(plan[m], req) /\ Spent(plan[m], audit[m], refs)
  BY DEF MaintInv, OperatorInv
<1>3. plan[m].form # "none" /\ DOMAIN job[m] = {"stage", "keys", "rows", "time"}
  BY <1>1, <1>2 DEF JobOK
<1>4. DOMAIN found \subseteq Key /\ \A k \in DOMAIN found : found[k] = keyrow[k].active
  BY <1>2 DEF Snapshot, JobOK
<1> HIDE DEF found
<1>5. DOMAIN j = {"stage", "keys", "rows", "time"} /\ j.keys = found
      /\ j.stage # "preview" /\ j.stage # "apply"
  BY <1>3, SMT
<1> HIDE DEF j
<1>6. JobOK(j, plan[m]) /\ LocksOK(j, plan[m], keyrow)
  BY <1>3, <1>4, <1>5 DEF JobOK, LocksOK
<1> QED BY <1>1, <1>2, <1>6, QuietStep

\* The apply goes on, or finds the plan stale.
LEMMA StageInv ==
    ASSUME MaintInv, NEW m \in Maintainer, NEW s \in Locking, job[m].stage \in Locking,
           NEW j, j.stage = s, j.keys = job[m].keys, DOMAIN j = DOMAIN job[m],
           job' = [job EXCEPT ![m] = j] \/ Stale(m),
           s = "apply" => ScopeKeys(plan[m].scope) = DOMAIN job[m].keys \/ Stale(m),
           UNCHANGED <<runtime, keyrow, plan, audit, load>>
    PROVE  MaintInv'
<1>1. /\ JobOK(job[m], plan[m]) /\ LocksOK(job[m], plan[m], keyrow)
      /\ PlanOK(plan[m], req) /\ Spent(plan[m], audit[m], refs)
  BY DEF MaintInv, OperatorInv
<1>2. CASE Stale(m)
  BY <1>1, <1>2, NoJobOK, QuietStep DEF Stale
<1>3. CASE ~Stale(m)
  <2>1. plan[m].form # "none" /\ DOMAIN job[m] = {"stage", "keys", "rows", "time"}
    BY <1>1 DEF JobOK
  <2>2. s # "preview"
    BY SMT DEF Locking
  <2>4. job' = [job EXCEPT ![m] = j]
    BY <1>3
  <2>5. JobOK(j, plan[m])
    BY <1>1, <2>1, <2>2 DEF JobOK
  <2>6. ASSUME s = "apply", NEW k \in DOMAIN job[m].keys
        PROVE  InScope(k, plan[m].scope, keyrow[k])
    <3>1. k \in ScopeKeys(plan[m].scope)
      BY <1>3, <2>6
    <3> QED BY <3>1 DEF ScopeKeys, InScope
  <2>7. LocksOK(j, plan[m], keyrow)
    BY <1>1, <2>6 DEF LocksOK
  <2> QED BY <1>1, <2>4, <2>5, <2>7, QuietStep
<1> QED BY <1>2, <1>3

\* The three steps of it.
LEMMA RecheckInv ==
    ASSUME MaintInv, NEW m \in Maintainer, Recheck(m) \/ LockRows(m) \/ FinalRecheck(m), UNCHANGED load
    PROVE  MaintInv' /\ UNCHANGED audit
<1>1. DOMAIN job[m] = {"stage", "keys", "rows", "time"}
  BY DEF MaintInv, OperatorInv, JobOK
<1>2. {"locked", "rows", "final", "apply"} = Locking /\ "rows" # "apply" /\ "final" # "apply"
  BY SMT DEF Locking
<1>3. CASE Recheck(m)
  <2> DEFINE j == [job[m] EXCEPT !.stage = "rows"]
  <2>1. /\ job[m].stage = "locked" /\ (job' = [job EXCEPT ![m] = j] \/ Stale(m))
        /\ UNCHANGED <<runtime, keyrow, plan, audit>>
    BY <1>3 DEF Recheck
  <2>2. j.stage = "rows" /\ j.keys = job[m].keys /\ DOMAIN j = DOMAIN job[m]
    BY <1>1, SMT
  <2> HIDE DEF j
  <2>3. job[m].stage \in Locking /\ "rows" \in Locking
    BY <1>2, <2>1
  <2> QED BY <1>2, <2>1, <2>2, <2>3, StageInv
<1>4. CASE LockRows(m)
  <2> DEFINE j == [job[m] EXCEPT !.stage = "final", !.rows = RowsOf(DOMAIN job[m].keys)]
  <2>1. /\ job[m].stage = "rows" /\ job' = [job EXCEPT ![m] = j]
        /\ UNCHANGED <<runtime, keyrow, plan, audit>>
    BY <1>4 DEF LockRows
  <2>2. j.stage = "final" /\ j.keys = job[m].keys /\ DOMAIN j = DOMAIN job[m]
    BY <1>1, SMT
  <2> HIDE DEF j
  <2>3. job[m].stage \in Locking /\ "final" \in Locking
    BY <1>2, <2>1
  <2> QED BY <1>2, <2>1, <2>2, <2>3, StageInv
<1>5. CASE FinalRecheck(m)
  <2> DEFINE j == [job[m] EXCEPT !.stage = "apply"]
  <2>1. /\ job[m].stage = "final" /\ (job' = [job EXCEPT ![m] = j] \/ Stale(m))
        /\ ScopeKeys(plan[m].scope) = DOMAIN job[m].keys \/ Stale(m)
        /\ UNCHANGED <<runtime, keyrow, plan, audit>>
    BY <1>5 DEF FinalRecheck
  <2>2. j.stage = "apply" /\ j.keys = job[m].keys /\ DOMAIN j = DOMAIN job[m]
    BY <1>1, SMT
  <2> HIDE DEF j
  <2>3. job[m].stage \in Locking /\ "apply" \in Locking
    BY <1>2, <2>1
  <2> QED BY <2>1, <2>2, <2>3, StageInv
<1> QED BY <1>3, <1>4, <1>5

\* A job is given up.
LEMMA AbandonInv ==
    ASSUME MaintInv, NEW m \in Maintainer, Abandon(m), UNCHANGED load
    PROVE  MaintInv' /\ UNCHANGED audit
<1> DEFINE p == IF job[m].stage = "preview" THEN NoPlan ELSE plan[m]
<1>1. /\ job' = [job EXCEPT ![m] = NoJob] /\ plan' = [plan EXCEPT ![m] = p]
      /\ UNCHANGED <<runtime, keyrow, audit>>
  BY DEF Abandon
<1>2. /\ JobOK(job[m], plan[m]) /\ PlanOK(plan[m], req) /\ Spent(plan[m], audit[m], refs)
  BY DEF MaintInv, OperatorInv
<1>3. NoPlan.form = "none"
  BY SMT DEF NoPlan
<1>4. PlanOK(p, req) /\ Spent(p, audit[m], refs)
  <2>1. CASE job[m].stage = "preview"
    BY <1>2, <1>3, <2>1, NotSpent DEF JobOK, PlanOK
  <2> QED BY <1>2, <2>1
<1> HIDE DEF p
<1> QED BY <1>1, <1>4, NoJobOK, QuietStep

-----------------------------------------------------------------------------
(* What an apply writes *)

\* What is asked of a row that is extended
Extensible(id, keys, time, expired) ==
    /\ keys[id.key] /\ ~(time >= ValidUntil[id.key])
    /\ refs[id].expires <= time => expired

\* _classify_row finds a row eligible only for a key that is active and valid,
\* and an expired one only on request.
LEMMA EligibleIs ==
    ASSUME NEW id, NEW keys, NEW time, NEW ttl, NEW expired,
           Verdict(id, keys, time, ttl, expired) = "eligible"
    PROVE  Extensible(id, keys, time, expired)
<1>1. /\ "key_not_active_or_valid" # "eligible" /\ "ledger_not_finalized" # "eligible"
      /\ "hmac_version_unavailable" # "eligible" /\ "outside_lifetime" # "eligible"
      /\ "expired_not_included" # "eligible"
  BY SMT
<1> QED BY <1>1 DEF Verdict, Extensible

\* The entry of a row, as it is to be
PostOf(e, ttl) ==
    IF e.verdict # "eligible" THEN e
    ELSE [e EXCEPT !.expires = IF e.created + ttl > @ THEN e.created + ttl ELSE @]

\* _expected_post_entries changes only the expiry, and only to a later one.
LEMMA PostIs ==
    ASSUME NEW e, NEW ttl \in Nat, e.created \in Nat, e.expires \in Nat, "expires" \in DOMAIN e
    PROVE  /\ PostOf(e, ttl).expires \in Nat
           /\ \/ PostOf(e, ttl).expires = e.expires
              \/ /\ PostOf(e, ttl).expires > e.expires /\ e.verdict = "eligible"
                 /\ PostOf(e, ttl).expires = e.created + ttl
<1>1. CASE e.verdict # "eligible"
  BY <1>1 DEF PostOf
<1>2. CASE e.verdict = "eligible" /\ e.created + ttl > e.expires
  <2>1. PostOf(e, ttl) = [e EXCEPT !.expires = e.created + ttl]
    BY <1>2 DEF PostOf
  <2>2. PostOf(e, ttl).expires = e.created + ttl
    BY <2>1
  <2>3. e.created + ttl \in Nat
    BY SMT
  <2> QED BY <1>2, <2>2, <2>3
<1>3. CASE e.verdict = "eligible" /\ ~(e.created + ttl > e.expires)
  <2>1. PostOf(e, ttl) = [e EXCEPT !.expires = e.expires]
    BY <1>3 DEF PostOf
  <2> QED BY <2>1
<1> QED BY <1>1, <1>2, <1>3

\* A row before and after
SameBut(row, new) ==
    /\ DOMAIN new = RowFields /\ new.request = row.request /\ new.created = row.created
    /\ new.call = row.call /\ new.tool = row.tool

\* extend_reference_expiries writes nothing but the expiry.
LEMMA ExtendedRow ==
    ASSUME ReplayInv, NEW post, NEW id \in DOMAIN refs
    PROVE  /\ SameBut(refs[id], Extended(post)[id])
           /\ IF id \in DOMAIN post /\ post[id].expires > refs[id].expires
              THEN Extended(post)[id].expires = post[id].expires
              ELSE Extended(post)[id] = refs[id]
<1>1. RefOK(id) /\ DOMAIN refs[id] = RowFields
  BY DEF ReplayInv, RefsInv, RefOK
<1> DEFINE new == [refs[id] EXCEPT !.expires = post[id].expires]
<1>2. SameBut(refs[id], new) /\ new.expires = post[id].expires
  BY <1>1, SMT DEF SameBut, RowFields
<1>3. SameBut(refs[id], refs[id])
  BY <1>1 DEF SameBut
<1>4. Extended(post)[id] = IF id \in DOMAIN post /\ post[id].expires > refs[id].expires
                           THEN new ELSE refs[id]
  BY DEF Extended
<1> HIDE DEF new
<1>5. CASE id \in DOMAIN post /\ post[id].expires > refs[id].expires
  <2>1. Extended(post)[id] = new
    BY <1>4, <1>5
  <2> QED BY <1>2, <1>5, <2>1
<1>6. CASE ~(id \in DOMAIN post /\ post[id].expires > refs[id].expires)
  <2>1. Extended(post)[id] = refs[id]
    BY <1>4, <1>6
  <2> QED BY <1>3, <1>6, <2>1
<1> QED BY <1>5, <1>6

\* Rows whose expiry alone moves, to a later time
LEMMA ExtendInv ==
    ASSUME ReplayInv, UNCHANGED <<now, ledger, req, load>>, DOMAIN refs' = DOMAIN refs,
           \A id \in DOMAIN refs : /\ SameBut(refs[id], refs'[id]) /\ refs'[id].expires \in Nat
                                   /\ refs'[id] = refs[id] \/ refs'[id].expires > refs[id].expires
    PROVE  ReplayInv' /\ Going
<1>1. Output' = Output
  BY DEF Output
<1>2. ASSUME NEW id \in DOMAIN refs PROVE RefOK(id)'
  <2>1. RefOK(id) /\ SameBut(refs[id], refs'[id]) /\ refs'[id].expires \in Nat
    BY DEF ReplayInv, RefsInv
  <2> QED BY <1>1, <2>1 DEF RefOK, SameBut
<1>3. RefsInv'
  BY <1>2 DEF RefsInv, ReplayInv
<1>4. Grow
  BY DEF Grow, SameBut
<1>5. RequestsInv'
  BY <1>4, StaysBacked DEF ReplayInv, RequestsInv
<1>6. Going
  BY DEF Going, SameBut
<1> QED BY <1>3, <1>5, <1>6 DEF ReplayInv

\* The condition under which an apply writes
Agrees(m, actual, post) ==
    /\ DOMAIN job[m].keys = plan[m].keys /\ actual = plan[m].source /\ post = plan[m].post
    /\ Expiry(post) # Expiry(actual)

\* What the operator reviewed and what the apply read, row by row
LEMMA AppliedRows ==
    ASSUME MaintInv, NEW m \in Maintainer, job[m].stage = "apply",
           NEW actual, actual = Entries(job[m].keys, now, plan[m].ttl, plan[m].expired),
           NEW post, post = PostEntries(actual, plan[m].ttl)
    PROVE  /\ DOMAIN actual = RowsOf(DOMAIN job[m].keys) /\ DOMAIN post = DOMAIN actual
           /\ \A id \in DOMAIN actual :
                 /\ EntryOf(actual[id], id, job[m].keys, now, plan[m].ttl, plan[m].expired)
                 /\ post[id].expires \in Nat
                 /\ \/ post[id].expires = refs[id].expires
                    \/ /\ post[id].expires > refs[id].expires /\ actual[id].verdict = "eligible"
                       /\ post[id].expires = refs[id].created + plan[m].ttl
<1>1. ReplayInv /\ JobOK(job[m], plan[m]) /\ PlanOK(plan[m], req)
  BY DEF MaintInv, OperatorInv
<1>2. plan[m].ttl \in Nat
  BY <1>1 DEF JobOK, PlanOK, Locking
<1>3. DOMAIN actual = RowsOf(DOMAIN job[m].keys) /\ \A id \in RowsOf(DOMAIN job[m].keys) :
         EntryOf(actual[id], id, job[m].keys, now, plan[m].ttl, plan[m].expired)
  BY <1>1, EntriesIs, ZenonT(60)
<1>4. DOMAIN post = DOMAIN actual /\ \A id \in DOMAIN actual : post[id] = PostOf(actual[id], plan[m].ttl)
  BY DEF PostEntries, PostOf
<1>5. ASSUME NEW id \in DOMAIN actual
      PROVE  /\ post[id].expires \in Nat
             /\ \/ post[id].expires = refs[id].expires
                \/ /\ post[id].expires > refs[id].expires /\ actual[id].verdict = "eligible"
                   /\ post[id].expires = refs[id].created + plan[m].ttl
  <2>1. /\ actual[id].created = refs[id].created /\ actual[id].expires = refs[id].expires
        /\ "expires" \in DOMAIN actual[id] /\ RefOK(id)
    BY <1>3, <1>5 DEF EntryOf
  <2>2. actual[id].created \in Nat /\ actual[id].expires \in Nat
    BY <2>1 DEF RefOK
  <2>3. LET x == PostOf(actual[id], plan[m].ttl).expires IN
        /\ x \in Nat
        /\ \/ x = actual[id].expires
           \/ /\ x > actual[id].expires /\ actual[id].verdict = "eligible"
              /\ x = actual[id].created + plan[m].ttl
    BY <1>2, <2>1, <2>2, PostIs
  <2> QED BY <1>4, <1>5, <2>1, <2>3
<1> QED BY <1>3, <1>4, <1>5

\* An apply that writes nothing.
LEMMA StaleApply ==
    ASSUME MaintInv, NEW m \in Maintainer, Apply(m), UNCHANGED load, UNCHANGED <<refs, audit>>
    PROVE  MaintInv'
<1>1. UNCHANGED <<runtime, keyrow, plan, audit, load>> /\ job' = [job EXCEPT ![m] = NoJob]
  BY DEF Apply, Stale, runtime
<1> QED BY <1>1, NoJobOK, QuietStep DEF MaintInv, OperatorInv

\* A plan that agrees with the locked rows was not written before.
LEMMA FirstWrite ==
    ASSUME MaintInv, NEW m \in Maintainer, job[m].stage = "apply",
           plan[m].source = Entries(job[m].keys, now, plan[m].ttl, plan[m].expired)
    PROVE  audit[m] = 0
<1>1. ReplayInv /\ Spent(plan[m], audit[m], refs)
  BY DEF MaintInv, OperatorInv
<1>2. ASSUME NEW id \in DOMAIN plan[m].source
      PROVE  /\ plan[m].source[id].request = refs[id].request
             /\ plan[m].source[id].expires = refs[id].expires /\ refs[id].expires \in Nat
  <2>1. EntryOf(plan[m].source[id], id, job[m].keys, now, plan[m].ttl, plan[m].expired)
    BY <1>1, EntriesIs
  <2> QED BY <2>1 DEF EntryOf, RefOK
<1>3. \A n \in Nat : ~(n > n)
  BY SMT
<1>4. ~(audit[m] > 0) /\ audit[m] \in Nat
  BY <1>1, <1>2, <1>3 DEF Spent
<1> QED BY <1>4, SMT

\* An apply that writes extends every row to the expiry that was reviewed.
LEMMA WrittenRows ==
    ASSUME MaintInv, NEW m \in Maintainer, job[m].stage = "apply",
           NEW actual, actual = Entries(job[m].keys, now, plan[m].ttl, plan[m].expired),
           NEW post, post = PostEntries(actual, plan[m].ttl), refs' = Extended(post)
    PROVE  /\ DOMAIN refs' = DOMAIN refs
           /\ \A id \in DOMAIN refs :
                 /\ SameBut(refs[id], refs'[id]) /\ refs'[id].expires \in Nat
                 /\ refs'[id].expires = IF id \in DOMAIN post THEN post[id].expires
                                        ELSE refs[id].expires
                 /\ \/ refs'[id] = refs[id]
                    \/ /\ id \in DOMAIN post /\ refs'[id].expires > refs[id].expires
                       /\ refs'[id].expires = refs[id].created + plan[m].ttl
                       /\ EntryOf(actual[id], id, job[m].keys, now, plan[m].ttl, plan[m].expired)
                       /\ actual[id].verdict = "eligible"
<1>1. ReplayInv
  BY DEF MaintInv
<1>2. DOMAIN refs' = DOMAIN refs
  BY DEF Extended
<1>3. ASSUME NEW id \in DOMAIN refs, id \in DOMAIN post, post[id].expires > refs[id].expires
      PROVE  /\ SameBut(refs[id], refs'[id]) /\ refs'[id].expires = post[id].expires
             /\ post[id].expires \in Nat /\ post[id].expires = refs[id].created + plan[m].ttl
             /\ EntryOf(actual[id], id, job[m].keys, now, plan[m].ttl, plan[m].expired)
             /\ actual[id].verdict = "eligible"
  <2>1. RefOK(id)
    BY <1>1 DEF ReplayInv, RefsInv
  <2>2. post[id].expires # refs[id].expires
    BY <1>3, <2>1, SMT DEF RefOK
  <2>3. SameBut(refs[id], refs'[id]) /\ refs'[id].expires = post[id].expires
    BY <1>1, <1>3, ExtendedRow
  <2>4. id \in DOMAIN actual
    BY <1>3, AppliedRows
  <2>5. /\ EntryOf(actual[id], id, job[m].keys, now, plan[m].ttl, plan[m].expired)
        /\ post[id].expires \in Nat
        /\ \/ post[id].expires = refs[id].expires
           \/ /\ post[id].expires > refs[id].expires /\ actual[id].verdict = "eligible"
              /\ post[id].expires = refs[id].created + plan[m].ttl
    BY <2>4, AppliedRows, ZenonT(60)
  <2> QED BY <2>2, <2>3, <2>5
<1>4. ASSUME NEW id \in DOMAIN refs, ~(id \in DOMAIN post /\ post[id].expires > refs[id].expires)
      PROVE  /\ SameBut(refs[id], refs'[id]) /\ refs'[id] = refs[id] /\ refs[id].expires \in Nat
             /\ id \in DOMAIN post => post[id].expires = refs[id].expires
  <2>1. SameBut(refs[id], refs'[id]) /\ refs'[id] = refs[id]
    BY <1>1, <1>4, ExtendedRow
  <2>2. refs[id].expires \in Nat
    BY <1>1 DEF ReplayInv, RefsInv, RefOK
  <2>3. id \in DOMAIN post => post[id].expires = refs[id].expires
    BY <1>4, AppliedRows
  <2> QED BY <2>1, <2>2, <2>3
<1> QED BY <1>2, <1>3, <1>4

\* An apply that writes keeps the invariant, and its plan is spent.
LEMMA WriteInv ==
    ASSUME MaintInv, NEW m \in Maintainer, job[m].stage = "apply",
           NEW actual, actual = Entries(job[m].keys, now, plan[m].ttl, plan[m].expired),
           NEW post, post = PostEntries(actual, plan[m].ttl), Agrees(m, actual, post),
           refs' = Extended(post), audit' = [audit EXCEPT ![m] = @ + 1],
           job' = [job EXCEPT ![m] = NoJob],
           UNCHANGED <<now, ledger, req, keyrow, plan, load>>
    PROVE  MaintInv'
<1>1. /\ ReplayInv /\ JobOK(job[m], plan[m]) /\ PlanOK(plan[m], req) /\ DOMAIN audit = Maintainer
      /\ Spent(plan[m], audit[m], refs)
  BY DEF MaintInv, OperatorInv
<1>2. ReplayInv' /\ Going
  BY <1>1, WrittenRows, ExtendInv
<1>3. PICK id \in DOMAIN actual : post[id].expires # actual[id].expires
  <2>1. DOMAIN post = DOMAIN actual
    BY AppliedRows
  <2> QED BY <2>1 DEF Agrees, Expiry
<1>4. /\ EntryOf(actual[id], id, job[m].keys, now, plan[m].ttl, plan[m].expired)
      /\ \/ post[id].expires = refs[id].expires \/ post[id].expires > refs[id].expires
      /\ id \in DOMAIN post
  BY AppliedRows
<1>5. id \in DOMAIN refs /\ actual[id].expires = refs[id].expires
  BY <1>4 DEF EntryOf
<1>6. refs'[id].expires = post[id].expires /\ id \in DOMAIN refs'
  <2>1. /\ DOMAIN refs' = DOMAIN refs
        /\ refs'[id].expires = IF id \in DOMAIN post THEN post[id].expires ELSE refs[id].expires
    BY <1>5, WrittenRows, ZenonT(60)
  <2> QED BY <1>4, <1>5, <2>1
<1>7. refs'[id].expires > plan[m].source[id].expires /\ id \in DOMAIN plan[m].source
  BY <1>3, <1>4, <1>5, <1>6 DEF Agrees
<1>8. plan[m].form # "none"
  BY <1>1 DEF JobOK, Locking
<1>9. audit[m] \in Nat
  BY <1>1 DEF Spent
<1>10. Spent(plan[m], audit'[m], refs')
  <2>1. audit'[m] = audit[m] + 1
    BY <1>1
  <2>2. audit'[m] \in Nat
    BY <1>9, <2>1, SMT
  <2> QED BY <1>6, <1>7, <1>8, <2>2 DEF Spent
<1>11. job'[m] = NoJob /\ DOMAIN job' = Maintainer /\ DOMAIN audit' = Maintainer /\ DOMAIN plan' = Maintainer
       /\ \A n \in Maintainer \ {m} : job'[n] = job[n] /\ plan'[n] = plan[n] /\ audit'[n] = audit[n]
  BY DEF MaintInv
<1>12. OperatorInv(m)'
  BY <1>1, <1>10, <1>11, NoJobOK DEF OperatorInv
<1> QED BY <1>2, <1>11, <1>12, OperatorStep

\* What an apply writes is what was reviewed.
LEMMA WriteReviewed ==
    ASSUME MaintInv, NEW m \in Maintainer, job[m].stage = "apply",
           NEW actual, actual = Entries(job[m].keys, now, plan[m].ttl, plan[m].expired),
           NEW post, post = PostEntries(actual, plan[m].ttl), Agrees(m, actual, post),
           refs' = Extended(post), audit' = [audit EXCEPT ![m] = @ + 1]
    PROVE  ExtensionReviewed
<1>1. /\ JobOK(job[m], plan[m]) /\ LocksOK(job[m], plan[m], keyrow) /\ now \in Nat
      /\ \A n \in Maintainer : audit[n] \in Nat
      /\ \A n \in Maintainer \ {m} : audit'[n] = audit[n]
  BY DEF MaintInv, OperatorInv, Spent, ReplayInv
<1>2. \A n \in Nat : ~(n > n)
  BY SMT
<1>3. \A n \in Maintainer \ {m} : ~Writes(n)
  BY <1>1, <1>2 DEF Writes
<1>4. audit[m] = 0
  BY FirstWrite DEF Agrees
<1>5. plan[m].keys = DOMAIN job[m].keys /\ plan[m].post = post
  BY DEF Agrees
<1>6. plan[m].keys \subseteq ScopeKeys(plan[m].scope)
  BY <1>1, <1>5 DEF JobOK, LocksOK, InScope, ScopeKeys
<1>7. RowsOf(plan[m].keys) = DOMAIN plan[m].post
  <2>1. DOMAIN actual = RowsOf(DOMAIN job[m].keys) /\ DOMAIN post = DOMAIN actual
    BY AppliedRows
  <2> QED BY <1>5, <2>1
<1>8. ASSUME NEW id \in DOMAIN refs
      PROVE  refs'[id].expires = IF id \in DOMAIN plan[m].post THEN plan[m].post[id].expires
                                 ELSE refs[id].expires
  <2>1. refs'[id].expires = IF id \in DOMAIN post THEN post[id].expires ELSE refs[id].expires
    BY <1>8, WrittenRows, ZenonT(60)
  <2> QED BY <1>5, <2>1
<1>9. ASSUME NEW id \in DOMAIN refs, refs'[id] # refs[id]
      PROVE  /\ refs'[id].created = refs[id].created
             /\ refs[id].expires < refs'[id].expires
             /\ refs'[id].expires = refs[id].created + plan[m].ttl
             /\ refs[id].expires <= now => plan[m].expired
             /\ keyrow[id.key].active /\ now < ValidUntil[id.key]
  <2>1. /\ SameBut(refs[id], refs'[id]) /\ refs'[id].expires \in Nat
        /\ refs'[id].expires > refs[id].expires
        /\ refs'[id].expires = refs[id].created + plan[m].ttl
        /\ EntryOf(actual[id], id, job[m].keys, now, plan[m].ttl, plan[m].expired)
        /\ actual[id].verdict = "eligible"
    BY <1>9, WrittenRows
  <2>2. /\ Verdict(id, job[m].keys, now, plan[m].ttl, plan[m].expired) = "eligible"
        /\ id.key \in DOMAIN job[m].keys /\ refs[id].expires \in Nat
    BY <2>1 DEF EntryOf, RefOK
  <2>3. /\ job[m].keys[id.key] /\ ~(now >= ValidUntil[id.key])
        /\ refs[id].expires <= now => plan[m].expired
    <3>1. Extensible(id, job[m].keys, now, plan[m].expired)
      BY <2>2, EligibleIs
    <3> QED BY <3>1 DEF Extensible
  <2>4. keyrow[id.key].active
    BY <1>1, <2>2, <2>3 DEF LocksOK, Locking
  <2>5. now < ValidUntil[id.key]
    <3>1. ValidUntil[id.key] \in Nat
      BY <1>1, <2>2, MaintenanceConstants DEF JobOK
    <3> QED BY <1>1, <2>3, <3>1, SMT
  <2>6. refs[id].expires < refs'[id].expires
    BY <2>1, <2>2, SMTT(30)
  <2> QED BY <2>1, <2>3, <2>4, <2>5, <2>6 DEF SameBut
<1> QED BY <1>3, <1>4, <1>5, <1>6, <1>7, <1>8, <1>9 DEF ExtensionReviewed

\* A step that writes no audit row extends nothing.
LEMMA NothingWritten ==
    ASSUME MaintInv, UNCHANGED audit
    PROVE  ExtensionReviewed
<1>1. \A n \in Maintainer : audit[n] \in Nat
  BY DEF MaintInv, OperatorInv, Spent
<1>2. \A n \in Nat : ~(n > n)
  BY SMT
<1> QED BY <1>1, <1>2 DEF ExtensionReviewed, Writes

\* apply_replay_extend
LEMMA ApplyInv ==
    ASSUME MaintInv, NEW m \in Maintainer, Apply(m), UNCHANGED load
    PROVE  MaintInv' /\ ExtensionReviewed
<1> DEFINE actual == Entries(job[m].keys, now, plan[m].ttl, plan[m].expired)
           post == PostEntries(actual, plan[m].ttl)
<1>1. /\ job[m].stage = "apply" /\ job' = [job EXCEPT ![m] = NoJob]
      /\ UNCHANGED <<now, ledger, req, keyrow, plan>>
      /\ \/ /\ Agrees(m, actual, post)
            /\ refs' = Extended(post) /\ audit' = [audit EXCEPT ![m] = @ + 1]
         \/ UNCHANGED <<refs, audit>>
  BY DEF Apply, Agrees, Stale
<1>2. CASE UNCHANGED <<refs, audit>>
  BY <1>2, StaleApply, NothingWritten
<1>3. CASE /\ Agrees(m, actual, post)
           /\ refs' = Extended(post) /\ audit' = [audit EXCEPT ![m] = @ + 1]
  BY <1>1, <1>3, WriteInv, WriteReviewed
<1> QED BY <1>1, <1>2, <1>3

-----------------------------------------------------------------------------
(* The whole *)

\* Produce
LEMMA ProduceInv ==
    ASSUME ReplayInv, NEW r \in Request, NEW t, NEW c \in Output, Produce(r, t, c), UNCHANGED load
    PROVE  ReplayInv' /\ Going
<1> DEFINE q == [Idle EXCEPT !.stage = "answered", !.auth = {},
                             !.route = [id |-> t, model |-> upstream[t]], !.out = {c}]
<1>1. /\ req[r].stage = "idle" /\ req' = [req EXCEPT ![r] = q] /\ ledger' = ledger \cup {r}
      /\ UNCHANGED <<now, refs>>
  BY DEF Produce
<1>2. req[r].stage # "ended" /\ ledger \subseteq ledger'
  BY <1>1, SMT
<1>3. /\ DOMAIN q = Fields /\ q.out = {c} /\ q.body = {} /\ q.auth = {}
      /\ q.stage \notin {"admission", "sent"}
  BY SMT DEF Idle, Fields
<1> HIDE DEF q
<1>4. Backed({}, {}, KeyOf[r], refs)
  BY DEF Backed
<1>5. IsFiniteSet({}) /\ IsFiniteSet({c})
  BY FS_EmptySet, FS_Singleton
<1>6. QueryOK(q, KeyOf[r], refs, Output)
  BY <1>3, <1>4, <1>5 DEF QueryOK
<1> QED BY <1>1, <1>2, <1>6, LocalStep

\* A step of the requests, seen by the operators.
LEMMA RuntimeKeeps ==
    ASSUME MaintInv, ReplayInv', Going, UNCHANGED <<keyrow, plan, job, audit>>
    PROVE  MaintInv'
<1>1. ASSUME NEW n \in Maintainer PROVE OperatorInv(n)'
  BY OthersKept
<1> QED BY <1>1 DEF MaintInv

\* A key changes that no operator has locked.
LEMMA KeyChanges ==
    ASSUME MaintInv, NEW k \in Key, Suspend(k) \/ MoveCohort(k), UNCHANGED load
    PROVE  MaintInv' /\ UNCHANGED audit
<1>1. /\ k \notin KeyLocks /\ UNCHANGED <<refs, ledger, req, now, plan, job, audit>>
  BY DEF Suspend, MoveCohort, runtime
<1>2. /\ DOMAIN keyrow' = Key /\ \A l \in Key \ {k} : keyrow'[l] = keyrow[l]
  BY DEF MaintInv, Suspend, MoveCohort
<1>3. DOMAIN keyrow'[k] = {"active", "cohort"}
  BY DEF MaintInv, Suspend, MoveCohort
<1>4. KeyLocks \subseteq Key
  BY DEF MaintInv, OperatorInv, JobOK, KeyLocks
<1>5. ReplayInv' /\ Going
  BY <1>1, AroundInv DEF MaintInv, ReplayInv
<1>6. ASSUME NEW n \in Maintainer PROVE OperatorInv(n)'
  BY <1>1, <1>2, <1>4, <1>5, OthersKept
<1> QED BY <1>1, <1>2, <1>3, <1>5, <1>6 DEF MaintInv, Key

\* A step of an operator.
LEMMA OperatorKeeps ==
    ASSUME MaintInv, NEW m \in Maintainer, MaintenanceStep(m), UNCHANGED load, Lifetimes \subseteq Nat
    PROVE  MaintInv' /\ ExtensionReviewed
<1>1. CASE Apply(m)
  BY <1>1, ApplyInv
<1>2. ASSUME NEW s, PreviewKeys(m, s) PROVE MaintInv' /\ ExtensionReviewed
  BY <1>2, PreviewKeysInv, NothingWritten
<1>3. ASSUME NEW l \in Nat, NEW e, NEW form \in {"token", "file"}, PreviewRows(m, l, e, form)
      PROVE  MaintInv' /\ ExtensionReviewed
  BY <1>3, PreviewRowsInv, NothingWritten
<1>4. ASSUME NEW l \in Nat, NEW e, EditPlan(m, l, e) PROVE MaintInv' /\ ExtensionReviewed
  BY <1>4, EditPlanInv, NothingWritten
<1>5. CASE ApplyToken(m) \/ ExecuteFile(m)
  BY <1>5, ResolvedInv, NothingWritten
<1>6. CASE LockKeys(m)
  BY <1>6, LockKeysInv, NothingWritten
<1>7. CASE Recheck(m) \/ LockRows(m) \/ FinalRecheck(m)
  BY <1>7, RecheckInv, NothingWritten
<1>8. CASE Abandon(m)
  BY <1>8, AbandonInv, NothingWritten
<1> QED BY <1>1, <1>2, <1>3, <1>4, <1>5, <1>6, <1>7, <1>8 DEF MaintenanceStep

\* Every step keeps the invariant and writes only what was reviewed.
LEMMA MaintStep ==
    ASSUME MaintInv, [MaintNext]_mvars
    PROVE  MaintInv' /\ ExtensionReviewed
<1>1. /\ ReplayInv /\ load \in DOMAIN Load /\ now \in Nat
  BY DEF MaintInv, ReplayInv
<1>2. /\ Running \subseteq Request /\ Lifetimes \subseteq Nat
      /\ Load[load].maintainers \subseteq Maintainer
  BY <1>1, ReplayConstants, MaintenanceConstants DEF Running, Lifetimes
<1>3. ASSUME ReplayInv', Going, UNCHANGED <<keyrow, plan, job, audit>>
      PROVE  MaintInv' /\ ExtensionReviewed
  BY <1>3, RuntimeKeeps, NothingWritten
<1>4. CASE UNCHANGED mvars
  <2>1. ReplayInv' /\ Going
    BY <1>1, <1>4, AroundInv DEF mvars, vars
  <2> QED BY <1>3, <1>4, <2>1 DEF mvars
<1>5. ASSUME UNCHANGED <<load, keyrow, plan, job, audit>>,
             \/ \E r \in Running : RequestStep(r)
             \/ \E r \in Running, t \in InUse, c \in Output : Produce(r, t, c)
             \/ \E r \in Running : PersistUnlocked(r)
             \/ AroundStep
      PROVE  MaintInv' /\ ExtensionReviewed
  <2>1. ASSUME NEW r \in Request, RequestStep(r) PROVE ReplayInv' /\ Going
    BY <1>1, <1>5, <2>1, RequestInv
  <2>2. ASSUME NEW r \in Request, NEW t, NEW c \in Output, Produce(r, t, c) PROVE ReplayInv' /\ Going
    BY <1>1, <1>5, <2>2, ProduceInv
  <2>3. ASSUME NEW r \in Request, PersistUnlocked(r) PROVE ReplayInv' /\ Going
    BY <1>1, <1>5, <2>3, PersistInv DEF PersistUnlocked
  <2>4. ASSUME AroundStep PROVE ReplayInv' /\ Going
    BY <1>1, <1>5, <2>4, SecretsAndRoutes
  <2>5. ReplayInv' /\ Going
    BY <1>2, <1>5, <2>1, <2>2, <2>3, <2>4
  <2> QED BY <1>3, <1>5, <2>5
<1>6. MaintNext => UNCHANGED load
  BY DEF MaintNext
<1>7. ASSUME NEW m \in Load[load].maintainers, MaintenanceStep(m), UNCHANGED load
      PROVE  MaintInv' /\ ExtensionReviewed
  BY <1>2, <1>7, OperatorKeeps
<1>8. ASSUME NEW r \in Running, Suspend(KeyOf[r]) \/ MoveCohort(KeyOf[r]), UNCHANGED load
      PROVE  MaintInv' /\ ExtensionReviewed
  <2>1. KeyOf[r] \in Key
    BY <1>2, <1>8 DEF Key
  <2> QED BY <1>8, <2>1, KeyChanges, NothingWritten
<1> QED BY <1>4, <1>5, <1>6, <1>7, <1>8 DEF MaintNext

\* The inductive invariant of the requests and the operators holds.
THEOREM MaintenanceInvariant == MaintSpec => []MaintInv
<1>1. MaintInit => MaintInv
  BY MaintInitInv
<1>2. MaintInv /\ [MaintNext]_mvars => MaintInv'
  BY MaintStep
<1> QED BY <1>1, <1>2, PTL DEF MaintSpec

\* Every item goes upstream only to the model and on a route it fits, whatever
\* happened to the routes while its request waited (verify_route_compatibility).
THEOREM ItemsSentWhereProduced == MaintSpec => []SentWhereProduced
<1>1. MaintInv => SentWhereProduced
  BY ReplayPromise DEF MaintInv
<1> QED BY <1>1, MaintenanceInvariant, PTL

\* Every replayed item is backed, one by one, by a reference of the same key
\* that a charged request stored, also when the reference is stored again or its
\* lifetime is extended while the request waits (verify_owned_replay).
THEOREM ItemsAreBacked == MaintSpec => []EveryItemBacked
<1>1. MaintInv => EveryItemBacked
  BY ReplayPromise DEF MaintInv
<1> QED BY <1>1, MaintenanceInvariant, PTL

\* An apply writes exactly what its plan showed, to the reviewed keys, and a
\* plan is written once (apply_replay_extend).
THEOREM ReferencesExtendedAsReviewed == MaintSpec => ExtendedAsReviewed
<1>1. MaintInv /\ [MaintNext]_mvars => [ExtensionReviewed]_mvars
  BY MaintStep
<1> QED BY <1>1, MaintenanceInvariant, PTL DEF MaintSpec, ExtendedAsReviewed
=============================================================================
