------------------------ MODULE StoredObjectsProofs ------------------------
(***************************************************************************)
(* Proofs about StoredObjects, for any keys, requests, providers, routes   *)
(* and ids.                                                                *)
(*                                                                         *)
(* The world only grows: an object that was created stays known, with its  *)
(* creator, one that is gone stays gone, a reference is never taken back   *)
(* and a deleted one stays deleted.  What a request knows of its objects   *)
(* therefore survives the steps of all others, and each handler need only  *)
(* establish it for itself.                                                *)
(***************************************************************************)
EXTENDS StoredObjects, TLAPS

\* Few steps need arithmetic or the values of strings; those name SMT.
USE Zenon

Stages == {"idle", "looking", "routing", "calling", "marking", "selecting",
           "verifying", "creating", "persisting"} \cup Over

References == [status : {None, "active", "deleted"}, key : Key \cup {None},
               route : Route \cup {None}]

Places == [provider : Provider, route : Route \cup {None}]

\* Every row, call and object stays in its domain.
StoredTypeOK ==
    /\ kinds \in DOMAIN Offered
    /\ upstream \in [Object -> {None, "exists", "gone"}]
    /\ creator \in [Object -> Key \cup {None}]
    /\ ref \in [Object -> References]
    /\ pc \in [Request -> Stages]
    /\ target \in [Request -> Id \cup {None}]
    /\ found \in [Request -> Object \cup {None}]
    /\ made \in [Request -> Object \cup {None}]
    /\ at \in [Request -> Places \cup {None}]
    /\ late \in [Request -> SUBSET Object]

\* A reference stands for an object that its key created, and a deleted one
\* for an object that is gone.
RowInOrder(o) ==
    /\ upstream[o] = None => ref[o].status = None
    /\ ref[o].status # None => ref[o].key = creator[o]
    /\ ref[o].status = "deleted" => upstream[o] = "gone"

\* The object a request found is one its key created, under the id it named,
\* and its reference was there, not deleted, since the request began.
FoundInOrder(r) ==
    /\ pc[r] \in {"idle", "looking", "selecting", "verifying"} => found[r] = None
    /\ pc[r] \in {"routing", "calling", "marking"} => found[r] # None
    /\ found[r] # None => /\ ref[found[r]].status # None
                          /\ creator[found[r]] = KeyOf[r]
                          /\ found[r].id = target[r]
                          /\ found[r] \notin late[r]
    /\ pc[r] = "creating" /\ found[r] # None => found[r].provider = at[r].provider
    /\ pc[r] = "marking" => upstream[found[r]] = "gone"

\* What a request made is its key's, and has its reference once it is done.
MadeInOrder(r) ==
    /\ pc[r] \in Stages \ (Over \cup {"persisting"}) => made[r] = None
    /\ pc[r] = "persisting" => made[r] # None
    /\ pc[r] \in {"verifying", "creating", "persisting"} => at[r] \in Places
    /\ made[r] # None => upstream[made[r]] # None /\ creator[made[r]] = KeyOf[r]
    /\ pc[r] = "done" /\ made[r] # None => ref[made[r]].status # None

\* What was deleted when a request began is deleted still.
LateInOrder(r) == \A o \in late[r] : ref[o].status = "deleted"

RequestInOrder(r) == FoundInOrder(r) /\ MadeInOrder(r) /\ LateInOrder(r)

\* The inductive invariant.
StoredInv ==
    /\ StoredTypeOK
    /\ \A o \in Object : RowInOrder(o)
    /\ \A r \in Request : RequestInOrder(r)

\* The world only grows.
Grows ==
    \A o \in Object :
        /\ upstream[o] # None => upstream'[o] # None /\ creator'[o] = creator[o]
        /\ upstream[o] = "gone" => upstream'[o] = "gone"
        /\ ref[o].status # None => ref'[o].status # None
        /\ ref[o].status = "deleted" => ref'[o].status = "deleted"

\* A step leaves the calls of r alone.
Untouched(r) ==
    /\ pc'[r] = pc[r] /\ target'[r] = target[r] /\ found'[r] = found[r]
    /\ at'[r] = at[r] /\ made'[r] = made[r] /\ late'[r] = late[r]

-----------------------------------------------------------------------------

\* Every request is sent by a key.
LEMMA KeyOfRequest ==
    ASSUME StoredTypeOK, NEW r \in Request
    PROVE  KeyOf[r] \in Key
<1>1. kinds \in DOMAIN Sender
  BY StoredConstants DEF StoredTypeOK
<1>2. Sender[kinds][r] \in {Sender[kinds][q] : q \in Request}
  OBVIOUS
<1> QED
  BY <1>1, <1>2 DEF Key, KeyOf

\* What a request knows survives the steps of the others.
LEMMA RequestKept ==
    ASSUME StoredInv, StoredTypeOK', Grows, kinds' = kinds,
           NEW r \in Request, Untouched(r)
    PROVE  RequestInOrder(r)'
<1>0. KeyOf' = KeyOf
  BY DEF KeyOf
<1>1. RequestInOrder(r) /\ (\A o \in Object : RowInOrder(o))
  BY DEF StoredInv
<1>2. /\ found[r] # None => found[r] \in Object
      /\ made[r] # None => made[r] \in Object
      /\ late[r] \subseteq Object
  BY DEF StoredInv, StoredTypeOK
<1>3. found[r] # None => upstream[found[r]] # None
  BY <1>1, <1>2 DEF RequestInOrder, FoundInOrder, RowInOrder
<1>4. FoundInOrder(r)'
  BY <1>0, <1>1, <1>2, <1>3 DEF RequestInOrder, FoundInOrder, Untouched, Grows
<1>5. MadeInOrder(r)'
  BY <1>0, <1>1, <1>2 DEF RequestInOrder, MadeInOrder, Untouched, Grows
<1>6. LateInOrder(r)'
  BY <1>1, <1>2 DEF RequestInOrder, LateInOrder, Untouched, Grows
<1> QED
  BY <1>4, <1>5, <1>6 DEF RequestInOrder

\* A step of one request, which keeps the rows in order and its own knowledge.
LEMMA OwnStep ==
    ASSUME StoredInv, StoredTypeOK', Grows, kinds' = kinds,
           \A o \in Object : RowInOrder(o)', NEW r \in Request,
           \A q \in Request \ {r} : Untouched(q), RequestInOrder(r)'
    PROVE  StoredInv'
<1>1. ASSUME NEW q \in Request PROVE RequestInOrder(q)'
  BY RequestKept
<1> QED
  BY <1>1 DEF StoredInv

\* A step of one request that writes neither objects nor references.
LEMMA QuietStep ==
    ASSUME StoredInv, StoredTypeOK', UNCHANGED <<upstream, creator, ref, kinds>>,
           NEW r \in Request, \A q \in Request \ {r} : Untouched(q),
           RequestInOrder(r)'
    PROVE  StoredInv'
<1>1. Grows
  BY DEF Grows
<1>2. \A o \in Object : RowInOrder(o)'
  BY DEF StoredInv, RowInOrder
<1> QED
  BY <1>1, <1>2, OwnStep

\* A request that ends keeps what it knows, if it made nothing it cannot find.
LEMMA EndInOrder ==
    ASSUME StoredInv, UNCHANGED <<upstream, creator, ref, kinds>>, NEW r \in Request,
           pc'[r] \in Over, found'[r] = found[r], target'[r] = target[r],
           made'[r] = made[r], late'[r] = late[r], pc'[r] = "done" => made[r] = None
    PROVE  RequestInOrder(r)'
<1>0. KeyOf' = KeyOf
  BY DEF KeyOf
<1>1. RequestInOrder(r)
  BY DEF StoredInv
<1> QED
  BY <1>0, <1>1 DEF RequestInOrder, FoundInOrder, MadeInOrder, LateInOrder, Over, Stages

-----------------------------------------------------------------------------
(* The handlers *)

\* A request arrives.
LEMMA BeginInv ==
    ASSUME StoredInv, kinds' = kinds, NEW r \in Request,
           NEW h \in Handlers, NEW i \in Id \cup {None}, Begin(r, h, i)
    PROVE  StoredInv'
<1>1. StoredTypeOK'
  BY DEF StoredInv, StoredTypeOK, Begin, MoveTo, Stages
<1>2. /\ pc[r] = "idle" /\ pc'[r] \in {"selecting", "looking"}
      /\ late'[r] = {o \in Object : ref[o].status = "deleted"}
      /\ UNCHANGED <<upstream, creator, ref, found, made>>
      /\ \A q \in Request \ {r} : Untouched(q)
  BY DEF StoredInv, StoredTypeOK, Begin, MoveTo, Untouched
<1>3. found[r] = None /\ made[r] = None
  BY <1>2 DEF StoredInv, RequestInOrder, FoundInOrder, MadeInOrder, Stages, Over
<1>4. RequestInOrder(r)'
  BY <1>2, <1>3 DEF RequestInOrder, FoundInOrder, MadeInOrder, LateInOrder, Over
<1> QED
  BY <1>1, <1>2, <1>4, QuietStep

\* The rows of the query are live references to objects of the key.
LEMMA ActiveInOrder ==
    ASSUME StoredInv, NEW r \in Request, NEW kind,
           NEW o \in ActiveReferences(kind, target[r], KeyOf[r])
    PROVE  /\ o \in Object /\ o # None
           /\ ref[o].status = "active" /\ ref[o].status # None
           /\ creator[o] = KeyOf[r] /\ o.id = target[r] /\ o \notin late[r]
<1>1. o \in Object /\ ref[o].status = "active" /\ ref[o].key = KeyOf[r] /\ o.id = target[r]
  BY DEF ActiveReferences
<1>2. o # None /\ "active" # None
  BY <1>1, StoredConstants
<1>3. creator[o] = KeyOf[r]
  BY <1>1, <1>2 DEF StoredInv, RowInOrder
<1>4. o \notin late[r]
  BY <1>1 DEF StoredInv, RequestInOrder, LateInOrder
<1> QED
  BY <1>1, <1>2, <1>3, <1>4

\* A request that has just found o, and goes on to the stage it then enters.
LEMMA FoundNow ==
    ASSUME StoredInv, UNCHANGED <<upstream, creator, ref, kinds>>, NEW r \in Request,
           pc[r] \in {"looking", "verifying"},
           NEW kind, NEW o \in ActiveReferences(kind, target[r], KeyOf[r]),
           found'[r] = o, target'[r] = target[r], at'[r] = at[r],
           made'[r] = made[r], late'[r] = late[r],
           \/ pc'[r] = "routing"
           \/ /\ pc[r] = "verifying" /\ pc'[r] = "creating"
              /\ o.provider = at[r].provider
    PROVE  RequestInOrder(r)'
<1>0. KeyOf' = KeyOf
  BY DEF KeyOf
<1>1. RequestInOrder(r)
  BY DEF StoredInv
<1>2. made[r] = None
  BY <1>1 DEF RequestInOrder, MadeInOrder, Stages, Over
<1>3. FoundInOrder(r)'
  BY <1>0, ActiveInOrder DEF FoundInOrder
<1> QED
  BY <1>1, <1>2, <1>3 DEF RequestInOrder, MadeInOrder, LateInOrder, Over

\* The reference of an object that exists is looked up.
LEMMA LookupInv ==
    ASSUME StoredInv, kinds' = kinds, NEW r \in Request, Lookup(r)
    PROVE  StoredInv'
<1> DEFINE rows == ActiveReferences(op[r].kind, target[r], KeyOf[r])
<1>0. rows \subseteq Object /\ StoredTypeOK
  BY DEF ActiveReferences, StoredInv
<1>1. /\ pc[r] = "looking"
      /\ UNCHANGED <<upstream, creator, ref, target, at, made, late>>
      /\ \/ /\ \E o \in rows : found' = [found EXCEPT ![r] = o]
            /\ pc' = [pc EXCEPT ![r] = "routing"]
         \/ pc' = [pc EXCEPT ![r] = "refused"] /\ found' = found
  BY DEF Lookup, MoveTo
<1> HIDE DEF rows
<1>2. StoredTypeOK' /\ \A q \in Request \ {r} : Untouched(q)
  BY <1>0, <1>1, ZenonT(60) DEF StoredTypeOK, Untouched, Stages, Over
<1>3. CASE \E o \in rows : /\ found' = [found EXCEPT ![r] = o]
                           /\ pc' = [pc EXCEPT ![r] = "routing"]
  <2> PICK o \in rows : /\ found' = [found EXCEPT ![r] = o]
                        /\ pc' = [pc EXCEPT ![r] = "routing"]
    BY <1>3
  <2>1. found'[r] = o /\ pc'[r] = "routing"
    BY <1>0 DEF StoredTypeOK
  <2>2. RequestInOrder(r)'
    BY <1>1, <2>1, FoundNow DEF rows
  <2> QED BY <1>1, <1>2, <2>2, QuietStep
<1>4. CASE pc' = [pc EXCEPT ![r] = "refused"] /\ found' = found
  <2>1. pc'[r] = "refused"
    BY <1>0, <1>4 DEF StoredTypeOK
  <2>2. RequestInOrder(r)'
    BY <1>1, <1>4, <2>1, EndInOrder DEF Over
  <2> QED BY <1>1, <1>2, <2>2, QuietStep
<1> QED
  BY <1>1, <1>3, <1>4

\* A prior object is verified for the route of the request.
LEMMA VerifyPriorInv ==
    ASSUME StoredInv, kinds' = kinds, NEW r \in Request, NEW kind,
           VerifyPrior(r, kind)
    PROVE  StoredInv'
<1> DEFINE rows == ActiveReferences(kind, target[r], KeyOf[r])
<1>0. rows \subseteq Object /\ StoredTypeOK
  BY DEF ActiveReferences, StoredInv
<1>1. /\ pc[r] = "verifying"
      /\ UNCHANGED <<upstream, creator, ref, target, at, made, late>>
      /\ \/ /\ \E o \in rows : /\ found' = [found EXCEPT ![r] = o]
                               /\ o.provider = at[r].provider
            /\ pc' = [pc EXCEPT ![r] = "creating"]
         \/ pc' = [pc EXCEPT ![r] = "refused"] /\ found' = found
  BY DEF VerifyPrior, MoveTo, MatchesRoute
<1> HIDE DEF rows
<1>2. StoredTypeOK' /\ \A q \in Request \ {r} : Untouched(q)
  BY <1>0, <1>1, ZenonT(60) DEF StoredTypeOK, Untouched, Stages, Over
<1>3. CASE \E o \in rows : /\ found' = [found EXCEPT ![r] = o]
                           /\ o.provider = at[r].provider
                           /\ pc' = [pc EXCEPT ![r] = "creating"]
  <2> PICK o \in rows : /\ found' = [found EXCEPT ![r] = o]
                        /\ o.provider = at[r].provider
                        /\ pc' = [pc EXCEPT ![r] = "creating"]
    BY <1>3
  <2>1. found'[r] = o /\ pc'[r] = "creating"
    BY <1>0 DEF StoredTypeOK
  <2>2. RequestInOrder(r)'
    BY <1>1, <2>1, FoundNow DEF rows
  <2> QED BY <1>1, <1>2, <2>2, QuietStep
<1>4. CASE pc' = [pc EXCEPT ![r] = "refused"] /\ found' = found
  <2>1. pc'[r] = "refused"
    BY <1>0, <1>4 DEF StoredTypeOK
  <2>2. RequestInOrder(r)'
    BY <1>1, <1>4, <2>1, EndInOrder DEF Over
  <2> QED BY <1>1, <1>2, <2>2, QuietStep
<1> QED
  BY <1>1, <1>3, <1>4

\* Steps that only move a request on, or end it.
LEMMA MoveInv ==
    ASSUME StoredInv, kinds' = kinds, NEW r \in Request,
           \/ RouteOfReference(r)
           \/ CallObject(r)
           \/ CallCreateNothing(r)
           \/ CutOff(r)
    PROVE  StoredInv'
<1>0. StoredTypeOK /\ RequestInOrder(r)
  BY DEF StoredInv
<1>1. /\ UNCHANGED <<upstream, creator, ref, target, found, at, made, late>>
      /\ \E place \in Stages : pc' = [pc EXCEPT ![r] = place]
      /\ \/ pc[r] = "routing" /\ pc'[r] = "calling"
         \/ pc'[r] \in Over \ {"done"}
         \/ pc[r] \in {"calling", "creating"} /\ pc'[r] = "done"
  BY <1>0 DEF StoredTypeOK, RouteOfReference, CallObject, CallCreateNothing, CutOff,
     MoveTo, Stages, Over
<1>2. StoredTypeOK' /\ \A q \in Request \ {r} : Untouched(q)
  BY <1>0, <1>1 DEF StoredTypeOK, Untouched
<1>3. CASE pc[r] = "routing" /\ pc'[r] = "calling"
  <2>0. KeyOf' = KeyOf
    BY DEF KeyOf
  <2>1. RequestInOrder(r)'
    BY <1>0, <1>1, <1>3, <2>0
       DEF RequestInOrder, FoundInOrder, MadeInOrder, LateInOrder, Stages, Over
  <2> QED BY <1>1, <1>2, <2>1, QuietStep
<1>4. CASE pc'[r] \in Over
  <2>1. pc'[r] = "done" => made[r] = None
    BY <1>0, <1>1 DEF RequestInOrder, MadeInOrder, Stages, Over
  <2>2. RequestInOrder(r)'
    BY <1>1, <1>4, <2>1, EndInOrder
  <2> QED BY <1>1, <1>2, <2>2, QuietStep
<1> QED
  BY <1>1, <1>3, <1>4 DEF Over

\* A request that creates is given its provider.
LEMMA SelectInv ==
    ASSUME StoredInv, kinds' = kinds, NEW r \in Request,
           SelectForConversation(r) \/ \E x \in Route : SelectForResponse(r, x)
    PROVE  StoredInv'
<1>0. StoredTypeOK /\ RequestInOrder(r) /\ KeyOf[r] \in Key
  BY KeyOfRequest DEF StoredInv
<1>1. /\ UNCHANGED <<upstream, creator, ref, target, found, made, late>>
      /\ pc[r] = "selecting"
      /\ \/ pc' = [pc EXCEPT ![r] = "refused"] /\ at' = at
         \/ \E place \in {"creating", "verifying"}, a \in Places :
               /\ pc' = [pc EXCEPT ![r] = place]
               /\ at' = [at EXCEPT ![r] = a]
  <2>1. CASE SelectForConversation(r)
    <3>1. ConversationProvider(KeyOf[r]) \subseteq Provider
      BY <1>0, StoredConstants DEF ConversationProvider
    <3> QED BY <2>1, <3>1 DEF SelectForConversation, MoveTo, Places
  <2>2. ASSUME NEW x \in Route, SelectForResponse(r, x)
        PROVE  /\ UNCHANGED <<upstream, creator, ref, target, found, made, late>>
               /\ pc[r] = "selecting"
               /\ \E place \in {"creating", "verifying"}, a \in Places :
                     /\ pc' = [pc EXCEPT ![r] = place]
                     /\ at' = [at EXCEPT ![r] = a]
    <3>1. [provider |-> ProviderOf[x], route |-> x] \in Places
      BY StoredConstants DEF Places
    <3> QED BY <2>2, <3>1 DEF SelectForResponse, MoveTo
  <2> QED BY <2>1, <2>2
<1>2. StoredTypeOK' /\ \A q \in Request \ {r} : Untouched(q)
  BY <1>0, <1>1, SMT DEF StoredTypeOK, Untouched, Stages, Over
<1>3. \/ pc'[r] = "refused"
      \/ pc'[r] \in {"creating", "verifying"} /\ at'[r] \in Places
  BY <1>0, <1>1 DEF StoredTypeOK
<1>4. found[r] = None /\ made[r] = None
  BY <1>0, <1>1 DEF RequestInOrder, FoundInOrder, MadeInOrder, Stages, Over
<1>5. RequestInOrder(r)'
  BY <1>0, <1>1, <1>3, <1>4
     DEF RequestInOrder, FoundInOrder, MadeInOrder, LateInOrder, Over
<1> QED
  BY <1>1, <1>2, <1>5, QuietStep

\* The provider deletes the object a request found, or fails to.
LEMMA CallDeleteInv ==
    ASSUME StoredInv, kinds' = kinds, NEW r \in Request, CallDelete(r)
    PROVE  StoredInv'
<1> DEFINE f == found[r]
<1>0. StoredTypeOK /\ RequestInOrder(r) /\ KeyOf' = KeyOf /\ "gone" # None
  BY StoredConstants DEF StoredInv, KeyOf
<1>1. /\ UNCHANGED <<creator, ref, target, found, at, made, late>>
      /\ pc[r] = "calling"
      /\ \/ /\ upstream' = [upstream EXCEPT ![f] = "gone"]
            /\ pc' = [pc EXCEPT ![r] = "marking"]
         \/ /\ upstream' \in {upstream, [upstream EXCEPT ![f] = "gone"]}
            /\ pc' = [pc EXCEPT ![r] = "failed"]
  BY DEF CallDelete, MoveTo
<1>2. f \in Object /\ f # None /\ ref[f].status # None /\ upstream[f] # None
  BY <1>0, <1>1 DEF StoredInv, StoredTypeOK, RequestInOrder, FoundInOrder, RowInOrder
<1> HIDE DEF f
<1>3. StoredTypeOK' /\ \A q \in Request \ {r} : Untouched(q)
  BY <1>0, <1>1 DEF StoredTypeOK, Untouched, Stages, Over
<1>4. \A o \in Object : upstream'[o] = upstream[o] \/ (o = f /\ upstream'[o] = "gone")
  BY <1>0, <1>1 DEF StoredTypeOK
<1>5. Grows
  BY <1>0, <1>1, <1>2, <1>4 DEF Grows
<1>6. \A o \in Object : RowInOrder(o)'
  BY <1>0, <1>1, <1>2, <1>4 DEF StoredInv, RowInOrder
<1>7. pc'[r] \in {"marking", "failed"} /\ (pc'[r] = "marking" => upstream'[f] = "gone")
  BY <1>0, <1>1, <1>2 DEF StoredTypeOK
<1>8. RequestInOrder(r)'
  <2>1. made[r] = None
    BY <1>0, <1>1 DEF RequestInOrder, MadeInOrder, Stages, Over
  <2>2. FoundInOrder(r)'
    BY <1>0, <1>1, <1>2, <1>7 DEF RequestInOrder, FoundInOrder, f
  <2> QED BY <1>0, <1>1, <1>7, <2>1, <2>2 DEF RequestInOrder, MadeInOrder, LateInOrder
<1> QED
  BY <1>3, <1>5, <1>6, <1>8, OwnStep

\* The reference of an object that is gone is marked deleted, or stays.
LEMMA MarkDeletedInv ==
    ASSUME StoredInv, kinds' = kinds, NEW r \in Request, MarkDeleted(r)
    PROVE  StoredInv'
<1> DEFINE f == found[r]
<1>0. /\ StoredTypeOK /\ RequestInOrder(r) /\ KeyOf' = KeyOf
      /\ "active" # None /\ "deleted" # None
  BY StoredConstants DEF StoredInv, KeyOf
<1>1. /\ UNCHANGED <<upstream, creator, target, found, at, made, late>>
      /\ pc[r] = "marking"
      /\ \/ /\ ref' = [ref EXCEPT ![f].status = "deleted"]
            /\ pc' = [pc EXCEPT ![r] = "done"]
         \/ ref' = ref /\ pc' = [pc EXCEPT ![r] = "failed"]
  BY DEF MarkDeleted, MoveTo
<1>2. f \in Object /\ f # None /\ ref[f].status # None /\ upstream[f] = "gone"
  BY <1>0, <1>1 DEF StoredTypeOK, RequestInOrder, FoundInOrder
<1> HIDE DEF f
<1>3. StoredTypeOK' /\ \A q \in Request \ {r} : Untouched(q)
  <2>1. [ref[f] EXCEPT !.status = "deleted"] \in References
    BY <1>0, <1>2, SMTT(30) DEF StoredTypeOK, References
  <2>2. ref' \in [Object -> References]
    BY <1>0, <1>1, <1>2, <2>1 DEF StoredTypeOK
  <2> QED BY <1>0, <1>1, <2>2 DEF StoredTypeOK, Untouched, Stages, Over
<1>4. \A o \in Object : \/ ref'[o] = ref[o]
                        \/ o = f /\ ref'[o].status = "deleted" /\ ref'[o].key = ref[o].key
  BY <1>0, <1>1, <1>2, SMT DEF StoredTypeOK, References
<1>5. Grows
  BY <1>0, <1>1, <1>4 DEF Grows
<1>6. \A o \in Object : RowInOrder(o)'
  BY <1>0, <1>1, <1>2, <1>4, StoredConstants, ZenonT(60) DEF StoredInv, RowInOrder
<1>7. pc'[r] \in {"done", "failed"}
  BY <1>0, <1>1 DEF StoredTypeOK
<1>8. RequestInOrder(r)'
  <2>1. made[r] = None
    BY <1>0, <1>1 DEF RequestInOrder, MadeInOrder, Stages, Over
  <2>2. FoundInOrder(r)'
    BY <1>0, <1>1, <1>2, <1>5, <1>7 DEF RequestInOrder, FoundInOrder, Grows, f
  <2>3. LateInOrder(r)'
    BY <1>0, <1>1, <1>5 DEF RequestInOrder, LateInOrder, Grows, StoredTypeOK
  <2> QED BY <1>0, <1>1, <1>7, <2>1, <2>2, <2>3 DEF RequestInOrder, MadeInOrder, Over
<1> QED
  BY <1>3, <1>5, <1>6, <1>8, OwnStep

\* The provider creates an object for the key of the request.
LEMMA CallCreateInv ==
    ASSUME StoredInv, kinds' = kinds, NEW r \in Request, NEW o \in Object,
           CallCreate(r, o)
    PROVE  StoredInv'
<1>0. /\ StoredTypeOK /\ RequestInOrder(r) /\ KeyOf' = KeyOf /\ KeyOf[r] \in Key
      /\ o # None /\ "exists" # None /\ "gone" # None
  BY StoredConstants, KeyOfRequest DEF StoredInv, KeyOf
<1>1. /\ UNCHANGED <<ref, target, found, at, late>>
      /\ pc[r] = "creating" /\ upstream[o] = None
      /\ upstream' = [upstream EXCEPT ![o] = "exists"]
      /\ creator' = [creator EXCEPT ![o] = KeyOf[r]]
      /\ made' = [made EXCEPT ![r] = o]
      /\ \E place \in {"persisting", "failed"} : pc' = [pc EXCEPT ![r] = place]
  BY DEF CallCreate, MoveTo
<1>2. StoredTypeOK' /\ \A q \in Request \ {r} : Untouched(q)
  BY <1>0, <1>1, ZenonT(60) DEF StoredTypeOK, Untouched, Stages, Over
<1>3. /\ pc'[r] \in {"persisting", "failed"} /\ made'[r] = o
      /\ upstream'[o] = "exists" /\ creator'[o] = KeyOf[r]
      /\ \A p \in Object \ {o} : upstream'[p] = upstream[p] /\ creator'[p] = creator[p]
  BY <1>0, <1>1 DEF StoredTypeOK
<1>4. Grows
  BY <1>0, <1>1, <1>3 DEF Grows
<1>5. ref[o].status = None
  BY <1>1 DEF StoredInv, RowInOrder
<1>6. \A p \in Object : RowInOrder(p)'
  BY <1>0, <1>1, <1>3, <1>5, StoredConstants, ZenonT(60) DEF StoredInv, RowInOrder
<1>7. FoundInOrder(r)'
  <2>1. found[r] # None => found[r] # o
    BY <1>0, <1>5 DEF RequestInOrder, FoundInOrder
  <2>2. found[r] # None => found[r] \in Object
    BY <1>0 DEF StoredTypeOK
  <2> QED BY <1>0, <1>1, <1>3, <2>1, <2>2, ZenonT(60) DEF RequestInOrder, FoundInOrder
<1>8. RequestInOrder(r)'
  BY <1>0, <1>1, <1>3, <1>7 DEF RequestInOrder, MadeInOrder, LateInOrder, Stages, Over
<1> QED
  BY <1>2, <1>4, <1>6, <1>8, OwnStep

\* The reference of what a request made is stored, or the request fails.
LEMMA PersistInv ==
    ASSUME StoredInv, kinds' = kinds, NEW r \in Request, Persist(r)
    PROVE  StoredInv'
<1> DEFINE m == made[r]
           row == [status |-> "active", key |-> KeyOf[r], route |-> at[r].route]
<1>0. /\ StoredTypeOK /\ RequestInOrder(r) /\ KeyOf' = KeyOf /\ KeyOf[r] \in Key
      /\ "active" # None /\ "deleted" # None
  BY StoredConstants, KeyOfRequest DEF StoredInv, KeyOf
<1>1. /\ UNCHANGED <<upstream, creator, target, found, at, made, late>>
      /\ pc[r] = "persisting"
      /\ \/ /\ ref[m].status = None
            /\ ref' = [ref EXCEPT ![m] = row]
            /\ pc' = [pc EXCEPT ![r] = "done"]
         \/ ref' = ref /\ pc' = [pc EXCEPT ![r] = "failed"]
  BY DEF Persist, MoveTo
<1>2. m \in Object /\ m # None /\ upstream[m] # None /\ creator[m] = KeyOf[r]
  BY <1>0, <1>1 DEF StoredTypeOK, RequestInOrder, MadeInOrder
<1>3. row \in References
  BY <1>0, <1>1 DEF References, RequestInOrder, MadeInOrder, Places
<1>4. row.status = "active" /\ row.key = KeyOf[r]
  OBVIOUS
<1> HIDE DEF m, row
<1>5. StoredTypeOK' /\ \A q \in Request \ {r} : Untouched(q)
  BY <1>0, <1>1, <1>2, <1>3, SMT DEF StoredTypeOK, Untouched, Stages, Over
<1>6. \A o \in Object : \/ ref'[o] = ref[o]
                        \/ o = m /\ ref[o].status = None /\ ref'[o] = row
  BY <1>0, <1>1, <1>2 DEF StoredTypeOK
<1>7. Grows
  BY <1>0, <1>1, <1>4, <1>6 DEF Grows
<1>8. \A o \in Object : RowInOrder(o)'
  BY <1>0, <1>1, <1>2, <1>4, <1>6, ZenonT(60) DEF StoredInv, RowInOrder
<1>9. pc'[r] \in {"done", "failed"} /\ (pc'[r] = "done" => ref'[m].status # None)
  BY <1>0, <1>1, <1>2, <1>4 DEF StoredTypeOK
<1>10. RequestInOrder(r)'
  <2>1. FoundInOrder(r)'
    BY <1>0, <1>1, <1>7, <1>9 DEF RequestInOrder, FoundInOrder, Grows, StoredTypeOK
  <2>2. LateInOrder(r)'
    BY <1>0, <1>1, <1>7 DEF RequestInOrder, LateInOrder, Grows, StoredTypeOK
  <2>3. MadeInOrder(r)'
    BY <1>0, <1>1, <1>2, <1>9 DEF RequestInOrder, MadeInOrder, Over, m
  <2> QED BY <2>1, <2>2, <2>3 DEF RequestInOrder
<1> QED
  BY <1>5, <1>7, <1>8, <1>10, OwnStep

\* The operator changes no reference, object or request.
LEMMA SwitchInv ==
    ASSUME StoredInv, kinds' = kinds, UNCHANGED <<upstream, creator, ref, calls>>
    PROVE  StoredInv'
<1>1. StoredTypeOK' /\ Grows /\ (\A r \in Request : Untouched(r))
  BY DEF StoredInv, StoredTypeOK, Grows, Untouched, calls
<1>2. \A o \in Object : RowInOrder(o)'
  BY DEF StoredInv, RowInOrder
<1>3. \A r \in Request : RequestInOrder(r)'
  BY <1>1, RequestKept
<1> QED
  BY <1>1, <1>2, <1>3 DEF StoredInv

\* At the start nothing is stored and no request has begun.
LEMMA StoredInitInv == StoredInit => StoredInv
<1> SUFFICES ASSUME StoredInit PROVE StoredInv
  OBVIOUS
<1>1. StoredTypeOK
  BY DEF StoredInit, StoredTypeOK, References, NoRef, Stages
<1>2. \A o \in Object : RowInOrder(o)
  BY StoredConstants DEF StoredInit, RowInOrder, NoRef
<1>3. \A r \in Request : RequestInOrder(r)
  BY DEF StoredInit, RequestInOrder, FoundInOrder, MadeInOrder, LateInOrder
<1> QED
  BY <1>1, <1>2, <1>3 DEF StoredInv

\* Every step keeps the invariant.
LEMMA StoredStepInv == StoredInv /\ [StoredNext]_storedVars => StoredInv'
<1> SUFFICES ASSUME StoredInv, [StoredNext]_storedVars PROVE StoredInv'
  OBVIOUS
<1>1. ASSUME NEW r \in Request, Handle(r), kinds' = kinds
      PROVE  StoredInv'
  <2>1. ASSUME NEW h \in Offered[kinds] \cap Handlers, NEW i \in Id \cup {None},
               Begin(r, h, i)
        PROVE  StoredInv'
    BY <1>1, <2>1, BeginInv
  <2>2. CASE Lookup(r)
    BY <1>1, <2>2, LookupInv
  <2>3. CASE RouteOfReference(r) \/ CallObject(r) \/ CallCreateNothing(r) \/ CutOff(r)
    BY <1>1, <2>3, MoveInv
  <2>4. CASE CallDelete(r)
    BY <1>1, <2>4, CallDeleteInv
  <2>5. CASE MarkDeleted(r)
    BY <1>1, <2>5, MarkDeletedInv
  <2>6. CASE SelectForConversation(r) \/ \E x \in Route : SelectForResponse(r, x)
    BY <1>1, <2>6, SelectInv
  <2>7. ASSUME NEW kind \in Kind, VerifyPrior(r, kind)
        PROVE  StoredInv'
    BY <1>1, <2>7, VerifyPriorInv
  <2>8. ASSUME NEW o \in Object, CallCreate(r, o)
        PROVE  StoredInv'
    BY <1>1, <2>8, CallCreateInv
  <2>9. CASE Persist(r)
    BY <1>1, <2>9, PersistInv
  <2> QED
    BY <1>1, <2>1, <2>2, <2>3, <2>4, <2>5, <2>6, <2>7, <2>8, <2>9 DEF Handle
<1>2. CASE UNCHANGED <<upstream, creator, ref, calls, kinds>>
  BY <1>2, SwitchInv
<1> QED
  BY <1>1, <1>2 DEF StoredNext, storedVars, SwitchProvider, SwitchRoute

\* What the references, the objects and the requests know always agrees.
THEOREM StoredInvariant == StoredSpec => []StoredInv
  BY StoredInitInv, StoredStepInv, PTL DEF StoredSpec

\* No failed or lost delete call hides an object that still exists, however
\* deletes, creations and crashes of the handlers interleave
\* (_mark_response_reference_deleted, _mark_conversation_reference_deleted).
THEOREM DeletedIsGoneAlways == StoredSpec => []DeletedIsGone
<1>1. StoredInv => DeletedIsGone
  BY DEF StoredInv, RowInOrder, DeletedIsGone
<1> QED
  BY <1>1, StoredInvariant, PTL

\* A provider is asked only about an object of the asking key, under the id the
\* client named, not deleted when the request began, and a prior object goes
\* only to the provider that holds it (get_active_reference_for_key,
\* _response_reference_matches_route).
THEOREM ReachesOwnLiveObjectAlways == StoredSpec => []ReachesOwnLiveObject
<1>1. StoredInv => ReachesOwnLiveObject
  BY DEF StoredInv, RequestInOrder, FoundInOrder, ReachesOwnLiveObject, Reached
<1> QED
  BY <1>1, StoredInvariant, PTL

\* Whatever object the client was told of has its reference
\* (_persist_stored_response_reference, _persist_conversation_reference).
THEOREM StoredIsReferencedAlways == StoredSpec => []StoredIsReferenced
<1>1. StoredInv => StoredIsReferenced
  BY DEF StoredInv, RequestInOrder, MadeInOrder, StoredIsReferenced
<1> QED
  BY <1>1, StoredInvariant, PTL
=============================================================================
