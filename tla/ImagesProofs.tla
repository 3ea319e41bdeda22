---------------------------- MODULE ImagesProofs ----------------------------
(***************************************************************************)
(* For any number of Creates, tags, digests and limits: a Create deletes   *)
(* no image but one that is too large for it, and leaves a temporary view  *)
(* behind only when its removal has failed.                                *)
(***************************************************************************)
EXTENDS Images, FiniteSetTheorems, TLAPS

ImagesTypeOK == /\ registry \in [Tags -> Digests]
                /\ store \in [Tags -> Digests \cup {NoDigest}]
                /\ pc \in [Workers -> Steps]
                /\ tag \in [Workers -> Tags]
                /\ digest \in [Workers -> Digests \cup {NoDigest}]

\* From its pull on a Create has an image, and it deletes it only because of
\* that image's size.
Decided(w) ==
  /\ pc[w] \in Steps \ {"idle", "pull"} => digest[w] \in Digests
  /\ pc[w] = "delete" => Size[digest[w]] >= Limit[w]

ImagesInv == ImagesTypeOK /\ \A w \in Workers : Decided(w)

\* No Create has begun.
LEMMA ImagesInit == Init => ImagesInv
BY DEF Init, ImagesInv, ImagesTypeOK, Decided, Steps

\* One step of a Create, or of the registry and the collector.
WorkerStep(w) ==
  \/ Pull(w) \/ PullFails(w) \/ Measure(w) \/ RemoveView(w)
  \/ RemoveViewFails(w) \/ Compare(w) \/ Delete(w) \/ ReadSpec(w)
  \/ (\E t \in Tags : BeginImage(w, t))
  \/ (\E k \in Keys : View(w, k))

\* A Create's own step keeps the types and what its image is known to be; the
\* program counter, tag and digest of every other Create stay as they are.
LEMMA ImagesWorker ==
  ASSUME ImagesInv, NEW w \in Workers, WorkerStep(w)
  PROVE  ImagesInv'
<1> ImagesTypeOK /\ (\A v \in Workers : Decided(v))
  BY DEF ImagesInv
<1> SUFFICES ASSUME NEW v \in Workers PROVE ImagesTypeOK' /\ Decided(v)'
  BY DEF ImagesInv
<1>0. Decided(v) /\ Decided(w)
  OBVIOUS
<1>1. Size \in [Digests -> Nat] /\ Limit[v] \in Nat /\ Limit[w] \in Nat
      /\ NoDigest \notin Digests
  BY ImagesAssumption
<1> HIDE DEF ImagesInv
<1> USE <1>0, <1>1 DEF ImagesTypeOK, Decided, Steps, Goto, registryVars
<1>2. CASE Pull(w)
  BY <1>2 DEF Pull
<1>3. CASE PullFails(w)
  BY <1>3 DEF PullFails
<1>4. CASE Measure(w)
  BY <1>4 DEF Measure
<1>5. CASE RemoveView(w) \/ RemoveViewFails(w)
  BY <1>5 DEF RemoveView, RemoveViewFails
<1>6. CASE Compare(w)
  BY <1>6 DEF Compare
<1>7. CASE Delete(w)
  BY <1>7 DEF Delete
<1>8. CASE ReadSpec(w)
  BY <1>8 DEF ReadSpec
<1>9. ASSUME NEW t \in Tags, BeginImage(w, t) PROVE ImagesTypeOK' /\ Decided(v)'
  BY <1>9 DEF BeginImage
<1>10. ASSUME NEW k \in Keys, View(w, k) PROVE ImagesTypeOK' /\ Decided(v)'
  BY <1>10 DEF View
<1> QED BY <1>2, <1>3, <1>4, <1>5, <1>6, <1>7, <1>8, <1>9, <1>10 DEF WorkerStep

\* The invariant holds throughout.
LEMMA ImagesInvariant == Spec => []ImagesInv
<1>1. ImagesInv /\ [Next]_vars => ImagesInv'
  <2> SUFFICES ASSUME ImagesInv, [Next]_vars PROVE ImagesInv'
    OBVIOUS
  <2>1. ASSUME NEW w \in Workers, WorkerStep(w) PROVE ImagesInv'
    BY <2>1, ImagesWorker
  <2>2. ASSUME NEW d \in Digests, Collect(d) PROVE ImagesInv'
    BY <2>2 DEF Collect, ImagesInv, ImagesTypeOK, Decided, registryVars,
                workerVars
  <2>3. ASSUME NEW d \in Digests, NEW t \in Tags, Retag(t, d) PROVE ImagesInv'
    BY <2>3 DEF Retag, ImagesInv, ImagesTypeOK, Decided, workerVars
  <2>4. CASE UNCHANGED vars
    BY <2>4 DEF vars, ImagesInv, ImagesTypeOK, Decided, registryVars, workerVars
  <2> QED BY <2>1, <2>2, <2>3, <2>4 DEF Next, WorkerStep
<1> QED BY <1>1, ImagesInit, PTL DEF Spec

\* An image leaves the store only by a Create it is itself too large for,
\* whatever other Creates have pulled under its tag.
THEOREM DeletesTooLarge == Spec => DeletesOnlyTooLarge
<1>1. ImagesInv /\ [Next]_vars =>
        [\A t \in Tags : store[t] # NoDigest /\ store'[t] = NoDigest =>
           \E w \in Workers : /\ pc[w] = "delete" /\ pc'[w] = "idle"
                              /\ Size[store[t]] >= Limit[w]]_vars
  <2> SUFFICES ASSUME ImagesInv, Next, NEW t \in Tags,
                      store[t] # NoDigest, store'[t] = NoDigest
               PROVE  \E w \in Workers : /\ pc[w] = "delete" /\ pc'[w] = "idle"
                                         /\ Size[store[t]] >= Limit[w]
    OBVIOUS
  <2>1. store' # store
    OBVIOUS
  <2>2. ASSUME NEW w \in Workers, Pull(w) PROVE FALSE
    <3>1. registry[tag[w]] \in Digests
      BY DEF ImagesInv, ImagesTypeOK
    <3> QED BY <2>2, <3>1, ImagesAssumption DEF Pull, ImagesInv, ImagesTypeOK
  <2>3. PICK w \in Workers : Delete(w)
    BY <2>1, <2>2 DEF Next, PullFails, Measure, RemoveView, RemoveViewFails,
       Compare, ReadSpec, BeginImage, View, Collect, Retag
  <2>4. /\ pc[w] = "delete"
        /\ store[tag[w]] = digest[w]
        /\ t = tag[w]
    BY <2>1, <2>3 DEF Delete, Goto, ImagesInv, ImagesTypeOK
  <2>5. pc'[w] = "idle"
    BY <2>3 DEF Delete, Goto, ImagesInv, ImagesTypeOK
  <2>6. Size[store[t]] >= Limit[w]
    BY <2>4 DEF ImagesInv, Decided
  <2> QED BY <2>4, <2>5, <2>6
<1> QED BY <1>1, ImagesInvariant, PTL DEF Spec, DeletesOnlyTooLarge
-----------------------------------------------------------------------------
(* Temporary views *)

\* The Creates that have a view of their own.
Using == {w \in Workers : pc[w] \in {"measure", "remove"}}

\* The count of views needs what makes it finite: views and the Creates that
\* use them come one at a time.
ViewsInv == /\ pc \in [Workers -> Steps]
            /\ key \in [Workers -> Keys]
            /\ failures \in Nat
            /\ IsFiniteSet(views) /\ IsFiniteSet(Using)
            /\ \A w \in Using : key[w] \in views
            /\ \A v, w \in Using : key[v] = key[w] => v = w
            /\ Cardinality(views) <= Cardinality(Using) + failures

\* No Create has begun, and there is no view.
LEMMA ViewsInit == Init => ViewsInv
<1> SUFFICES ASSUME Init PROVE ViewsInv
  OBVIOUS
<1>1. Using = {} /\ views = {} /\ failures = 0
  BY DEF Init, Using
<1>2. pc \in [Workers -> Steps] /\ key \in [Workers -> Keys]
  BY DEF Init, Steps
<1> QED BY <1>1, <1>2, FS_EmptySet DEF ViewsInv

\* Steps that neither make nor remove a view, of Creates that have none before
\* and after, or go on with the one they have.
LEMMA ViewsAlone ==
  ASSUME ViewsInv, pc' \in [Workers -> Steps], Using' = Using,
         UNCHANGED <<views, key, failures>>
  PROVE  ViewsInv'
BY DEF ViewsInv

\* A Create that makes a view joins those that have one, with a key that no
\* view had.
LEMMA ViewKeeps ==
  ASSUME ViewsInv, NEW w \in Workers, NEW k \in Keys, View(w, k)
  PROVE  ViewsInv'
<1>1. w \notin Using /\ Using' = Using \cup {w}
  BY DEF View, Goto, Using, ViewsInv
<1>2. k \notin views /\ views' = views \cup {k}
  BY DEF View
<1>3. key' = [key EXCEPT ![w] = k] /\ failures' = failures
  BY DEF View
<1>4. pc' \in [Workers -> Steps]
  BY DEF View, Goto, ViewsInv, Steps
<1>5. /\ IsFiniteSet(views') /\ Cardinality(views') = Cardinality(views) + 1
      /\ IsFiniteSet(Using') /\ Cardinality(Using') = Cardinality(Using) + 1
  BY <1>1, <1>2, FS_AddElement DEF ViewsInv
<1>6. Cardinality(views) \in Nat /\ Cardinality(Using) \in Nat
  BY FS_CardinalityType DEF ViewsInv
<1>7. (Cardinality(views) <= Cardinality(Using) + failures)'
  BY <1>3, <1>5, <1>6 DEF ViewsInv
<1>8. (\A v \in Using : key[v] \in views)'
  BY <1>1, <1>2, <1>3 DEF ViewsInv, Using
<1>9. (\A v, u \in Using : key[v] = key[u] => v = u)'
  BY <1>1, <1>2, <1>3 DEF ViewsInv, Using
<1> QED BY <1>3, <1>4, <1>5, <1>7, <1>8, <1>9 DEF ViewsInv

\* The deferred Remove: the Create leaves, and takes its view along or leaves
\* one more behind.
LEMMA RemoveKeeps ==
  ASSUME ViewsInv, NEW w \in Workers, RemoveView(w) \/ RemoveViewFails(w)
  PROVE  ViewsInv'
<1>1. w \in Using /\ Using' = Using \ {w}
  BY DEF RemoveView, RemoveViewFails, Goto, Using, ViewsInv
<1>2. key' = key /\ pc' \in [Workers -> Steps]
  BY DEF RemoveView, RemoveViewFails, Goto, ViewsInv, Steps
<1>3. \/ views' = views \ {key[w]} /\ failures' = failures
      \/ views' = views /\ failures' = failures + 1
  BY DEF RemoveView, RemoveViewFails
<1>4. key[w] \in views
  BY <1>1 DEF ViewsInv
<1>5. /\ IsFiniteSet(views \ {key[w]})
      /\ Cardinality(views \ {key[w]}) = Cardinality(views) - 1
      /\ IsFiniteSet(Using') /\ Cardinality(Using') = Cardinality(Using) - 1
  BY <1>1, <1>4, FS_RemoveElement DEF ViewsInv
<1>6. Cardinality(views) \in Nat /\ Cardinality(Using) \in Nat
  BY FS_CardinalityType DEF ViewsInv
<1>7. /\ IsFiniteSet(views') /\ failures' \in Nat
      /\ (Cardinality(views) <= Cardinality(Using) + failures)'
  <2>0. /\ failures \in Nat /\ IsFiniteSet(views)
        /\ Cardinality(views) <= Cardinality(Using) + failures
    BY DEF ViewsInv
  <2>1. CASE views' = views \ {key[w]} /\ failures' = failures
    <3>1. Cardinality(views') = Cardinality(views) - 1 /\ IsFiniteSet(views')
      BY <1>5, <2>1
    <3> QED BY <1>5, <1>6, <2>0, <2>1, <3>1
  <2>2. CASE views' = views /\ failures' = failures + 1
    BY <1>5, <1>6, <2>0, <2>2
  <2> QED BY <1>3, <2>1, <2>2
<1>8. (\A v \in Using : key[v] \in views)'
  BY <1>1, <1>2, <1>3 DEF ViewsInv, Using
<1>9. (\A v, u \in Using : key[v] = key[u] => v = u)'
  BY <1>1, <1>2 DEF ViewsInv, Using
<1> QED BY <1>2, <1>5, <1>7, <1>8, <1>9 DEF ViewsInv

\* Every step keeps the views temporary.
LEMMA ViewsStep == ViewsInv /\ [Next]_vars => ViewsInv'
<1> SUFFICES ASSUME ViewsInv, [Next]_vars PROVE ViewsInv'
  OBVIOUS
<1>1. ASSUME NEW w \in Workers,
             \/ Pull(w) \/ PullFails(w) \/ Measure(w) \/ Compare(w)
             \/ Delete(w) \/ ReadSpec(w)
             \/ \E t \in Tags : BeginImage(w, t)
      PROVE  ViewsInv'
  <2>1. UNCHANGED <<views, key, failures>>
    BY <1>1 DEF Pull, PullFails, Measure, Compare, Delete, ReadSpec, BeginImage
  <2>2. pc' \in [Workers -> Steps] /\ Using' = Using
    BY <1>1 DEF Pull, PullFails, Measure, Compare, Delete, ReadSpec,
         BeginImage, Goto, ViewsInv, Steps, Using
  <2> QED BY <2>1, <2>2, ViewsAlone
<1>2. ASSUME NEW d \in Digests, Collect(d) \/ \E t \in Tags : Retag(t, d)
      PROVE  ViewsInv'
  <2>1. UNCHANGED <<pc, views, key, failures>>
    BY <1>2 DEF Collect, Retag, workerVars
  <2> QED BY <2>1, ViewsAlone DEF ViewsInv, Using
<1>3. CASE UNCHANGED vars
  BY <1>3, ViewsAlone DEF vars, workerVars, ViewsInv, Using
<1> QED BY <1>1, <1>2, <1>3, ViewKeeps, RemoveKeeps DEF Next

\* At most one view per Create that measures, beside those whose removal has
\* failed, and none shared, for any number of Creates and of clock readings.
THEOREM ViewsTemporary == Spec => []ViewsAreTemporary
<1>1. ViewsInv => ViewsAreTemporary
  BY DEF ViewsInv, Using, ViewsAreTemporary
<1>2. Spec => []ViewsInv
  BY ViewsInit, ViewsStep, PTL DEF Spec
<1> QED BY <1>1, <1>2, PTL
=============================================================================
