------------------------------- MODULE Images -------------------------------
(***************************************************************************)
(* The docker images of Create (client.go) in containerd's store, which    *)
(* all Creates share (containerd/client.go, Pull and Delete): an image is  *)
(* pulled by its tag, measured through a temporary view of its snapshot,   *)
(* and deleted again when it does not fit the disk limit of the container, *)
(* while other Creates pull, measure and delete under the same tag.        *)
(***************************************************************************)
EXTENDS Integers, FiniteSets

CONSTANTS Workers,      \* the goroutines that run a Create
          Tags,         \* image references
          Digests,      \* what a tag can point to
          NoDigest,     \* a tag that is not in the store
          Keys,         \* clock readings that name temporary views
          Size,         \* digest -> its size on disk
          Limit,        \* worker -> the disk limit of its container
          MaxRetags,    \* bound on changes in the registry
          MaxFailures   \* bound on views that cannot be removed

ASSUME ImagesAssumption ==
  /\ NoDigest \notin Digests
  /\ Size \in [Digests -> Nat]
  /\ Limit \in [Workers -> Nat]
  /\ MaxRetags \in Nat /\ MaxFailures \in Nat

VARIABLES registry,     \* tag -> digest in the registry
          retags,       \* how often that changed
          store,        \* tag -> digest in containerd's image store
          content,      \* the digests whose layers are unpacked
          views,        \* the keys of temporary views
          failures,     \* removals of a view that failed
          pc,           \* where a Create is
          tag,          \* the image it asked for
          digest,       \* the image it got
          key,          \* its view's key
          measured      \* whether it knows the size

registryVars == <<registry, retags>>
workerVars == <<pc, tag, digest, key, measured>>
vars == <<registryVars, store, content, views, failures, workerVars>>

Steps == {"idle", "pull", "view", "measure", "remove", "compare", "delete",
          "spec", "made"}

\* Tags and keys of idle workers mean nothing.
Init == /\ registry \in [Tags -> Digests]
        /\ retags = 0
        /\ store = [t \in Tags |-> NoDigest]
        /\ content = {}
        /\ views = {}
        /\ failures = 0
        /\ pc = [w \in Workers |-> "idle"]
        /\ tag \in [Workers -> Tags]
        /\ digest = [w \in Workers |-> NoDigest]
        /\ key \in [Workers -> Keys]
        /\ measured = [w \in Workers |-> FALSE]
-----------------------------------------------------------------------------
(* Pull *)

Goto(w, from, to) == pc[w] = from /\ pc' = [pc EXCEPT ![w] = to]

\* Create comes to its image; a former one of this worker is over.
BeginImage(w, t) == /\ pc[w] \in {"idle", "made"}
                    /\ pc' = [pc EXCEPT ![w] = "pull"]
                    /\ tag' = [tag EXCEPT ![w] = t]
                    /\ UNCHANGED <<registryVars, store, content, views, failures,
                                   digest, key, measured>>

\* client.Pull stores the tag with the registry's digest and unpacks it.
Pull(w) == /\ Goto(w, "pull", "view")
           /\ LET d == registry[tag[w]]
              IN  /\ store' = [store EXCEPT ![tag[w]] = d]
                  /\ content' = content \cup {d}
                  /\ digest' = [digest EXCEPT ![w] = d]
           /\ UNCHANGED <<registryVars, views, failures, tag, key, measured>>

\* The reference does not parse, the pull fails, or the layers cannot be
\* listed because the image was deleted meanwhile.
PullFails(w) == /\ \/ Goto(w, "pull", "idle")
                   \/ Goto(w, "view", "idle")
                /\ UNCHANGED <<registryVars, store, content, views, failures, tag,
                               digest, key, measured>>

\* The view is named after the clock; containerd refuses a key it has.
View(w, k) == /\ Goto(w, "view", "measure")
              /\ digest[w] \in content
              /\ k \notin views
              /\ views' = views \cup {k}
              /\ key' = [key EXCEPT ![w] = k]
              /\ UNCHANGED <<registryVars, store, content, failures, tag, digest,
                             measured>>

Measure(w) == /\ Goto(w, "measure", "remove")
              /\ measured' \in {[measured EXCEPT ![w] = b] : b \in BOOLEAN}
              /\ UNCHANGED <<registryVars, store, content, views, failures, tag,
                             digest, key>>

\* Mutant of RemoveView: the view is removed when the size is known only.
RemoveMeasuredView(w) ==
  /\ Goto(w, "remove", IF measured[w] THEN "compare" ELSE "idle")
  /\ views' = IF measured[w] THEN views \ {key[w]} ELSE views
  /\ UNCHANGED <<registryVars, store, content, failures, tag, digest, key,
                 measured>>

\* The deferred Remove, after a measurement that succeeded or not.
RemoveView(w) ==
  /\ Goto(w, "remove", IF measured[w] THEN "compare" ELSE "idle")
  /\ views' = views \ {key[w]}
  /\ UNCHANGED <<registryVars, store, content, failures, tag, digest, key,
                 measured>>

\* An error of the deferred Remove is dropped.
RemoveViewFails(w) ==
  /\ failures < MaxFailures
  /\ failures' = failures + 1
  /\ Goto(w, "remove", IF measured[w] THEN "compare" ELSE "idle")
  /\ UNCHANGED <<registryVars, store, content, views, tag, digest, key, measured>>
-----------------------------------------------------------------------------
(* Create, with the image *)

Compare(w) ==
  /\ Goto(w, "compare", IF Size[digest[w]] >= Limit[w] THEN "delete" ELSE "spec")
  /\ UNCHANGED <<registryVars, store, content, views, failures, tag, digest, key,
                 measured>>

\* Mutant of Delete: the tag is deleted whatever it points to.
DeleteTag(w) == /\ Goto(w, "delete", "idle")
                /\ store' = [store EXCEPT ![tag[w]] = NoDigest]
                /\ UNCHANGED <<registryVars, content, views, failures, tag, digest,
                               key, measured>>

\* The tag is deleted if it still points to the digest that was measured;
\* Create fails in any case.
Delete(w) == /\ Goto(w, "delete", "idle")
             /\ store' = IF store[tag[w]] = digest[w]
                           THEN [store EXCEPT ![tag[w]] = NoDigest] ELSE store
             /\ UNCHANGED <<registryVars, content, views, failures, tag, digest,
                            key, measured>>

\* The image's config is read: it is there, or was collected meanwhile.
ReadSpec(w) ==
  /\ Goto(w, "spec", IF digest[w] \in content THEN "made" ELSE "idle")
  /\ UNCHANGED <<registryVars, store, content, views, failures, tag, digest, key,
                 measured>>
-----------------------------------------------------------------------------
(* The registry and containerd *)

\* Somebody pushes another image under the tag.
Retag(t, d) == /\ retags < MaxRetags
               /\ retags' = retags + 1
               /\ d # registry[t]
               /\ registry' = [registry EXCEPT ![t] = d]
               /\ UNCHANGED <<store, content, views, failures, workerVars>>

\* containerd's garbage collection.
Collect(d) == /\ d \in content
              /\ \A t \in Tags : store[t] # d
              /\ content' = content \ {d}
              /\ UNCHANGED <<registryVars, store, views, failures, workerVars>>

Next == \/ \E w \in Workers :
             \/ Pull(w) \/ PullFails(w) \/ Measure(w) \/ RemoveView(w)
             \/ RemoveViewFails(w) \/ Compare(w) \/ Delete(w) \/ ReadSpec(w)
             \/ \E t \in Tags : BeginImage(w, t)
             \/ \E k \in Keys : View(w, k)
        \/ \E d \in Digests : Collect(d) \/ \E t \in Tags : Retag(t, d)

Spec == Init /\ [][Next]_vars
-----------------------------------------------------------------------------
(* Properties *)

\* An image leaves the store only when it is itself too large for a container
\* that is being created: a Create that found an image too large never takes
\* away a smaller one that another Create has pulled under the tag since.
DeletesOnlyTooLarge ==
  [][\A t \in Tags : store[t] # NoDigest /\ store'[t] = NoDigest =>
       \E w \in Workers : /\ pc[w] = "delete" /\ pc'[w] = "idle"
                          /\ Size[store[t]] >= Limit[w]]_vars

\* Views are temporary: there is at most one per Create that measures an
\* image, beside those whose removal has failed, and no two Creates share one.
ViewsAreTemporary ==
  LET using == {w \in Workers : pc[w] \in {"measure", "remove"}}
  IN  /\ \A w \in using : key[w] \in views
      /\ \A v, w \in using : key[v] = key[w] => v = w
      /\ Cardinality(views) <= Cardinality(using) + failures
=============================================================================
