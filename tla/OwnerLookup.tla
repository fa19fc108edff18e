------------------------------ MODULE OwnerLookup ------------------------------
(***************************************************************************)
(* The search for the top-level controller of a pod (kubernetes.cc):       *)
(* FindTopLevelController follows controller references, GetOwner fetches  *)
(* and caches the object a reference names, and KindPath finds out, once   *)
(* per API version, under which path objects of a kind are served.  One    *)
(* thread searches, the one that watches pods; the Kubernetes master       *)
(* changes between any two queries of a search.                            *)
(*                                                                         *)
(* An object is its uid and its controller reference, or Nothing.  A path  *)
(* stands for kind, namespace and name; the API version is that of the     *)
(* kind.  Objects are looked up by path and referred to by path and uid.   *)
(* The master serves a kind or not, and starts or stops to as resource     *)
(* definitions come and go; the objects of some kinds have no namespace.   *)
(***************************************************************************)
EXTENDS Naturals, Sequences

CONSTANTS
  Kinds,        \* kinds of controllers
  Versions,     \* API versions
  VersionOf,    \* the API version of a kind
  Namespaced,   \* the kinds whose objects live in a namespace
  Rank,         \* owners have a higher rank than what they own
  Paths,        \* where objects live
  KindOf,       \* the kind of the objects at a path
  Uids,         \* uids of controllers
  PodUids,      \* uids of pods
  Nothing,      \* no object, or no controller reference
  MaxChanges,   \* bound: changes of the master
  MaxFailures   \* bound: queries that fail

Refs == [path: Paths, uid: Uids]
Objects == [uid: Uids, controller: Refs \cup {Nothing}]
Pods == [uid: PodUids, controller: Refs \cup {Nothing}]

ASSUME OwnerAssumption ==
  /\ VersionOf \in [Kinds -> Versions]
  /\ Namespaced \subseteq Kinds
  /\ Rank \in [Kinds -> Nat]
  /\ KindOf \in [Paths -> Kinds]
  /\ Nothing \notin Objects
  /\ Nothing \notin Refs
  /\ MaxChanges \in Nat
  /\ MaxFailures \in Nat

VARIABLES
  served,    \* external: the kinds the master serves now
  actual,    \* external: the object at each path
  past,      \* ghost: every object the master has had, with its path
  changes,   \* ghost: changes so far
  asked,     \* the keys of version_to_kind_to_name_
  known,     \* the kinds that version_to_kind_to_name_ has a name for
  fetched_without,  \* ghost: the kinds missing from a list fetched in full
  owners,    \* owners_, by kind and uid
  opc,       \* where the search stands
  chain,     \* the pod and the owners found so far
  failures   \* ghost: queries that failed so far

masterVars == <<served, actual, past, changes>>
lookupVars == <<asked, known, fetched_without, owners, opc, chain, failures>>
ownerVars == <<masterVars, lookupVars>>

OwnerInit ==
  /\ served \in SUBSET Kinds
  /\ actual = [p \in Paths |-> Nothing]
  /\ past = {}
  /\ changes = 0
  /\ asked = {}
  /\ known = {}
  /\ fetched_without = {}
  /\ owners = [k \in Kinds |-> [u \in Uids |-> Nothing]]
  /\ opc = "idle"
  /\ chain = <<>>
  /\ failures = 0

--------------------------------------------------------------------------------
\* The master.

Existing == {p \in Paths : actual[p] # Nothing}

\* References to objects that exist, from objects of a lower rank.
RefsFor(kind) ==
  {[path |-> p, uid |-> actual[p].uid] :
     p \in {q \in Existing : Rank[KindOf[q]] > Rank[kind]}}

Changed(p, object) ==
  /\ changes < MaxChanges
  /\ changes' = changes + 1
  /\ actual' = [actual EXCEPT ![p] = object]
  /\ past' = past \cup {[path |-> q, object |-> actual'[q]] :
                          q \in {r \in Paths : actual'[r] # Nothing}}
  /\ UNCHANGED served

\* A new object gets a uid that was never used.
Create(p, uid, controller) ==
  /\ KindOf[p] \in served
  /\ actual[p] = Nothing
  /\ \A x \in past : x.object.uid # uid
  /\ Changed(p, [uid |-> uid, controller |-> controller])

Delete(p) == actual[p] # Nothing /\ Changed(p, Nothing)

\* An object is adopted by a controller, or orphaned.
Adopt(p, controller) ==
  /\ actual[p] # Nothing
  /\ actual[p].controller # controller
  /\ Changed(p, [actual[p] EXCEPT !.controller = controller])

\* A kind comes to be served, or no longer is once its objects are deleted.
ServedChanges(kinds) ==
  /\ changes < MaxChanges
  /\ changes' = changes + 1
  /\ kinds # served
  /\ \A p \in Existing : KindOf[p] \in kinds
  /\ served' = kinds
  /\ UNCHANGED <<actual, past>>

Master ==
  /\ \/ \E p \in Paths :
          \/ \E u \in Uids, c \in RefsFor(KindOf[p]) \cup {Nothing} : Create(p, u, c)
          \/ Delete(p)
          \/ \E c \in RefsFor(KindOf[p]) \cup {Nothing} : Adopt(p, c)
     \/ \E kinds \in SUBSET Kinds : ServedChanges(kinds)
  /\ UNCHANGED lookupVars

--------------------------------------------------------------------------------
\* FindTopLevelController.

Current == chain[Len(chain)]
Ref == Current.controller
RefKind == KindOf[Ref.path]
RefVersion == VersionOf[RefKind]
CachedOwner == owners[RefKind][Ref.uid]

\* References a pod may carry: to objects that exist or once did.
PastRefs == {[path |-> x.path, uid |-> x.object.uid] : x \in past}

BeginSearch(pod) ==
  /\ opc = "idle"
  /\ opc' = "find"
  /\ chain' = <<pod>>
  /\ UNCHANGED <<masterVars, asked, known, fetched_without, owners, failures>>

\* No controller reference: the object at hand is the top-level one.
TopLevelFound ==
  /\ opc = "find"
  /\ Ref = Nothing
  /\ opc' = "found"
  /\ UNCHANGED <<masterVars, asked, known, fetched_without, owners, chain,
                 failures>>

\* A plausible bug: the owner is cached but the search does not move to it.
OwnerCachedStays ==
  /\ opc = "find"
  /\ Ref # Nothing
  /\ CachedOwner # Nothing
  /\ UNCHANGED ownerVars

\* GetOwner with the owner in the cache.
OwnerCached ==
  /\ opc = "find"
  /\ Ref # Nothing
  /\ CachedOwner # Nothing
  /\ chain' = Append(chain, CachedOwner)
  /\ UNCHANGED <<masterVars, asked, known, fetched_without, owners, opc, failures>>

--------------------------------------------------------------------------------
\* GetOwner with the owner not in the cache: first KindPath.

\* KindPath throws a std::string if the kind is unknown.  GetOwner's exception
\* specification does not allow it, so that the process is terminated.
AfterKindPath == IF RefKind \in known' THEN "query" ELSE "terminated"

NeedsOwner == opc = "find" /\ Ref # Nothing /\ CachedOwner = Nothing

\* The version was asked for before, whatever came of it.
KindPathKnown ==
  /\ NeedsOwner
  /\ RefVersion \in asked
  /\ UNCHANGED <<masterVars, asked, known, fetched_without, owners, chain,
                 failures>>
  /\ opc' = AfterKindPath

KindsOf(v) == {k \in Kinds : VersionOf[k] = v}
ServedKinds(v) == KindsOf(v) \cap served

\* A plausible bug: only the kind at hand is remembered.
KindPathQueriedForOne ==
  /\ NeedsOwner
  /\ RefVersion \notin asked
  /\ asked' = asked \cup {RefVersion}
  /\ known' = known \cup (served \cap {RefKind})
  /\ fetched_without' = fetched_without \cup (KindsOf(RefVersion) \ served)
  /\ opc' = AfterKindPath
  /\ UNCHANGED <<masterVars, owners, chain, failures>>

\* The list of resources of the version is fetched and remembered for good: a kind
\* that it lacks stays unknown, also when the master comes to serve it.
KindPathQueried ==
  /\ NeedsOwner
  /\ RefVersion \notin asked
  /\ asked' = asked \cup {RefVersion}
  /\ known' = known \cup ServedKinds(RefVersion)
  /\ fetched_without' = fetched_without \cup (KindsOf(RefVersion) \ served)
  /\ opc' = AfterKindPath
  /\ UNCHANGED <<masterVars, owners, chain, failures>>

\* The query fails, or its answer cannot be read beyond some element: the
\* error is logged, and what was read is remembered for good.
KindPathFails ==
  /\ NeedsOwner
  /\ RefVersion \notin asked
  /\ failures < MaxFailures
  /\ failures' = failures + 1
  /\ asked' = asked \cup {RefVersion}
  /\ \E read \in SUBSET ServedKinds(RefVersion) : known' = known \cup read
  /\ opc' = AfterKindPath
  /\ UNCHANGED <<masterVars, fetched_without, owners, chain>>

--------------------------------------------------------------------------------
\* GetOwner: then QueryMaster by path, and the comparison of the uids.

\* The master has the object the reference names, and under its uid.
OwnerExists == actual[Ref.path] # Nothing /\ actual[Ref.path].uid = Ref.uid

\* The master answers for what is at the path, which is always a path in the
\* namespace of the pod: an object that has no namespace is not found there.
Answered == actual[Ref.path] # Nothing /\ RefKind \in Namespaced

\* A plausible bug: the uid of the answer is not compared.
OwnerFetchedUnchecked ==
  /\ opc = "query"
  /\ Answered
  /\ owners' = [owners EXCEPT ![RefKind][Ref.uid] = actual[Ref.path]]
  /\ chain' = Append(chain, actual[Ref.path])
  /\ opc' = "find"
  /\ UNCHANGED <<masterVars, asked, known, fetched_without, failures>>

OwnerFetched ==
  /\ opc = "query"
  /\ Answered /\ OwnerExists
  /\ owners' = [owners EXCEPT ![RefKind][Ref.uid] = actual[Ref.path]]
  /\ chain' = Append(chain, actual[Ref.path])
  /\ opc' = "find"
  /\ UNCHANGED <<masterVars, asked, known, fetched_without, failures>>

\* Not found (404), or an object that took the name: a QueryException.
OwnerGone ==
  /\ opc = "query"
  /\ ~(Answered /\ OwnerExists)
  /\ opc' = "failed"
  /\ UNCHANGED <<masterVars, asked, known, fetched_without, owners, chain,
                 failures>>

\* The query fails (QueryException), or its answer cannot be read
\* (json::Exception).
OwnerQueryFails ==
  /\ opc = "query"
  /\ failures < MaxFailures
  /\ failures' = failures + 1
  /\ opc' \in {"failed", "malformed"}
  /\ UNCHANGED <<masterVars, asked, known, fetched_without, owners, chain>>

FindTopLevelController ==
  \/ TopLevelFound \/ OwnerCached
  \/ KindPathKnown \/ KindPathQueried \/ KindPathFails
  \/ OwnerFetched \/ OwnerGone \/ OwnerQueryFails

\* The caller takes the result.
SearchDone ==
  /\ opc \in {"found", "failed", "malformed"}
  /\ opc' = "idle"
  /\ chain' = <<>>
  /\ UNCHANGED <<masterVars, asked, known, fetched_without, owners, failures>>

OwnerNext ==
  \/ Master
  \/ \E u \in PodUids, c \in PastRefs \cup {Nothing} :
       BeginSearch([uid |-> u, controller |-> c])
  \/ FindTopLevelController
  \/ SearchDone

\* A search keeps running.  That its queries end in an answer or an error is an
\* assumption on the master and the network: QueryMaster sets no timeout.
OwnerSpec == /\ OwnerInit /\ [][OwnerNext]_ownerVars
             /\ WF_ownerVars(FindTopLevelController)

--------------------------------------------------------------------------------
\* The types of the variables; a search has a chain, which begins with a pod.
OwnerTypeOK ==
  /\ served \subseteq Kinds
  /\ actual \in [Paths -> Objects \cup {Nothing}]
  /\ past \subseteq [path: Paths, object: Objects]
  /\ changes \in 0..MaxChanges
  /\ asked \subseteq Versions
  /\ known \subseteq Kinds
  /\ fetched_without \subseteq Kinds
  /\ owners \in [Kinds -> [Uids -> Objects \cup {Nothing}]]
  /\ opc \in {"idle", "find", "query", "found", "failed", "malformed", "terminated"}
  /\ chain \in Seq(Objects \cup Pods)
  /\ opc = "idle" <=> chain = <<>>
  /\ (opc = "query") => Ref # Nothing
  /\ failures \in 0..MaxFailures

\* Names are used again, uids are not.  The owners of a search are the objects
\* the references named, each as the master once had it, although the query is
\* by name and the master changes between queries and between searches.
ChainIsGenuine ==
  \A i \in 1..Len(chain) : i > 1 =>
    /\ chain[i - 1].controller # Nothing
    /\ chain[i].uid = chain[i - 1].controller.uid
    /\ [path |-> chain[i - 1].controller.path, object |-> chain[i]] \in past

\* A search in which no query ever failed ends without a controller only if the
\* owner it looked for is gone, has lost its name to another object, or lives in
\* no namespace.  It ends the process only for a kind that the list of its API
\* version lacked when it was fetched, however long ago: what is remembered of a
\* version is all that was served then.
FailureHasACause ==
  failures = 0 =>
    /\ opc = "terminated" => RefKind \in fetched_without
    /\ opc = "failed" => ~OwnerExists \/ RefKind \notin Namespaced

\* Every search ends: owners have higher ranks than what they own, and each is
\* looked up at most once in a search.
SearchEnds == opc \in {"find", "query"} ~> opc \notin {"find", "query"}
================================================================================
