------------------------------- MODULE PodProofs -------------------------------
(***************************************************************************)
(* What the pod and node threads of the Kubernetes updater find out and    *)
(* store.  The owners of a pod are the objects its references named, for   *)
(* any kinds, versions, paths and uids and any number of changes of the    *)
(* master (OwnerLookup).  Stored pods agree with their containers and ids  *)
(* resolve to what has them, for any events on pods and nodes (PodMetadata)*)
(***************************************************************************)
EXTENDS OwnerLookup, PodMetadata, MetadataStoreProofs, SequenceTheorems

--------------------------------------------------------------------------------
\* The inductive invariant of the search, by parts.

\* The past has what exists now, a uid never moves to another path, and
\* references lead to something that exists or once did.
PastInv ==
  /\ \A p \in Paths : actual[p] # Nothing => [path |-> p, object |-> actual[p]] \in past
  /\ \A x, y \in past : x.object.uid = y.object.uid => x.path = y.path
  /\ \A x \in past : x.object.controller # Nothing => x.object.controller \in PastRefs

\* A cached owner has the uid it is cached under and once existed.
CacheInv ==
  \A k \in Kinds, u \in Uids : owners[k][u] # Nothing =>
    /\ owners[k][u].uid = u
    /\ \E p \in Paths : [path |-> p, object |-> owners[k][u]] \in past

\* The reference the search is about to follow, or has failed at, leads to
\* something that exists or once did.
SearchInv ==
  /\ opc # "idle" /\ Ref # Nothing => Ref \in PastRefs
  /\ opc = "failed" => Ref # Nothing

\* Unless a query failed, the kinds of every version asked for are known, but for
\* those that were not served when it was asked for.
KnownInv ==
  failures = 0 => \A k \in Kinds : VersionOf[k] \in asked =>
                                      k \in known \cup fetched_without

OwnerInv ==
  /\ OwnerTypeOK
  /\ PastInv
  /\ CacheInv
  /\ SearchInv
  /\ KnownInv
  /\ ChainIsGenuine
  /\ FailureHasACause

\* The object at hand and its controller reference (kubernetes.cc:994-1038) are
\* well formed while a search runs.
LEMMA CurrentFacts ==
  ASSUME OwnerTypeOK, opc # "idle"
  PROVE  /\ Len(chain) \in Nat /\ Len(chain) >= 1
         /\ Current \in Objects \cup Pods
         /\ Ref \in Refs \cup {Nothing}
         /\ Ref # Nothing => /\ Ref.path \in Paths /\ Ref.uid \in Uids
                             /\ RefKind \in Kinds /\ RefVersion \in Versions
                             /\ CachedOwner \in Objects \cup {Nothing}
<1>1. chain \in Seq(Objects \cup Pods) /\ chain # <<>>
  BY DEF OwnerTypeOK
<1>2. Len(chain) \in Nat /\ Len(chain) >= 1 /\ Len(chain) \in 1..Len(chain)
  BY <1>1, EmptySeq
<1>3. Current \in Objects \cup Pods
  BY <1>1, <1>2 DEF Current
<1>4. Ref \in Refs \cup {Nothing}
  BY <1>3 DEF Ref, Objects, Pods
<1>5. ASSUME Ref # Nothing
      PROVE  /\ Ref.path \in Paths /\ Ref.uid \in Uids
             /\ RefKind \in Kinds /\ RefVersion \in Versions
             /\ CachedOwner \in Objects \cup {Nothing}
  <2>1. Ref.path \in Paths /\ Ref.uid \in Uids
    BY <1>4, <1>5 DEF Refs
  <2>2. RefKind \in Kinds
    BY <2>1, OwnerAssumption DEF RefKind
  <2>3. RefVersion \in Versions
    BY <2>2, OwnerAssumption DEF RefVersion
  <2>4. CachedOwner \in Objects \cup {Nothing}
    BY <2>1, <2>2 DEF CachedOwner, OwnerTypeOK
  <2> QED
    BY <2>1, <2>2, <2>3, <2>4
<1> QED
  BY <1>2, <1>3, <1>4, <1>5

--------------------------------------------------------------------------------
\* The master.

\* What may be put at a path: nothing, a new object, or the object that is
\* there with another controller.
Allowed(p, object) ==
  object # Nothing =>
    /\ object \in Objects
    /\ object.controller # Nothing => object.controller \in PastRefs
    /\ \/ \A x \in past : x.object.uid # object.uid
       \/ actual[p] # Nothing /\ actual[p].uid = object.uid

\* Every change of the master to its objects is of that kind.
LEMMA MasterChangesAreAllowed ==
  ASSUME OwnerInv, Master, ~\E kinds \in SUBSET Kinds : ServedChanges(kinds)
  PROVE  \E p \in Paths, object \in Objects \cup {Nothing} :
           Changed(p, object) /\ Allowed(p, object)
<1>0. OwnerTypeOK /\ PastInv
  BY DEF OwnerInv
<1>1. PICK p \in Paths :
        \/ \E u \in Uids, c \in RefsFor(KindOf[p]) \cup {Nothing} : Create(p, u, c)
        \/ Delete(p)
        \/ \E c \in RefsFor(KindOf[p]) \cup {Nothing} : Adopt(p, c)
  BY DEF Master
<1>2. ASSUME NEW c \in RefsFor(KindOf[p]) \cup {Nothing}
      PROVE  c \in Refs \cup {Nothing} /\ (c # Nothing => c \in PastRefs)
  <2>1. CASE c = Nothing
    BY <2>1
  <2>2. CASE c # Nothing
    <3>1. PICK q \in Paths : actual[q] # Nothing /\ c = [path |-> q, uid |-> actual[q].uid]
      BY <2>2 DEF RefsFor, Existing
    <3>2. actual[q].uid \in Uids
      BY <1>0, <3>1 DEF OwnerTypeOK, Objects
    <3>3. [path |-> q, object |-> actual[q]] \in past
      BY <1>0, <3>1 DEF PastInv
    <3>4. c \in PastRefs
      BY <3>1, <3>3 DEF PastRefs
    <3> QED
      BY <3>1, <3>2, <3>4 DEF Refs
  <2> QED
    BY <2>1, <2>2
<1>3. ASSUME NEW u \in Uids, NEW c \in RefsFor(KindOf[p]) \cup {Nothing}, Create(p, u, c)
      PROVE  \E object \in Objects \cup {Nothing} :
               Changed(p, object) /\ Allowed(p, object)
  <2> DEFINE o == [uid |-> u, controller |-> c]
  <2>1. o \in Objects /\ o.uid = u /\ o.controller = c
    BY <1>2 DEF Objects
  <2>2. Changed(p, o) /\ \A x \in past : x.object.uid # u
    BY <1>3 DEF Create
  <2> HIDE DEF o
  <2>3. Allowed(p, o)
    BY <1>2, <2>1, <2>2 DEF Allowed
  <2> QED
    BY <2>1, <2>2, <2>3
<1>4. ASSUME Delete(p)
      PROVE  Changed(p, Nothing) /\ Allowed(p, Nothing)
  BY <1>4 DEF Delete, Allowed
<1>5. ASSUME NEW c \in RefsFor(KindOf[p]) \cup {Nothing}, Adopt(p, c)
      PROVE  \E object \in Objects \cup {Nothing} :
               Changed(p, object) /\ Allowed(p, object)
  <2> DEFINE o == [actual[p] EXCEPT !.controller = c]
  <2>1. actual[p] # Nothing /\ actual[p] \in Objects /\ Changed(p, o)
    BY <1>0, <1>5 DEF Adopt, OwnerTypeOK
  <2>2. o \in Objects /\ o.uid = actual[p].uid /\ o.controller = c
    BY <1>2, <2>1 DEF Objects
  <2> HIDE DEF o
  <2>3. Allowed(p, o)
    BY <1>2, <2>1, <2>2 DEF Allowed
  <2> QED
    BY <2>1, <2>2, <2>3
<1> QED
  BY <1>1, <1>3, <1>4, <1>5

\* The past only grows, keeps each uid at its path, and an object that is gone
\* from its path does not come back.
LEMMA ChangedFacts ==
  ASSUME OwnerInv, NEW p \in Paths, NEW object \in Objects \cup {Nothing},
         Changed(p, object), Allowed(p, object)
  PROVE  /\ actual' \in [Paths -> Objects \cup {Nothing}]
         /\ past \subseteq past' /\ past' \subseteq [path: Paths, object: Objects]
         /\ changes' \in 0..MaxChanges
         /\ PastRefs \subseteq PastRefs'
         /\ PastInv'
         /\ \A r \in PastRefs :
              actual'[r.path] # Nothing /\ actual'[r.path].uid = r.uid =>
                actual[r.path] # Nothing /\ actual[r.path].uid = r.uid
<1> DEFINE entry == [path |-> p, object |-> object]
<1>0. OwnerTypeOK /\ PastInv
  BY DEF OwnerInv
<1>1. /\ actual' = [actual EXCEPT ![p] = object]
      /\ past' = past \cup {[path |-> q, object |-> actual'[q]] :
                              q \in {r \in Paths : actual'[r] # Nothing}}
      /\ changes < MaxChanges /\ changes' = changes + 1
  BY DEF Changed
<1>2. /\ actual' \in [Paths -> Objects \cup {Nothing}]
      /\ actual'[p] = object
      /\ \A q \in Paths : q # p => actual'[q] = actual[q]
  BY <1>0, <1>1 DEF OwnerTypeOK
<1>3. changes' \in 0..MaxChanges
  BY <1>0, <1>1, OwnerAssumption DEF OwnerTypeOK
<1>4. \A q \in Paths : actual'[q] # Nothing => [path |-> q, object |-> actual'[q]] \in past'
  BY <1>1
<1>5. ASSUME NEW x \in past'
      PROVE  x \in past \/ (object # Nothing /\ x = entry)
  <2>1. CASE x \in past
    BY <2>1
  <2>2. CASE x \notin past
    <3>1. PICK q \in Paths : actual'[q] # Nothing /\ x = [path |-> q, object |-> actual'[q]]
      BY <1>1, <2>2
    <3>2. CASE q = p
      BY <1>2, <3>1, <3>2
    <3>3. CASE q # p
      BY <1>0, <1>2, <2>2, <3>1, <3>3 DEF PastInv
    <3> QED
      BY <3>2, <3>3
  <2> QED
    BY <2>1, <2>2
<1>6. past \subseteq past'
  BY <1>1
<1>7. past' \subseteq [path: Paths, object: Objects]
  <2>1. object # Nothing => entry \in [path: Paths, object: Objects]
    OBVIOUS
  <2> QED
    BY <1>0, <1>5, <2>1 DEF OwnerTypeOK
<1>8. PastRefs \subseteq PastRefs'
  BY <1>6 DEF PastRefs
<1>9. entry.path = p /\ entry.object = object
  OBVIOUS
<1> HIDE DEF entry
<1>10. ASSUME object # Nothing, NEW x \in past, x.object.uid = object.uid
       PROVE  x.path = p
  <2>1. actual[p] # Nothing /\ actual[p].uid = object.uid
    BY <1>10 DEF Allowed
  <2> DEFINE y == [path |-> p, object |-> actual[p]]
  <2>2. y \in past /\ y.path = p /\ y.object = actual[p]
    BY <1>0, <2>1 DEF PastInv
  <2> HIDE DEF y
  <2> QED
    BY <1>0, <1>10, <2>1, <2>2 DEF PastInv
<1>11. ASSUME NEW x \in past', NEW y \in past', x.object.uid = y.object.uid
       PROVE  x.path = y.path
  BY <1>0, <1>5, <1>9, <1>10, <1>11 DEF PastInv
<1>12. ASSUME NEW x \in past', x.object.controller # Nothing
       PROVE  x.object.controller \in PastRefs'
  BY <1>0, <1>5, <1>8, <1>9, <1>12 DEF PastInv, Allowed
<1>13. PastInv'
  BY <1>4, <1>11, <1>12 DEF PastInv
<1>14. ASSUME NEW r \in PastRefs, actual'[r.path] # Nothing, actual'[r.path].uid = r.uid
       PROVE  actual[r.path] # Nothing /\ actual[r.path].uid = r.uid
  <2>1. PICK x \in past : r = [path |-> x.path, uid |-> x.object.uid]
    BY DEF PastRefs
  <2>2. r.path = x.path /\ r.uid = x.object.uid /\ x.path \in Paths
    BY <1>0, <2>1 DEF OwnerTypeOK
  <2>3. CASE r.path = p
    BY <1>2, <1>14, <2>2, <2>3 DEF Allowed
  <2>4. CASE r.path # p
    BY <1>2, <1>14, <2>2, <2>4
  <2> QED
    BY <2>3, <2>4
<1> QED
  BY <1>2, <1>3, <1>6, <1>7, <1>8, <1>13, <1>14

\* Between two queries of a search the master may change at will.
LEMMA MasterStep ==
  ASSUME OwnerInv, Master
  PROVE  OwnerInv'
<1>0. /\ OwnerTypeOK /\ CacheInv /\ SearchInv /\ KnownInv
      /\ ChainIsGenuine /\ FailureHasACause
  BY DEF OwnerInv
<1>2. /\ served' \subseteq Kinds
      /\ actual' \in [Paths -> Objects \cup {Nothing}]
      /\ past \subseteq past' /\ past' \subseteq [path: Paths, object: Objects]
      /\ changes' \in 0..MaxChanges
      /\ PastRefs \subseteq PastRefs'
      /\ PastInv'
      /\ \A r \in PastRefs :
           actual'[r.path] # Nothing /\ actual'[r.path].uid = r.uid =>
             actual[r.path] # Nothing /\ actual[r.path].uid = r.uid
  <2>1. CASE \E kinds \in SUBSET Kinds : ServedChanges(kinds)
    <3>1. /\ served' \subseteq Kinds /\ UNCHANGED <<actual, past>>
          /\ changes < MaxChanges /\ changes' = changes + 1
      BY <2>1 DEF ServedChanges
    <3>2. changes' \in 0..MaxChanges
      BY <1>0, <3>1, OwnerAssumption DEF OwnerTypeOK
    <3>3. PastRefs' = PastRefs /\ PastInv'
      BY <3>1 DEF OwnerInv, PastInv, PastRefs
    <3> QED
      BY <1>0, <3>1, <3>2, <3>3 DEF OwnerTypeOK
  <2>2. CASE ~\E kinds \in SUBSET Kinds : ServedChanges(kinds)
    <3>1. PICK p \in Paths, object \in Objects \cup {Nothing} :
            Changed(p, object) /\ Allowed(p, object)
      BY <2>2, MasterChangesAreAllowed
    <3>2. served' \subseteq Kinds
      BY <1>0, <3>1 DEF Changed, OwnerTypeOK
    <3> QED
      BY <3>1, <3>2, ChangedFacts
  <2> QED
    BY <2>1, <2>2
<1>3. UNCHANGED <<asked, known, fetched_without, owners, opc, chain, failures>>
  BY DEF Master, lookupVars
<1>4. Ref' = Ref /\ RefKind' = RefKind
  BY <1>3 DEF RefKind, Ref, Current
<1>5. OwnerTypeOK'
  BY <1>0, <1>2, <1>3, <1>4 DEF OwnerTypeOK
<1>6. CacheInv'
  BY <1>0, <1>2, <1>3 DEF CacheInv
<1>7. SearchInv'
  BY <1>0, <1>2, <1>3, <1>4 DEF SearchInv
<1>8. KnownInv'
  BY <1>0, <1>3 DEF KnownInv
<1>9. ChainIsGenuine'
  BY <1>0, <1>2, <1>3 DEF ChainIsGenuine
<1>10. FailureHasACause'
  <2> SUFFICES ASSUME failures = 0
               PROVE  /\ opc = "terminated" => RefKind \in fetched_without
                      /\ opc = "failed" => ~OwnerExists' \/ RefKind \notin Namespaced
    BY <1>3, <1>4 DEF FailureHasACause
  <2>1. opc = "terminated" => RefKind \in fetched_without
    BY <1>0 DEF FailureHasACause
  <2>2. ASSUME opc = "failed", RefKind \in Namespaced
        PROVE  ~OwnerExists'
    <3>1. Ref \in PastRefs
      BY <1>0, <2>2 DEF SearchInv
    <3>2. ~OwnerExists
      BY <1>0, <2>2 DEF FailureHasACause
    <3> QED
      BY <1>2, <1>4, <3>1, <3>2 DEF OwnerExists
  <2> QED
    BY <2>1, <2>2
<1> QED
  BY <1>2, <1>5, <1>6, <1>7, <1>8, <1>9, <1>10 DEF OwnerInv

--------------------------------------------------------------------------------
\* The search.

\* What a step of the search leaves alone: the master's objects, and the
\* reference at hand unless the step moves to another object.
LEMMA SearchFrame ==
  ASSUME OwnerInv, UNCHANGED masterVars
  PROVE  /\ PastInv' /\ PastRefs' = PastRefs
         /\ UNCHANGED chain => /\ ChainIsGenuine' /\ Ref' = Ref /\ RefKind' = RefKind
                               /\ RefVersion' = RefVersion
                               /\ OwnerExists' = OwnerExists
         /\ UNCHANGED owners => CacheInv'
         /\ UNCHANGED <<asked, known, fetched_without, failures>> => KnownInv'
<1>1. UNCHANGED <<served, actual, past, changes>>
  BY DEF masterVars
<1>2. PastRefs' = PastRefs /\ PastInv'
  BY <1>1 DEF OwnerInv, PastInv, PastRefs
<1>3. UNCHANGED chain => /\ ChainIsGenuine' /\ Ref' = Ref /\ RefKind' = RefKind
                         /\ RefVersion' = RefVersion
                         /\ OwnerExists' = OwnerExists
  BY <1>1 DEF OwnerInv, ChainIsGenuine, OwnerExists, RefVersion, RefKind, Ref, Current
<1>4. UNCHANGED owners => CacheInv'
  BY <1>1 DEF OwnerInv, CacheInv
<1>5. UNCHANGED <<asked, known, fetched_without, failures>> => KnownInv'
  BY DEF OwnerInv, KnownInv
<1> QED
  BY <1>2, <1>3, <1>4, <1>5

\* FindTopLevelController (kubernetes.cc:994) is called with a pod.
LEMMA BeginSearchStep ==
  ASSUME OwnerInv, NEW u \in PodUids, NEW c \in PastRefs \cup {Nothing},
         BeginSearch([uid |-> u, controller |-> c])
  PROVE  OwnerInv'
<1> DEFINE pod == [uid |-> u, controller |-> c]
<1>0. OwnerTypeOK
  BY DEF OwnerInv
<1>1. /\ opc = "idle" /\ opc' = "find" /\ chain' = <<pod>>
      /\ UNCHANGED <<masterVars, asked, known, fetched_without, owners, failures>>
  BY DEF BeginSearch
<1>2. c \in Refs \cup {Nothing}
  <2>1. CASE c \in PastRefs
    <3>1. PICK x \in past : c = [path |-> x.path, uid |-> x.object.uid]
      BY <2>1 DEF PastRefs
    <3>2. x.path \in Paths /\ x.object.uid \in Uids
      BY <1>0 DEF OwnerTypeOK, Objects
    <3> QED
      BY <3>1, <3>2 DEF Refs
  <2> QED
    BY <2>1
<1>3. pod \in Objects \cup Pods /\ pod.controller = c
  BY <1>2 DEF Pods
<1> HIDE DEF pod
<1>4. chain' \in Seq(Objects \cup Pods) /\ Len(chain') = 1 /\ chain'[1] = pod
      /\ chain' # <<>>
  BY <1>1, <1>3
<1>5. Ref' = c
  BY <1>3, <1>4 DEF Ref, Current
<1>6. PastInv' /\ CacheInv' /\ KnownInv' /\ PastRefs' = PastRefs
  BY <1>1, SearchFrame
<1>7. OwnerTypeOK'
  BY <1>0, <1>1, <1>4 DEF OwnerTypeOK, masterVars
<1>8. SearchInv'
  BY <1>1, <1>5, <1>6 DEF SearchInv
<1>9. ChainIsGenuine'
  BY <1>4 DEF ChainIsGenuine
<1>10. FailureHasACause'
  BY <1>1 DEF FailureHasACause
<1> QED
  BY <1>6, <1>7, <1>8, <1>9, <1>10 DEF OwnerInv

\* An owner that has the uid of the reference, and that the master has had at
\* the path of the reference, extends the chain (kubernetes.cc:1038).
LEMMA ExtendedChain ==
  ASSUME OwnerInv, UNCHANGED masterVars, opc # "idle", Ref # Nothing,
         NEW o \in Objects, o.uid = Ref.uid,
         [path |-> Ref.path, object |-> o] \in past,
         chain' = Append(chain, o)
  PROVE  /\ chain' \in Seq(Objects \cup Pods) /\ chain' # <<>>
         /\ ChainIsGenuine'
         /\ Ref' # Nothing => Ref' \in PastRefs'
<1> DEFINE n == Len(chain)
           entry == [path |-> Ref.path, object |-> o]
<1>0. OwnerTypeOK /\ PastInv /\ ChainIsGenuine
  BY DEF OwnerInv
<1>1. chain \in Seq(Objects \cup Pods) /\ n \in Nat /\ n >= 1
  BY <1>0, CurrentFacts DEF OwnerTypeOK
<1>2. /\ chain' \in Seq(Objects \cup Pods)
      /\ Len(chain') = n + 1 /\ chain'[n + 1] = o
      /\ \A j \in 1..n : chain'[j] = chain[j]
  BY <1>1, AppendProperties
<1>3. entry.path = Ref.path /\ entry.object = o /\ entry \in past
  OBVIOUS
<1>4. chain[n].controller = Ref
  BY DEF Ref, Current
<1>5. past' = past
  BY DEF masterVars
<1> HIDE DEF n
<1>6. chain' # <<>>
  BY <1>1, <1>2, EmptySeq
<1>7. ASSUME NEW j \in 1..Len(chain'), j > 1
      PROVE  /\ chain'[j - 1].controller # Nothing
             /\ chain'[j].uid = chain'[j - 1].controller.uid
             /\ [path |-> chain'[j - 1].controller.path, object |-> chain'[j]] \in past
  <2>1. j = n + 1 \/ (j \in 1..n /\ j - 1 \in 1..n)
    BY <1>1, <1>2, <1>7
  <2>2. CASE j = n + 1
    <3>1. chain'[j] = o /\ j - 1 = n /\ n \in 1..n
      BY <1>1, <1>2, <2>2
    <3>2. chain'[j - 1] = chain[n]
      BY <1>2, <3>1
    <3> QED
      BY <1>4, <3>1, <3>2
  <2>3. CASE j \in 1..n /\ j - 1 \in 1..n
    <3>1. chain'[j] = chain[j] /\ chain'[j - 1] = chain[j - 1]
      BY <1>2, <2>3
    <3> QED
      BY <1>0, <1>7, <2>3, <3>1 DEF ChainIsGenuine, n
  <2> QED
    BY <2>1, <2>2, <2>3
<1>8. ChainIsGenuine'
  BY <1>5, <1>7 DEF ChainIsGenuine
<1>9. Ref' = o.controller
  BY <1>1, <1>2 DEF Ref, Current
<1>10. Ref' # Nothing => Ref' \in PastRefs
  BY <1>0, <1>3, <1>9 DEF PastInv
<1>11. PastRefs' = PastRefs
  BY SearchFrame
<1> QED
  BY <1>2, <1>6, <1>8, <1>10, <1>11

\* GetOwner finds the owner in its cache (kubernetes.cc:949), where it was put
\* under its uid: since a uid never changes its path, it is the object that the
\* reference names, although the cache is by kind and uid.
LEMMA OwnerCachedStep ==
  ASSUME OwnerInv, OwnerCached
  PROVE  OwnerInv'
<1>0. OwnerTypeOK /\ PastInv /\ CacheInv /\ SearchInv
  BY DEF OwnerInv
<1>1. /\ opc = "find" /\ Ref # Nothing /\ CachedOwner # Nothing
      /\ chain' = Append(chain, CachedOwner)
      /\ UNCHANGED <<masterVars, asked, known, fetched_without, owners, opc,
                     failures>>
  BY DEF OwnerCached
<1>2. /\ Ref.path \in Paths /\ Ref.uid \in Uids /\ RefKind \in Kinds
      /\ CachedOwner \in Objects
  BY <1>0, <1>1, CurrentFacts
<1>3. CachedOwner.uid = Ref.uid
  BY <1>0, <1>1, <1>2 DEF CacheInv, CachedOwner
<1>4. PICK q \in Paths : [path |-> q, object |-> CachedOwner] \in past
  BY <1>0, <1>1, <1>2 DEF CacheInv, CachedOwner
<1>5. PICK x \in past : Ref = [path |-> x.path, uid |-> x.object.uid]
  BY <1>0, <1>1 DEF SearchInv, PastRefs
<1>6. q = Ref.path
  <2> DEFINE y == [path |-> q, object |-> CachedOwner]
  <2>1. y \in past /\ y.path = q /\ y.object = CachedOwner
    BY <1>4
  <2>2. Ref.path = x.path /\ Ref.uid = x.object.uid
    BY <1>5
  <2> HIDE DEF y
  <2> QED
    BY <1>0, <1>3, <2>1, <2>2 DEF PastInv
<1>7. /\ chain' \in Seq(Objects \cup Pods) /\ chain' # <<>>
      /\ ChainIsGenuine'
      /\ Ref' # Nothing => Ref' \in PastRefs'
  BY <1>1, <1>2, <1>3, <1>4, <1>6, ExtendedChain
<1>8. PastInv' /\ CacheInv' /\ KnownInv'
  BY <1>1, SearchFrame
<1>9. OwnerTypeOK' /\ SearchInv' /\ FailureHasACause'
  BY <1>0, <1>1, <1>7 DEF OwnerTypeOK, masterVars, SearchInv, FailureHasACause
<1> QED
  BY <1>7, <1>8, <1>9 DEF OwnerInv

\* GetOwner fetches the owner by path and compares the uids (kubernetes.cc:949).
LEMMA OwnerFetchedStep ==
  ASSUME OwnerInv, OwnerFetched
  PROVE  OwnerInv'
<1> DEFINE o == actual[Ref.path]
<1>0. OwnerTypeOK /\ PastInv /\ CacheInv /\ SearchInv
  BY DEF OwnerInv
<1>1. /\ opc = "query" /\ o # Nothing /\ o.uid = Ref.uid
      /\ owners' = [owners EXCEPT ![RefKind] = [owners[RefKind] EXCEPT ![Ref.uid] = o]]
      /\ chain' = Append(chain, o) /\ opc' = "find"
      /\ UNCHANGED <<masterVars, asked, known, fetched_without, failures>>
  BY DEF OwnerFetched, OwnerExists
<1>2. Ref # Nothing /\ Ref.path \in Paths /\ Ref.uid \in Uids /\ RefKind \in Kinds
  BY <1>0, <1>1, CurrentFacts DEF OwnerTypeOK
<1>3. o \in Objects /\ [path |-> Ref.path, object |-> o] \in past
  BY <1>0, <1>1, <1>2 DEF OwnerTypeOK, PastInv
<1> HIDE DEF o
<1>4. /\ chain' \in Seq(Objects \cup Pods) /\ chain' # <<>>
      /\ ChainIsGenuine'
      /\ Ref' # Nothing => Ref' \in PastRefs'
  BY <1>1, <1>2, <1>3, ExtendedChain
<1>5. PastInv' /\ KnownInv' /\ past' = past
  BY <1>1, SearchFrame DEF masterVars
<1>6. /\ owners' \in [Kinds -> [Uids -> Objects \cup {Nothing}]]
      /\ \A k \in Kinds, u \in Uids :
           owners'[k][u] = IF k = RefKind /\ u = Ref.uid THEN o ELSE owners[k][u]
  <2>1. owners \in [Kinds -> [Uids -> Objects \cup {Nothing}]]
    BY <1>0 DEF OwnerTypeOK
  <2>2. owners[RefKind] \in [Uids -> Objects \cup {Nothing}]
    BY <1>2, <2>1
  <2> QED
    BY <1>1, <1>2, <1>3, <2>1, <2>2
<1>7. CacheInv'
  <2> SUFFICES ASSUME NEW k \in Kinds, NEW u \in Uids, owners'[k][u] # Nothing
               PROVE  /\ owners'[k][u].uid = u
                      /\ \E q \in Paths : [path |-> q, object |-> owners'[k][u]] \in past
    BY <1>5 DEF CacheInv
  <2>1. CASE k = RefKind /\ u = Ref.uid
    BY <1>1, <1>2, <1>3, <1>6, <2>1
  <2>2. CASE ~(k = RefKind /\ u = Ref.uid)
    BY <1>0, <1>6, <2>2 DEF CacheInv
  <2> QED
    BY <2>1, <2>2
<1>8. OwnerTypeOK'
  BY <1>0, <1>1, <1>4, <1>6 DEF OwnerTypeOK, masterVars
<1>9. SearchInv' /\ FailureHasACause'
  BY <1>1, <1>4 DEF SearchInv, FailureHasACause
<1> QED
  BY <1>4, <1>5, <1>7, <1>8, <1>9 DEF OwnerInv

\* KindPath (kubernetes.cc:905) knows every kind that a version it asked for served
\* then, so that unless a query failed it finds the kind at hand or it was not
\* served.
LEMMA KindPathStep ==
  ASSUME OwnerInv, KindPathKnown \/ KindPathQueried \/ KindPathFails
  PROVE  OwnerInv'
<1>0. OwnerTypeOK /\ SearchInv /\ KnownInv
  BY DEF OwnerInv
<1>1. /\ opc = "find" /\ Ref # Nothing
      /\ opc' = AfterKindPath
      /\ UNCHANGED <<masterVars, owners, chain>>
  BY DEF KindPathKnown, KindPathQueried, KindPathFails, NeedsOwner
<1>2. RefKind \in Kinds /\ RefVersion \in Versions
  BY <1>0, <1>1, CurrentFacts
<1>3. /\ asked' \subseteq Versions /\ known' \subseteq Kinds
      /\ fetched_without' \subseteq Kinds
      /\ failures' \in 0..MaxFailures
      /\ failures' = 0 =>
           /\ failures = 0
           /\ \/ /\ UNCHANGED <<asked, known, fetched_without>>
                 /\ RefVersion \in asked
              \/ /\ asked' = asked \cup {RefVersion}
                 /\ known' = known \cup ServedKinds(RefVersion)
                 /\ fetched_without' = fetched_without
                                         \cup (KindsOf(RefVersion) \ served)
  <2>1. /\ asked \subseteq Versions /\ known \subseteq Kinds
        /\ fetched_without \subseteq Kinds
        /\ failures \in 0..MaxFailures
        /\ ServedKinds(RefVersion) \subseteq Kinds /\ KindsOf(RefVersion) \subseteq Kinds
    BY <1>0 DEF OwnerTypeOK, ServedKinds, KindsOf
  <2>2. CASE KindPathKnown
    BY <2>1, <2>2 DEF KindPathKnown
  <2>3. CASE KindPathQueried
    BY <1>2, <2>1, <2>3 DEF KindPathQueried
  <2>4. CASE KindPathFails
    <3>1. failures < MaxFailures /\ failures' = failures + 1
      BY <2>4 DEF KindPathFails
    <3>2. failures' \in 0..MaxFailures /\ failures' # 0
      BY <2>1, <3>1, OwnerAssumption
    <3>3. /\ asked' \subseteq Versions /\ known' \subseteq Kinds
          /\ fetched_without' \subseteq Kinds
      BY <1>2, <2>1, <2>4 DEF KindPathFails
    <3> QED
      BY <3>2, <3>3
  <2> QED
    BY <2>2, <2>3, <2>4
<1>4. /\ PastInv' /\ PastRefs' = PastRefs /\ CacheInv' /\ ChainIsGenuine'
      /\ Ref' = Ref /\ RefKind' = RefKind
  BY <1>1, SearchFrame
<1>5. opc' \in {"query", "terminated"} /\ (RefKind \in known' => opc' = "query")
  BY <1>1 DEF AfterKindPath
<1>6. OwnerTypeOK'
  BY <1>0, <1>1, <1>3, <1>4, <1>5 DEF OwnerTypeOK, masterVars
<1>7. SearchInv'
  BY <1>0, <1>1, <1>4, <1>5 DEF SearchInv
<1>8. KnownInv'
  BY <1>0, <1>3 DEF KnownInv, ServedKinds, KindsOf
<1>9. FailureHasACause'
  <2> SUFFICES ASSUME failures' = 0
               PROVE  opc' = "query" \/ RefKind \in fetched_without'
    BY <1>4, <1>5 DEF FailureHasACause
  <2>1. VersionOf[RefKind] = RefVersion
    BY DEF RefVersion
  <2>2. RefVersion \in asked'
    BY <1>3
  <2>3. RefKind \in known' \cup fetched_without'
    BY <1>2, <1>8, <2>1, <2>2 DEF KnownInv
  <2> QED
    BY <1>5, <2>3
<1> QED
  BY <1>4, <1>6, <1>7, <1>8, <1>9 DEF OwnerInv

\* The search ends, with or without a controller, and its result is taken.
LEMMA EndingStep ==
  ASSUME OwnerInv, TopLevelFound \/ OwnerGone \/ OwnerQueryFails \/ SearchDone
  PROVE  OwnerInv'
<1>0. OwnerTypeOK /\ SearchInv
  BY DEF OwnerInv
<1>1. UNCHANGED <<masterVars, asked, known, fetched_without, owners>>
  BY DEF TopLevelFound, OwnerGone, OwnerQueryFails, SearchDone
<1>2. PastInv' /\ PastRefs' = PastRefs /\ CacheInv'
  BY <1>1, SearchFrame
<1>3. CASE SearchDone
  <2>1. opc' = "idle" /\ chain' = <<>> /\ UNCHANGED failures
    BY <1>3 DEF SearchDone
  <2>2. KnownInv'
    BY <1>1, <2>1, SearchFrame
  <2>3. ChainIsGenuine'
    BY <2>1 DEF ChainIsGenuine
  <2>4. OwnerTypeOK' /\ SearchInv' /\ FailureHasACause'
    BY <1>0, <1>1, <2>1 DEF OwnerTypeOK, SearchInv, FailureHasACause, masterVars
  <2> QED
    BY <1>2, <2>2, <2>3, <2>4 DEF OwnerInv
<1>4. CASE TopLevelFound \/ OwnerGone \/ OwnerQueryFails
  <2>1. /\ UNCHANGED chain /\ opc # "idle" /\ opc' # "idle"
        /\ opc' \in {"found", "failed", "malformed"}
    BY <1>4 DEF TopLevelFound, OwnerGone, OwnerQueryFails
  <2>2. /\ ChainIsGenuine' /\ Ref' = Ref /\ RefKind' = RefKind
        /\ OwnerExists' = OwnerExists
    BY <1>1, <2>1, SearchFrame
  <2>3. opc' = "failed" => Ref # Nothing
    BY <1>0, <1>4 DEF OwnerTypeOK, TopLevelFound, OwnerGone, OwnerQueryFails
  <2>4. /\ failures' \in 0..MaxFailures
        /\ failures' = 0 => /\ failures = 0
                            /\ opc' = "failed" => ~OwnerExists \/ RefKind \notin Namespaced
    <3>1. CASE TopLevelFound \/ OwnerGone
      BY <1>0, <3>1 DEF TopLevelFound, OwnerGone, Answered, OwnerExists, OwnerTypeOK
    <3>2. CASE OwnerQueryFails
      <4>1. /\ failures \in 0..MaxFailures /\ failures < MaxFailures
            /\ failures' = failures + 1
        BY <1>0, <3>2 DEF OwnerQueryFails, OwnerTypeOK
      <4> QED
        BY <4>1, OwnerAssumption
    <3> QED
      BY <1>4, <3>1, <3>2
  <2>5. KnownInv'
    BY <1>1, <2>4 DEF OwnerInv, KnownInv
  <2>6. OwnerTypeOK'
    BY <1>0, <1>1, <2>1, <2>2, <2>4 DEF OwnerTypeOK, masterVars
  <2>7. SearchInv' /\ FailureHasACause'
    BY <1>0, <1>2, <2>1, <2>2, <2>3, <2>4 DEF SearchInv, FailureHasACause
  <2> QED
    BY <1>2, <2>2, <2>5, <2>6, <2>7 DEF OwnerInv
<1> QED
  BY <1>3, <1>4

--------------------------------------------------------------------------------
\* The theorems on the search for owners.

\* The invariant holds at the start and is kept by the master and by the search.
THEOREM OwnerInvariant == OwnerSpec => []OwnerInv
<1>1. ASSUME OwnerInit
      PROVE  OwnerInv
  <2>1. OwnerTypeOK
    BY <1>1, OwnerAssumption DEF OwnerInit, OwnerTypeOK
  <2>2. PastInv /\ CacheInv /\ SearchInv /\ KnownInv /\ FailureHasACause
    BY <1>1 DEF OwnerInit, PastInv, CacheInv, SearchInv, KnownInv, FailureHasACause
  <2>3. ChainIsGenuine
    BY <1>1 DEF OwnerInit, ChainIsGenuine
  <2> QED
    BY <2>1, <2>2, <2>3 DEF OwnerInv
<1>2. ASSUME OwnerInv, [OwnerNext]_ownerVars
      PROVE  OwnerInv'
  <2>1. CASE Master
    BY <1>2, <2>1, MasterStep
  <2>2. ASSUME NEW u \in PodUids, NEW c \in PastRefs \cup {Nothing},
               BeginSearch([uid |-> u, controller |-> c])
        PROVE  OwnerInv'
    BY <1>2, <2>2, BeginSearchStep
  <2>3. CASE FindTopLevelController
    BY <1>2, <2>3, OwnerCachedStep, OwnerFetchedStep, KindPathStep, EndingStep
       DEF FindTopLevelController
  <2>4. CASE SearchDone
    BY <1>2, <2>4, EndingStep
  <2>5. CASE UNCHANGED ownerVars
    <3>1. UNCHANGED <<masterVars, asked, known, fetched_without, owners, opc, chain,
                      failures>>
      BY <2>5 DEF ownerVars, lookupVars
    <3>2. /\ PastInv' /\ PastRefs' = PastRefs /\ ChainIsGenuine' /\ Ref' = Ref
          /\ RefKind' = RefKind /\ OwnerExists' = OwnerExists /\ CacheInv' /\ KnownInv'
      BY <1>2, <3>1, SearchFrame
    <3>3. OwnerTypeOK'
      BY <1>2, <3>1, <3>2 DEF OwnerInv, OwnerTypeOK, masterVars
    <3>4. SearchInv' /\ FailureHasACause'
      BY <1>2, <3>1, <3>2 DEF OwnerInv, SearchInv, FailureHasACause
    <3> QED
      BY <3>2, <3>3, <3>4 DEF OwnerInv
  <2> QED
    BY <1>2, <2>1, <2>2, <2>3, <2>4, <2>5 DEF OwnerNext
<1> QED
  BY <1>1, <1>2, PTL DEF OwnerSpec

\* The variables of the search always have their types: GetOwner
\* (kubernetes.cc:949) is never without a reference.
THEOREM OwnerTypeCorrect == OwnerSpec => []OwnerTypeOK
<1>1. OwnerInv => OwnerTypeOK
  BY DEF OwnerInv
<1> QED
  BY <1>1, OwnerInvariant, PTL

\* Although GetOwner (kubernetes.cc:949) queries by name and caches across
\* searches, the owners FindTopLevelController follows are the objects the
\* references named.
THEOREM OwnersAreGenuine == OwnerSpec => []ChainIsGenuine
<1>1. OwnerInv => ChainIsGenuine
  BY DEF OwnerInv
<1> QED
  BY <1>1, OwnerInvariant, PTL

\* Without failed queries, a search fails only for an owner that is gone or has no
\* namespace (kubernetes.cc:973-975), and KindPath (kubernetes.cc:905) throws what
\* GetOwner may not throw only for a kind its list lacked when it was fetched.
THEOREM FailuresHaveACause == OwnerSpec => []FailureHasACause
<1>1. OwnerInv => FailureHasACause
  BY DEF OwnerInv
<1> QED
  BY <1>1, OwnerInvariant, PTL

--------------------------------------------------------------------------------
\* The inductive invariant of pod and node metadata (PodMetadata), by parts.

\* The resources of the containers of a pod.
Containers(e) ==
  {ContainerResource(e, e.containers[j]) : j \in 1..Len(e.containers)}

\* The ids and the resource of one of the results of an event.
Describes(e, ids, r) ==
  \/ e \in PodEvents /\ r = PodResource(e) /\ ids = PodIds(e)
  \/ /\ e \in PodEvents
     /\ \E j \in 1..Len(e.containers) :
          /\ r = ContainerResource(e, e.containers[j])
          /\ ids = ContainerIds(e, e.containers[j])
  \/ e \in NodeEvents /\ r = NodeResource(e) /\ ids = NodeIds(e)

\* An entry is in the map, or was purged as deleted.
HoldsIn(map, entry, r) == map[r] = entry \/ (entry.is_deleted /\ map[r] = None)

\* Every stored pod but the one named agrees with its containers.
AgreeBut(map, pod) ==
  \A r \in Resources :
    map[r] # None /\ TypeOf[r] = "k8s_pod" /\ r # pod =>
      \A c \in Containers(map[r].metadata.event) : HoldsIn(map, map[r], c)

\* The results of a watch thread are those of some event.
ResultInv ==
  \A w \in Watches : wpc[w] # "idle" =>
    \A j \in 1..Len(results[w]) :
      LET result == results[w][j]
      IN /\ result.metadata.ignore = FALSE
         /\ Describes(result.metadata.metadata.event, result.ids, result.resource)
         /\ w = "nodes" => TypeOf[result.resource] = "k8s_node"

\* An id resolves to a resource that has this id.
ResolveInv ==
  \A id \in Ids : resource_map[id] # None =>
    \E e \in Events, ids \in SUBSET Ids :
      id \in ids /\ Describes(e, ids, resource_map[id])

\* Ids are registered before the entry is stored, for the result at hand ...
RegisteredInv ==
  \A w \in Watches : wpc[w] = "update_metadata" =>
    LET result == results[w][next[w]]
    IN \A id \in result.ids : resource_map[id] = result.resource

\* ... and so for every entry.
EntryInv ==
  \A r \in Resources : metadata_map[r] # None =>
    \E ids \in SUBSET Ids :
      /\ Describes(metadata_map[r].metadata.event, ids, r)
      /\ \A id \in ids : resource_map[id] = r

\* The results of a pod: its containers and then the pod, with one entry.
Made(vector, e, entry) ==
  /\ entry.metadata.event = e
  /\ Len(vector) = Len(e.containers) + 1
  /\ \A j \in 1..Len(e.containers) :
       /\ vector[j].metadata = entry
       /\ vector[j].resource = ContainerResource(e, e.containers[j])
  /\ vector[Len(e.containers) + 1].metadata = entry
  /\ vector[Len(e.containers) + 1].resource = PodResource(e)

\* While they are stored, the containers come first and the other pods still
\* agree with theirs.
ProgressInv ==
  wpc["pods"] # "idle" =>
    \E e \in PodEvents, entry \in Metadata :
      /\ Made(results["pods"], e, entry)
      /\ \A j \in 1..Len(e.containers) : j < next["pods"] =>
           HoldsIn(metadata_map, entry, ContainerResource(e, e.containers[j]))
      /\ AgreeBut(metadata_map, PodResource(e))

\* When the pod thread is at rest, all pods do.
AgreeInv == wpc["pods"] = "idle" => AgreeBut(metadata_map, None)

PodInv ==
  /\ StoreInv
  /\ PodTypeOK
  /\ ResultInv
  /\ ResolveInv
  /\ RegisteredInv
  /\ EntryInv
  /\ ProgressInv
  /\ AgreeInv

--------------------------------------------------------------------------------
\* Names: what an event describes.

\* The resources of a pod and of its containers (kubernetes.cc:237-310) are in
\* the store and are told apart by their types.
LEMMA PodResources ==
  ASSUME NEW e \in PodEvents
  PROVE  /\ Len(e.containers) \in Nat
         /\ PodResource(e) \in Resources /\ TypeOf[PodResource(e)] = "k8s_pod"
         /\ \A c \in Containers(e) :
              c \in Resources /\ TypeOf[c] = "k8s_container"
         /\ \A j \in 1..Len(e.containers) :
              ContainerResource(e, e.containers[j]) \in Containers(e)
<1>1. Len(e.containers) \in Nat
  BY PodAssumption
<1>2. PodResource(e) \in Resources /\ TypeOf[PodResource(e)] = "k8s_pod"
  BY NamingAssumption
<1>3. ASSUME NEW c \in Containers(e)
      PROVE  c \in Resources /\ TypeOf[c] = "k8s_container"
  <2>1. PICK j \in 1..Len(e.containers) : c = ContainerResource(e, e.containers[j])
    BY DEF Containers
  <2> QED
    BY <2>1, NamingAssumption
<1>4. \A j \in 1..Len(e.containers) :
        ContainerResource(e, e.containers[j]) \in Containers(e)
  BY DEF Containers
<1> QED
  BY <1>1, <1>2, <1>3, <1>4

\* The resource of a container (kubernetes.cc:296) names its pod.
LEMMA ContainersNameTheirPod ==
  ASSUME NEW e \in PodEvents, NEW f \in PodEvents,
         NEW c \in Containers(e), c \in Containers(f)
  PROVE  PodResource(e) = PodResource(f)
<1>1. PICK j \in 1..Len(e.containers) : c = ContainerResource(e, e.containers[j])
  BY DEF Containers
<1>2. PICK k \in 1..Len(f.containers) : c = ContainerResource(f, f.containers[k])
  BY DEF Containers
<1>3. e.pod = f.pod
  BY <1>1, <1>2 DEF ContainerResource
<1> QED
  BY <1>3 DEF PodResource

\* An id of one kind of resource is none of another.
LEMMA IdKinds ==
  ASSUME NEW e, NEW c, NEW id
  PROVE  /\ id \in PodIds(e) => id[1] = "k8s_pod"
         /\ id \in ContainerIds(e, c) => id[1] = "k8s_container"
         /\ id \in NodeIds(e) => id[1] = "k8s_node"
BY DEF PodIds, ContainerIds, NodeIds

\* Ids of pods with different names differ (kubernetes.cc:271).
LEMMA PodIdsTellApart ==
  ASSUME NEW e \in PodEvents, NEW f \in PodEvents,
         NEW id \in PodIds(e), id \in PodIds(f)
  PROVE  e.pod = f.pod
<1>1. id[2] = e.uid \/ id[2] = e.pod
  BY DEF PodIds
<1>2. id[2] = f.uid \/ id[2] = f.pod
  BY DEF PodIds
<1> QED
  BY <1>1, <1>2, KubernetesAssumption

\* Ids of containers of different pods, and of different containers of a pod,
\* differ (kubernetes.cc:347-377).
LEMMA ContainerIdsTellApart ==
  ASSUME NEW e \in PodEvents, NEW f \in PodEvents,
         NEW c \in DOMAIN DockerId[e.uid], NEW d \in DOMAIN DockerId[f.uid],
         NEW id \in ContainerIds(e, c), id \in ContainerIds(f, d)
  PROVE  e.pod = f.pod /\ c = d
<1>1. \/ id = <<"k8s_container", e.uid, c>>
      \/ id = <<"k8s_container", e.pod, c>>
      \/ id = <<"k8s_container", DockerId[e.uid][c]>>
  BY DEF ContainerIds
<1>2. \/ id = <<"k8s_container", f.uid, d>>
      \/ id = <<"k8s_container", f.pod, d>>
      \/ id = <<"k8s_container", DockerId[f.uid][d]>>
  BY DEF ContainerIds
<1>3. CASE Len(id) = 3
  <2>1. id[3] = c /\ (id[2] = e.uid \/ id[2] = e.pod)
    BY <1>1, <1>3
  <2>2. id[3] = d /\ (id[2] = f.uid \/ id[2] = f.pod)
    BY <1>2, <1>3
  <2> QED
    BY <2>1, <2>2, KubernetesAssumption
<1>4. CASE Len(id) # 3
  <2>1. id[2] = DockerId[e.uid][c] /\ id[2] = DockerId[f.uid][d]
    BY <1>1, <1>2, <1>4
  <2>2. DockerId[e.uid][c] = DockerId[f.uid][d]
    BY <2>1
  <2>3. e.uid = f.uid /\ c = d
    BY <2>2, KubernetesAssumption
  <2>4. e.pod = f.pod
    BY <2>3, KubernetesAssumption
  <2> QED
    BY <2>3, <2>4
<1> QED
  BY <1>3, <1>4

\* What an event describes is well formed.
LEMMA DescribesFacts ==
  ASSUME NEW e, NEW ids, NEW r, Describes(e, ids, r)
  PROVE  /\ e \in Events /\ ids \subseteq Ids /\ r \in Resources
         /\ TypeOf[r] = "k8s_pod" =>
              e \in PodEvents /\ r = PodResource(e) /\ ids = PodIds(e)
         /\ TypeOf[r] = "k8s_container" =>
              /\ e \in PodEvents
              /\ \E j \in 1..Len(e.containers) :
                   /\ r = ContainerResource(e, e.containers[j])
                   /\ ids = ContainerIds(e, e.containers[j])
         /\ TypeOf[r] # "k8s_pod" /\ TypeOf[r] # "k8s_container" =>
              e \in NodeEvents /\ r = NodeResource(e) /\ ids = NodeIds(e)
<1>1. CASE e \in PodEvents /\ r = PodResource(e) /\ ids = PodIds(e)
  BY <1>1, NamingAssumption DEF Events
<1>2. CASE /\ e \in PodEvents
           /\ \E j \in 1..Len(e.containers) :
                /\ r = ContainerResource(e, e.containers[j])
                /\ ids = ContainerIds(e, e.containers[j])
  BY <1>2, NamingAssumption DEF Events
<1>3. CASE e \in NodeEvents /\ r = NodeResource(e) /\ ids = NodeIds(e)
  BY <1>3, NamingAssumption DEF Events
<1> QED
  BY <1>1, <1>2, <1>3 DEF Describes

\* An id belongs to one resource, whatever events have it: registering it again
\* for its resource (store.cc:46) changes nothing.
LEMMA IdsTellApart ==
  ASSUME NEW e, NEW ids, NEW r, Describes(e, ids, r),
         NEW f, NEW jds, NEW q, Describes(f, jds, q),
         NEW id \in ids, id \in jds
  PROVE  r = q
<1>1. CASE id[1] = "k8s_pod"
  <2>1. /\ e \in PodEvents /\ r = PodResource(e) /\ id \in PodIds(e)
        /\ f \in PodEvents /\ q = PodResource(f) /\ id \in PodIds(f)
    BY <1>1, IdKinds DEF Describes
  <2>2. e.pod = f.pod
    BY <2>1, PodIdsTellApart
  <2> QED
    BY <2>1, <2>2 DEF PodResource
<1>2. CASE id[1] = "k8s_container"
  <2>1. e \in PodEvents /\ f \in PodEvents
    BY <1>2, IdKinds DEF Describes
  <2>2. PICK j \in 1..Len(e.containers) :
          /\ r = ContainerResource(e, e.containers[j])
          /\ id \in ContainerIds(e, e.containers[j])
    BY <1>2, IdKinds DEF Describes
  <2>3. PICK k \in 1..Len(f.containers) :
          /\ q = ContainerResource(f, f.containers[k])
          /\ id \in ContainerIds(f, f.containers[k])
    BY <1>2, IdKinds DEF Describes
  <2>4. /\ e.containers[j] \in DOMAIN DockerId[e.uid]
        /\ f.containers[k] \in DOMAIN DockerId[f.uid]
    BY <2>1, PodAssumption
  <2>5. e.pod = f.pod /\ e.containers[j] = f.containers[k]
    BY <2>1, <2>2, <2>3, <2>4, ContainerIdsTellApart
  <2> QED
    BY <2>2, <2>3, <2>5 DEF ContainerResource
<1>3. CASE id[1] # "k8s_pod" /\ id[1] # "k8s_container"
  <2>1. r = NodeResource(e) /\ id \in NodeIds(e) /\ q = NodeResource(f) /\ id \in NodeIds(f)
    BY <1>3, IdKinds DEF Describes
  <2>2. e.node = f.node
    BY <2>1 DEF NodeIds
  <2> QED
    BY <2>1, <2>2 DEF NodeResource
<1> QED
  BY <1>1, <1>2, <1>3

--------------------------------------------------------------------------------
\* From events to results.

ResultType == [ids: SUBSET Ids, resource: Resources, metadata: Metadata]

\* The entry of an event (kubernetes.cc:255-284) is one the store accepts.
LEMMA EntryType ==
  ASSUME PodTypeOK, NEW e \in Events, NEW c \in Controllers \cup {None}
  PROVE  /\ Entry(e, c) \in Metadata
         /\ Entry(e, c).ignore = FALSE
         /\ Entry(e, c).metadata.event = e
<1>1. e.is_deleted \in BOOLEAN
  BY PodAssumption DEF Events
<1>2. handled \in Times
  BY PodAssumption DEF PodTypeOK
<1>3. Body(e, c) \in Payloads /\ Body(e, c).event = e
  BY PodAssumption DEF Body
<1> QED
  BY <1>1, <1>2, <1>3 DEF Entry, Metadata

\* GetPodAndContainerMetadata (kubernetes.cc:388) makes a result for each
\* container and then one for the pod, all with the same entry.
LEMMA PodVector ==
  ASSUME PodTypeOK, NEW e \in PodEvents, NEW c \in Controllers \cup {None},
         NEW v, v = GetPodAndContainerMetadata(e, c)
  PROVE  /\ v \in Seq(ResultType) /\ Len(v) \in Nat /\ Len(v) >= 1
         /\ Made(v, e, Entry(e, c))
         /\ \A j \in 1..Len(v) :
              /\ v[j].metadata.ignore = FALSE
              /\ Describes(v[j].metadata.metadata.event, v[j].ids, v[j].resource)
<1> DEFINE entry == Entry(e, c)
           n == Len(e.containers)
           Container(j) == Result(ContainerIds(e, e.containers[j]),
                                  ContainerResource(e, e.containers[j]), entry)
           pod == Result(PodIds(e), PodResource(e), entry)
           firsts == [j \in 1..n |-> Container(j)]
<1>1. entry \in Metadata /\ entry.ignore = FALSE /\ entry.metadata.event = e
  BY EntryType DEF Events
<1>2. v = Append(firsts, pod) /\ n \in Nat
  BY PodAssumption DEF GetPodAndContainerMetadata, GetContainerMetadata, GetPodMetadata
<1> HIDE DEF entry
<1>3. /\ pod \in ResultType /\ pod.metadata = entry /\ pod.resource = PodResource(e)
      /\ pod.ids = PodIds(e)
  BY <1>1, NamingAssumption DEF Result, ResultType
<1>4. ASSUME NEW j \in 1..n
      PROVE  /\ Container(j) \in ResultType /\ Container(j).metadata = entry
             /\ Container(j).resource = ContainerResource(e, e.containers[j])
             /\ Container(j).ids = ContainerIds(e, e.containers[j])
  BY <1>1, NamingAssumption DEF Result, ResultType
<1> HIDE DEF Container, pod
<1>5. firsts \in [1..n -> ResultType] /\ \A j \in 1..n : firsts[j] = Container(j)
  BY <1>4
<1>6. firsts \in Seq(ResultType) /\ Len(firsts) = n
  BY <1>2, <1>5
<1> HIDE DEF firsts, n
<1>7. /\ v \in Seq(ResultType) /\ Len(v) = n + 1 /\ v[n + 1] = pod
      /\ \A j \in 1..n : v[j] = firsts[j]
  BY <1>2, <1>3, <1>6, AppendProperties
<1>8. \A j \in 1..n : v[j] = Container(j)
  BY <1>5, <1>7
<1>9. Made(v, e, entry)
  BY <1>1, <1>3, <1>4, <1>7, <1>8 DEF Made, n
<1>10. ASSUME NEW j \in 1..Len(v)
       PROVE  /\ v[j].metadata.ignore = FALSE
              /\ Describes(v[j].metadata.metadata.event, v[j].ids, v[j].resource)
  <2>1. j = n + 1 \/ j \in 1..n
    BY <1>2, <1>7
  <2>2. CASE j = n + 1
    BY <1>1, <1>3, <1>7, <2>2 DEF Describes
  <2>3. CASE j \in 1..n
    <3>1. /\ v[j].metadata = entry
          /\ v[j].resource = ContainerResource(e, e.containers[j])
          /\ v[j].ids = ContainerIds(e, e.containers[j])
      BY <1>4, <1>8, <2>3
    <3> QED
      BY <1>1, <2>3, <3>1 DEF Describes, n
  <2> QED
    BY <2>1, <2>2, <2>3
<1>11. Len(v) \in Nat /\ Len(v) >= 1
  BY <1>2, <1>7
<1> QED
  BY <1>7, <1>9, <1>10, <1>11 DEF entry

\* GetNodeMetadata (kubernetes.cc:111) makes one result.
LEMMA NodeVector ==
  ASSUME PodTypeOK, NEW e \in NodeEvents, NEW v, v = <<GetNodeMetadata(e)>>
  PROVE  /\ v \in Seq(ResultType) /\ Len(v) \in Nat /\ Len(v) >= 1
         /\ \A j \in 1..Len(v) :
              /\ v[j].metadata.ignore = FALSE
              /\ Describes(v[j].metadata.metadata.event, v[j].ids, v[j].resource)
              /\ TypeOf[v[j].resource] = "k8s_node"
<1> DEFINE entry == Entry(e, None)
           result == Result(NodeIds(e), NodeResource(e), entry)
<1>1. entry \in Metadata /\ entry.ignore = FALSE /\ entry.metadata.event = e
  BY EntryType DEF Events
<1> HIDE DEF entry
<1>2. /\ result \in ResultType /\ result.metadata = entry
      /\ result.resource = NodeResource(e) /\ result.ids = NodeIds(e)
      /\ TypeOf[NodeResource(e)] = "k8s_node"
  BY <1>1, NamingAssumption DEF Result, ResultType
<1>3. v = <<result>>
  BY DEF GetNodeMetadata, entry
<1> HIDE DEF result
<1>4. v \in Seq(ResultType) /\ Len(v) = 1 /\ v[1] = result
  BY <1>2, <1>3
<1>5. ASSUME NEW j \in 1..Len(v)
      PROVE  /\ v[j].metadata.ignore = FALSE
             /\ Describes(v[j].metadata.metadata.event, v[j].ids, v[j].resource)
             /\ TypeOf[v[j].resource] = "k8s_node"
  <2>1. v[j] = result
    BY <1>4
  <2> QED
    BY <1>1, <1>2, <2>1 DEF Describes
<1>6. Len(v) \in Nat /\ Len(v) >= 1
  BY <1>4
<1> QED
  BY <1>4, <1>5, <1>6

--------------------------------------------------------------------------------
\* What writes to the metadata map do to pods and containers.

PodsNamed(map) ==
  \A r \in Resources : map[r] # None /\ TypeOf[r] = "k8s_pod" =>
    /\ map[r].metadata.event \in PodEvents
    /\ r = PodResource(map[r].metadata.event)

\* PurgeDeletedEntries (store.cc:98) purges a container only with its mark, which
\* is that of the pod.
LEMMA PurgeAgrees ==
  ASSUME NEW map, NEW after, NEW pod, PodsNamed(map), AgreeBut(map, pod),
         after = [r \in Resources |-> IF map[r] # None /\ map[r].is_deleted
                                      THEN None ELSE map[r]]
  PROVE  AgreeBut(after, pod)
<1> SUFFICES ASSUME NEW r \in Resources, after[r] # None, TypeOf[r] = "k8s_pod",
                    r # pod, NEW c \in Containers(after[r].metadata.event)
             PROVE  HoldsIn(after, after[r], c)
  BY DEF AgreeBut
<1>1. after[r] = map[r] /\ map[r] # None
  OBVIOUS
<1>2. HoldsIn(map, map[r], c)
  BY <1>1 DEF AgreeBut
<1>3. c \in Resources
  BY <1>1, PodResources DEF PodsNamed
<1> QED
  BY <1>1, <1>2, <1>3 DEF HoldsIn

\* Nothing but the entry of one resource changes, which is that of the pod named,
\* of one of its containers, or of no pod and no container.
WritesOnly(map, after, q) == \A r \in Resources : r # q => after[r] = map[r]
ConcernsOnly(q, pod) ==
  /\ TypeOf[q] = "k8s_pod" => q = pod
  /\ \A f \in PodEvents : q \in Containers(f) => PodResource(f) = pod

\* An entry written to the map (store.cc:69-71) concerns only its own pod.
LEMMA WriteAgrees ==
  ASSUME NEW map, NEW after, NEW pod, PodsNamed(map), AgreeBut(map, pod),
         NEW q, WritesOnly(map, after, q), ConcernsOnly(q, pod)
  PROVE  AgreeBut(after, pod)
<1> SUFFICES ASSUME NEW r \in Resources, after[r] # None, TypeOf[r] = "k8s_pod",
                    r # pod, NEW c \in Containers(after[r].metadata.event)
             PROVE  HoldsIn(after, after[r], c)
  BY DEF AgreeBut
<1>1. after[r] = map[r]
  BY DEF WritesOnly, ConcernsOnly
<1>2. map[r].metadata.event \in PodEvents /\ r = PodResource(map[r].metadata.event)
  BY <1>1 DEF PodsNamed
<1>3. c \in Resources /\ c # q
  BY <1>1, <1>2, PodResources DEF ConcernsOnly
<1>4. after[c] = map[c]
  BY <1>3 DEF WritesOnly
<1>5. HoldsIn(map, map[r], c)
  BY <1>1 DEF AgreeBut
<1> QED
  BY <1>1, <1>4, <1>5 DEF HoldsIn

--------------------------------------------------------------------------------
\* Each action keeps the invariant.

\* The result a callback is at comes from an event.
LEMMA ResultAtHand ==
  ASSUME PodInv, NEW w \in Watches, wpc[w] # "idle",
         NEW result, result = results[w][next[w]]
  PROVE  /\ next[w] \in 1..Len(results[w])
         /\ result \in ResultType
         /\ result.metadata.ignore = FALSE
         /\ Describes(result.metadata.metadata.event, result.ids, result.resource)
         /\ w = "nodes" => TypeOf[result.resource] = "k8s_node"
<1>1. next[w] \in 1..Len(results[w]) /\ results[w] \in Seq(ResultType)
  BY DEF PodInv, PodTypeOK, ResultType
<1>2. result \in ResultType
  BY <1>1
<1> QED
  BY <1>1, <1>2 DEF PodInv, ResultInv

\* Stored pods are stored under their resource.
LEMMA StoredPodsAreNamed ==
  ASSUME PodInv
  PROVE  PodsNamed(metadata_map)
<1> SUFFICES ASSUME NEW r \in Resources, metadata_map[r] # None, TypeOf[r] = "k8s_pod"
             PROVE  /\ metadata_map[r].metadata.event \in PodEvents
                    /\ r = PodResource(metadata_map[r].metadata.event)
  BY DEF PodsNamed
<1>1. PICK ids \in SUBSET Ids : Describes(metadata_map[r].metadata.event, ids, r)
  BY DEF PodInv, EntryInv
<1> QED
  BY <1>1, DescribesFacts

\* A callback begins to store the results of an event (kubernetes.cc:742-761).
LEMMA BeginStep ==
  ASSUME PodInv, NEW w \in Watches, NEW v \in Seq(ResultType),
         Len(v) \in Nat, Len(v) >= 1,
         \A j \in 1..Len(v) :
           /\ v[j].metadata.ignore = FALSE
           /\ Describes(v[j].metadata.metadata.event, v[j].ids, v[j].resource)
           /\ w = "nodes" => TypeOf[v[j].resource] = "k8s_node",
         w = "pods" => \E e \in PodEvents, entry \in Metadata : Made(v, e, entry),
         Begin(w, v)
  PROVE  PodInv'
<1>0. PodTypeOK /\ ResultInv /\ ResolveInv /\ RegisteredInv /\ EntryInv
      /\ ProgressInv /\ AgreeInv /\ StoreInv
  BY DEF PodInv
<1>1. /\ handled < MaxEvents /\ handled' = handled + 1
      /\ wpc[w] = "idle"
      /\ wpc' = [wpc EXCEPT ![w] = "update_resource"]
      /\ results' = [results EXCEPT ![w] = v]
      /\ next' = [next EXCEPT ![w] = 1]
      /\ UNCHANGED <<resource_map, metadata_map, last_collection_times>>
  BY DEF Begin, storeVars
<1>2. ASSUME NEW u \in Watches
      PROVE  IF u = w
             THEN wpc'[u] = "update_resource" /\ results'[u] = v /\ next'[u] = 1
             ELSE wpc'[u] = wpc[u] /\ results'[u] = results[u] /\ next'[u] = next[u]
  BY <1>0, <1>1 DEF PodTypeOK
<1>3. StoreInv'
  BY <1>0, <1>1, StoreStep DEF storeVars
<1>4. PodTypeOK'
  <2>1. handled' \in 0..MaxEvents
    BY <1>0, <1>1, PodAssumption DEF PodTypeOK
  <2>2. /\ wpc' \in [Watches -> {"idle", "update_resource", "update_metadata"}]
        /\ results' \in [Watches -> Seq(ResultType)]
        /\ next' \in [Watches -> Nat]
    BY <1>0, <1>1 DEF PodTypeOK, ResultType
  <2>3. 1 \in 1..Len(v)
    OBVIOUS
  <2>4. \A u \in Watches : wpc'[u] # "idle" => next'[u] \in 1..Len(results'[u])
    BY <1>0, <1>2, <2>3 DEF PodTypeOK
  <2> QED
    BY <1>3, <2>1, <2>2, <2>4 DEF StoreInv, PodTypeOK, ResultType
<1>5. ResultInv'
  BY <1>0, <1>2 DEF ResultInv
<1>6. ResolveInv' /\ EntryInv'
  BY <1>0, <1>1 DEF ResolveInv, EntryInv
<1>7. RegisteredInv'
  BY <1>0, <1>1, <1>2 DEF RegisteredInv
<1>8. CASE w = "pods"
  <2>1. /\ wpc'["pods"] = "update_resource" /\ results'["pods"] = v
        /\ next'["pods"] = 1
    BY <1>2, <1>8
  <2>2. PICK e \in PodEvents, entry \in Metadata : Made(v, e, entry)
    BY <1>8
  <2>3. AgreeBut(metadata_map, PodResource(e))
    BY <1>0, <1>1, <1>8, NoneAssumption DEF AgreeInv, AgreeBut
  <2>4. \A j \in 1..Len(e.containers) : ~(j < 1)
    BY PodResources
  <2>5. ProgressInv'
    BY <1>1, <2>1, <2>2, <2>3, <2>4 DEF ProgressInv
  <2>6. AgreeInv'
    BY <2>1 DEF AgreeInv
  <2> QED
    BY <1>3, <1>4, <1>5, <1>6, <1>7, <2>5, <2>6 DEF PodInv
<1>9. CASE w # "pods"
  <2>1. "pods" \in Watches
    BY DEF Watches
  <2>2. ProgressInv' /\ AgreeInv'
    BY <1>0, <1>1, <1>2, <1>9, <2>1 DEF ProgressInv, AgreeInv
  <2> QED
    BY <1>3, <1>4, <1>5, <1>6, <1>7, <2>2 DEF PodInv
<1> QED
  BY <1>8, <1>9

\* UpdateResourceCallback (kubernetes.cc:1389) registers the ids of a result: an id
\* that was registered before was registered for this resource.
LEMMA RegisterStep ==
  ASSUME PodInv, NEW w \in Watches, UpdateResourceCallback(w)
  PROVE  PodInv'
<1> DEFINE result == results[w][next[w]]
<1>0. PodTypeOK /\ ResultInv /\ ResolveInv /\ RegisteredInv /\ EntryInv
      /\ ProgressInv /\ AgreeInv /\ StoreInv
  BY DEF PodInv
<1>1. /\ wpc[w] = "update_resource"
      /\ UpdateResource(result.ids, result.resource)
      /\ wpc' = [wpc EXCEPT ![w] = "update_metadata"]
      /\ UNCHANGED <<handled, results, next>>
  BY DEF UpdateResourceCallback
<1>2. /\ result \in ResultType
      /\ Describes(result.metadata.metadata.event, result.ids, result.resource)
  BY <1>1, ResultAtHand
<1>3. result.ids \in SUBSET Ids /\ result.resource \in Resources
  BY <1>2 DEF ResultType
<1>4. /\ resource_map' =
           [id \in Ids |-> IF id \in result.ids /\ resource_map[id] = None
                           THEN result.resource ELSE resource_map[id]]
      /\ UNCHANGED <<metadata_map, last_collection_times>>
  BY <1>1 DEF UpdateResource
<1> HIDE DEF result
<1>5. StoreInv'
  BY <1>0, <1>1, <1>3, UpdateResourceStep
<1>6. ASSUME NEW u \in Watches
      PROVE  wpc'[u] = IF u = w THEN "update_metadata" ELSE wpc[u]
  BY <1>0, <1>1 DEF PodTypeOK
<1>7. PodTypeOK'
  <2>1. wpc' \in [Watches -> {"idle", "update_resource", "update_metadata"}]
    BY <1>0, <1>1 DEF PodTypeOK
  <2>2. \A u \in Watches : wpc'[u] # "idle" => wpc[u] # "idle"
    BY <1>1, <1>6
  <2> QED
    BY <1>0, <1>1, <1>5, <2>1, <2>2 DEF StoreInv, PodTypeOK
<1>8. ResultInv'
  BY <1>0, <1>1, <1>6 DEF ResultInv
<1>9. ASSUME NEW id \in Ids
      PROVE  /\ resource_map[id] # None => resource_map'[id] = resource_map[id]
             /\ id \in result.ids => resource_map'[id] = result.resource
  <2>1. resource_map[id] # None => resource_map'[id] = resource_map[id]
    BY <1>4
  <2>2. ASSUME id \in result.ids, resource_map[id] # None
        PROVE  resource_map[id] = result.resource
    <3>1. PICK f \in Events, jds \in SUBSET Ids :
            id \in jds /\ Describes(f, jds, resource_map[id])
      BY <1>0, <2>2 DEF ResolveInv
    <3> QED
      BY <1>2, <2>2, <3>1, IdsTellApart
  <2> QED
    BY <1>4, <2>1, <2>2
<1>10. ResolveInv'
  <2> SUFFICES ASSUME NEW id \in Ids, resource_map'[id] # None
               PROVE  \E e \in Events, ids \in SUBSET Ids :
                        id \in ids /\ Describes(e, ids, resource_map'[id])
    BY DEF ResolveInv
  <2>1. CASE id \in result.ids
    <3>1. resource_map'[id] = result.resource
      BY <1>9, <2>1
    <3>2. result.metadata.metadata.event \in Events
      BY <1>2, DescribesFacts
    <3> QED
      BY <1>2, <1>3, <2>1, <3>1, <3>2
  <2>2. CASE id \notin result.ids
    BY <1>0, <1>4, <2>2 DEF ResolveInv
  <2> QED
    BY <2>1, <2>2
<1>11. RegisteredInv'
  <2> SUFFICES ASSUME NEW u \in Watches, wpc'[u] = "update_metadata",
                      NEW id \in results[u][next[u]].ids
               PROVE  resource_map'[id] = results[u][next[u]].resource
    BY <1>1 DEF RegisteredInv
  <2>1. CASE u = w
    BY <1>3, <1>9, <2>1 DEF result
  <2>2. CASE u # w
    <3>1. wpc[u] = "update_metadata"
      BY <1>6, <2>2
    <3>2. results[u][next[u]] \in ResultType
      BY <3>1, ResultAtHand
    <3>3. id \in Ids /\ results[u][next[u]].resource # None
      BY <3>2, NoneAssumption DEF ResultType
    <3>4. resource_map[id] = results[u][next[u]].resource
      BY <1>0, <3>1 DEF RegisteredInv
    <3> QED
      BY <1>9, <3>3, <3>4
  <2> QED
    BY <2>1, <2>2
<1>12. EntryInv'
  <2> SUFFICES ASSUME NEW r \in Resources, metadata_map[r] # None
               PROVE  \E ids \in SUBSET Ids :
                        /\ Describes(metadata_map[r].metadata.event, ids, r)
                        /\ \A id \in ids : resource_map'[id] = r
    BY <1>4 DEF EntryInv
  <2>1. PICK ids \in SUBSET Ids :
          /\ Describes(metadata_map[r].metadata.event, ids, r)
          /\ \A id \in ids : resource_map[id] = r
    BY <1>0 DEF EntryInv
  <2>2. \A id \in ids : resource_map'[id] = r
    BY <1>9, <2>1, NoneAssumption
  <2> QED
    BY <2>1, <2>2
<1>13. ProgressInv' /\ AgreeInv'
  <2>1. wpc'["pods"] = "idle" <=> wpc["pods"] = "idle"
    BY <1>1, <1>6 DEF Watches
  <2>2. ProgressInv'
    BY <1>0, <1>1, <1>4, <2>1 DEF ProgressInv
  <2>3. AgreeInv'
    BY <1>0, <1>4, <2>1 DEF AgreeInv
  <2> QED
    BY <2>2, <2>3
<1> QED
  BY <1>5, <1>7, <1>8, <1>10, <1>11, <1>12, <1>13 DEF PodInv

\* The node thread's entries (kubernetes.cc:1201) concern no pod.
LEMMA NodeWrite ==
  ASSUME PodInv, NEW q \in Resources, TypeOf[q] = "k8s_node", NEW x,
         metadata_map' = [metadata_map EXCEPT ![q] = x],
         wpc'["pods"] = wpc["pods"], results'["pods"] = results["pods"],
         next'["pods"] = next["pods"]
  PROVE  ProgressInv' /\ AgreeInv'
<1>0. ProgressInv /\ AgreeInv
  BY DEF PodInv
<1>1. WritesOnly(metadata_map, metadata_map', q)
  BY DEF PodInv, StoreInv, StoreTypeOK, WritesOnly
<1>2. \A f \in PodEvents : q \notin Containers(f)
  BY PodResources
<1>3. ASSUME NEW pod, AgreeBut(metadata_map, pod)
      PROVE  AgreeBut(metadata_map', pod)
  <2>1. ConcernsOnly(q, pod)
    BY <1>2 DEF ConcernsOnly
  <2> QED
    BY <1>1, <1>3, <2>1, StoredPodsAreNamed, WriteAgrees
<1>4. AgreeInv'
  BY <1>0, <1>3 DEF AgreeInv
<1>5. ProgressInv'
  <2> SUFFICES ASSUME wpc["pods"] # "idle"
               PROVE  \E e \in PodEvents, entry \in Metadata :
                        /\ Made(results["pods"], e, entry)
                        /\ \A j \in 1..Len(e.containers) : j < next["pods"] =>
                             HoldsIn(metadata_map', entry,
                                     ContainerResource(e, e.containers[j]))
                        /\ AgreeBut(metadata_map', PodResource(e))
    BY DEF ProgressInv
  <2>1. PICK e \in PodEvents, entry \in Metadata :
          /\ Made(results["pods"], e, entry)
          /\ \A j \in 1..Len(e.containers) : j < next["pods"] =>
               HoldsIn(metadata_map, entry, ContainerResource(e, e.containers[j]))
          /\ AgreeBut(metadata_map, PodResource(e))
    BY <1>0 DEF ProgressInv
  <2>2. ASSUME NEW j \in 1..Len(e.containers), j < next["pods"]
        PROVE  HoldsIn(metadata_map', entry, ContainerResource(e, e.containers[j]))
    <3> DEFINE c == ContainerResource(e, e.containers[j])
    <3>1. c \in Resources /\ c # q
      BY <1>2, PodResources
    <3>2. HoldsIn(metadata_map, entry, c)
      BY <2>1, <2>2
    <3> HIDE DEF c
    <3>3. HoldsIn(metadata_map', entry, c)
      BY <1>1, <3>1, <3>2 DEF HoldsIn, WritesOnly
    <3> QED
      BY <3>3 DEF c
  <2> QED
    BY <1>3, <2>1, <2>2
<1> QED
  BY <1>4, <1>5

\* The pod thread's entries (kubernetes.cc:1161): a container of the pod at hand,
\* or in the end the pod, whose containers are all stored by then.
LEMMA PodWrite ==
  ASSUME PodInv, wpc["pods"] # "idle",
         NEW n, n = next["pods"], NEW vector, vector = results["pods"],
         metadata_map' = [metadata_map EXCEPT ![vector[n].resource] = vector[n].metadata],
         wpc'["pods"] = IF n < Len(vector) THEN "update_resource" ELSE "idle",
         results'["pods"] = vector, next'["pods"] = n + 1
  PROVE  ProgressInv' /\ AgreeInv'
<1>0. ProgressInv
  BY DEF PodInv
<1>1. /\ metadata_map \in [Resources -> Metadata \cup {None}]
      /\ n \in 1..Len(vector) /\ vector \in Seq(ResultType)
  BY ResultAtHand DEF PodInv, StoreInv, StoreTypeOK, PodTypeOK, ResultType, Watches
<1>2. PICK e \in PodEvents, entry \in Metadata :
        /\ Made(vector, e, entry)
        /\ \A j \in 1..Len(e.containers) : j < n =>
             HoldsIn(metadata_map, entry, ContainerResource(e, e.containers[j]))
        /\ AgreeBut(metadata_map, PodResource(e))
  BY <1>0 DEF ProgressInv
<1> DEFINE count == Len(e.containers)
           q == vector[n].resource
<1>3. /\ count \in Nat /\ Len(vector) = count + 1
      /\ PodResource(e) \in Resources /\ TypeOf[PodResource(e)] = "k8s_pod"
      /\ \A c \in Containers(e) : c \in Resources /\ TypeOf[c] = "k8s_container"
      /\ \A j \in 1..count : ContainerResource(e, e.containers[j]) \in Containers(e)
  BY <1>2, PodResources DEF Made
<1>4. vector[n].metadata = entry
  BY <1>1, <1>2, <1>3 DEF Made
<1>5. CASE n \in 1..count
  <2>1. q = ContainerResource(e, e.containers[n]) /\ q \in Containers(e)
    BY <1>2, <1>3, <1>5 DEF Made
  <2>2. wpc'["pods"] = "update_resource"
    BY <1>3, <1>5
  <2> HIDE DEF count, q
  <2>3. q \in Resources /\ TypeOf[q] = "k8s_container"
    BY <1>3, <2>1
  <2>4. \A f \in PodEvents : q \in Containers(f) => PodResource(f) = PodResource(e)
    BY <2>1, ContainersNameTheirPod
  <2>5. /\ metadata_map'[q] = entry
        /\ WritesOnly(metadata_map, metadata_map', q)
    <3>1. q \in Resources
      BY <1>3, <2>1
    <3> QED
      BY <1>1, <1>4, <3>1 DEF q, WritesOnly
  <2>6. AgreeBut(metadata_map', PodResource(e))
    <3>1. PodsNamed(metadata_map) /\ AgreeBut(metadata_map, PodResource(e))
      BY <1>2, StoredPodsAreNamed
    <3>2. ConcernsOnly(q, PodResource(e))
      BY <2>3, <2>4 DEF ConcernsOnly
    <3> QED
      BY <2>5, <3>1, <3>2, WriteAgrees
  <2>7. ASSUME NEW j \in 1..count, j < n + 1
        PROVE  HoldsIn(metadata_map', entry, ContainerResource(e, e.containers[j]))
    <3> DEFINE c == ContainerResource(e, e.containers[j])
    <3>1. c \in Resources
      BY <1>3
    <3>2. CASE c = q
      BY <2>5, <3>2 DEF HoldsIn
    <3>3. CASE c # q
      <4>1. j < n
        <5>1. j # n
          BY <2>1, <3>3
        <5> QED
          BY <1>3, <1>5, <2>7, <5>1
      <4>2. HoldsIn(metadata_map, entry, c)
        BY <1>2, <4>1 DEF count
      <4> HIDE DEF c
      <4>3. HoldsIn(metadata_map', entry, c)
        BY <2>5, <3>1, <3>3, <4>2 DEF HoldsIn, WritesOnly
      <4> QED
        BY <4>3 DEF c
    <3> QED
      BY <3>2, <3>3
  <2>8. ProgressInv'
    BY <1>2, <2>6, <2>7 DEF ProgressInv, count
  <2>9. AgreeInv'
    BY <2>2 DEF AgreeInv
  <2> QED
    BY <2>8, <2>9
<1>6. CASE n = count + 1
  <2>1. q = PodResource(e)
    BY <1>2, <1>6 DEF Made
  <2>2. wpc'["pods"] = "idle"
    BY <1>3, <1>6
  <2>3. \A j \in 1..count : j < n
    BY <1>3, <1>6
  <2> HIDE DEF count, q
  <2>4. \A f \in PodEvents : q \notin Containers(f)
    BY <1>3, <2>1, PodResources
  <2>5. /\ metadata_map'[q] = entry
        /\ WritesOnly(metadata_map, metadata_map', q)
    <3>1. q \in Resources
      BY <1>3, <2>1
    <3> QED
      BY <1>1, <1>4, <3>1 DEF q, WritesOnly
  <2>6. AgreeBut(metadata_map', PodResource(e))
    <3>1. PodsNamed(metadata_map) /\ AgreeBut(metadata_map, PodResource(e))
      BY <1>2, StoredPodsAreNamed
    <3>2. ConcernsOnly(q, PodResource(e))
      BY <2>1, <2>4 DEF ConcernsOnly
    <3> QED
      BY <2>5, <3>1, <3>2, WriteAgrees
  <2>7. metadata_map'[q] = entry /\ entry.metadata.event = e
    BY <1>1, <1>2, <1>3, <2>1, <2>5 DEF Made
  <2>8. ASSUME NEW c \in Containers(e)
        PROVE  HoldsIn(metadata_map', entry, c)
    <3>1. PICK j \in 1..count : c = ContainerResource(e, e.containers[j])
      BY DEF Containers, count
    <3>2. HoldsIn(metadata_map, entry, c)
      BY <1>2, <2>3, <3>1 DEF count
    <3>3. c \in Resources /\ c # q
      BY <1>3, <2>4
    <3> QED
      BY <2>5, <3>2, <3>3 DEF HoldsIn, WritesOnly
  <2>9. AgreeBut(metadata_map', None)
    BY <2>1, <2>6, <2>7, <2>8 DEF AgreeBut
  <2> QED
    BY <2>2, <2>9 DEF ProgressInv, AgreeInv
<1> QED
  BY <1>1, <1>3, <1>5, <1>6

\* UpdateMetadataCallback (kubernetes.cc:1390) stores the entry of a result, whose
\* ids are registered.
LEMMA StoreEntryStep ==
  ASSUME PodInv, NEW w \in Watches, UpdateMetadataCallback(w)
  PROVE  PodInv'
<1> DEFINE result == results[w][next[w]]
<1>0. PodTypeOK /\ ResultInv /\ ResolveInv /\ RegisteredInv /\ EntryInv /\ StoreInv
  BY DEF PodInv
<1>1. /\ wpc[w] = "update_metadata"
      /\ UpdateMetadata(result.resource, result.metadata)
      /\ next' = [next EXCEPT ![w] = next[w] + 1]
      /\ wpc' = [wpc EXCEPT ![w] = IF next[w] < Len(results[w])
                                   THEN "update_resource" ELSE "idle"]
      /\ UNCHANGED <<handled, results>>
  BY DEF UpdateMetadataCallback
<1>2. /\ next[w] \in 1..Len(results[w])
      /\ result \in ResultType
      /\ result.metadata.ignore = FALSE
      /\ Describes(result.metadata.metadata.event, result.ids, result.resource)
      /\ w = "nodes" => TypeOf[result.resource] = "k8s_node"
  BY <1>1, ResultAtHand
<1>3. /\ result.ids \in SUBSET Ids /\ result.resource \in Resources
      /\ result.metadata \in Metadata
  BY <1>2 DEF ResultType
<1>4. \A id \in result.ids : resource_map[id] = result.resource
  BY <1>0, <1>1 DEF RegisteredInv
<1>5. /\ metadata_map' = [metadata_map EXCEPT ![result.resource] = result.metadata]
      /\ UNCHANGED resource_map
  BY <1>1, <1>2 DEF UpdateMetadata, ReplaceEntry
<1>6. ASSUME NEW u \in Watches
      PROVE  IF u = w
             THEN /\ next'[u] = next[w] + 1
                  /\ wpc'[u] = IF next[w] < Len(results[w])
                               THEN "update_resource" ELSE "idle"
             ELSE wpc'[u] = wpc[u] /\ next'[u] = next[u]
  BY <1>0, <1>1 DEF PodTypeOK
<1>7. StoreInv'
  BY <1>0, <1>1, <1>3, UpdateMetadataStep
<1>8. ASSUME w = "pods"
      PROVE  ProgressInv' /\ AgreeInv'
  BY <1>1, <1>5, <1>6, <1>8, PodWrite
<1>9. ASSUME w = "nodes"
      PROVE  ProgressInv' /\ AgreeInv'
  <2>1. "pods" \in Watches /\ w # "pods"
    BY <1>9 DEF Watches
  <2> QED
    BY <1>1, <1>2, <1>3, <1>5, <1>6, <1>9, <2>1, NodeWrite
<1> HIDE DEF result
<1>10. PodTypeOK'
  <2>1. next[w] + 1 \in Nat
    BY <1>0 DEF PodTypeOK
  <2>2. next' \in [Watches -> Nat]
    BY <1>0, <1>1, <2>1 DEF PodTypeOK
  <2>3. wpc' \in [Watches -> {"idle", "update_resource", "update_metadata"}]
    BY <1>0, <1>1 DEF PodTypeOK
  <2>4. next[w] < Len(results[w]) => next[w] + 1 \in 1..Len(results[w])
    BY <1>2
  <2>5. \A u \in Watches : wpc'[u] # "idle" => next'[u] \in 1..Len(results[u])
    BY <1>0, <1>6, <2>4 DEF PodTypeOK
  <2> QED
    BY <1>0, <1>1, <1>7, <2>2, <2>3, <2>5 DEF StoreInv, PodTypeOK
<1>11. \A u \in Watches : wpc'[u] # "idle" => wpc[u] # "idle"
  BY <1>1, <1>6
<1>12. ResultInv'
  BY <1>0, <1>1, <1>11 DEF ResultInv
<1>13. ResolveInv'
  BY <1>0, <1>5 DEF ResolveInv
<1>14. \A u \in Watches : wpc'[u] = "update_metadata" =>
         u # w /\ wpc[u] = "update_metadata" /\ next'[u] = next[u]
  BY <1>6
<1>15. RegisteredInv'
  BY <1>0, <1>1, <1>5, <1>14 DEF RegisteredInv
<1>16. EntryInv'
  <2> SUFFICES ASSUME NEW r \in Resources, metadata_map'[r] # None
               PROVE  \E ids \in SUBSET Ids :
                        /\ Describes(metadata_map'[r].metadata.event, ids, r)
                        /\ \A id \in ids : resource_map[id] = r
    BY <1>5 DEF EntryInv
  <2>1. CASE r = result.resource
    <3>1. metadata_map'[r] = result.metadata
      BY <1>0, <1>5, <2>1 DEF StoreInv, StoreTypeOK
    <3> QED
      BY <1>2, <1>3, <1>4, <2>1, <3>1
  <2>2. CASE r # result.resource
    <3>1. metadata_map'[r] = metadata_map[r]
      BY <1>0, <1>5, <2>2 DEF StoreInv, StoreTypeOK
    <3> QED
      BY <1>0, <3>1 DEF EntryInv
  <2> QED
    BY <2>1, <2>2
<1> QED
  BY <1>7, <1>8, <1>9, <1>10, <1>12, <1>13, <1>15, <1>16 DEF PodInv, Watches

\* The reporter purges deleted entries (reporter.cc:83-85) between any two of them.
LEMMA PurgeStep ==
  ASSUME PodInv, ReporterPurges
  PROVE  PodInv'
<1>0. PodTypeOK /\ ResultInv /\ ResolveInv /\ RegisteredInv /\ EntryInv
      /\ ProgressInv /\ AgreeInv /\ StoreInv
  BY DEF PodInv
<1>1. /\ metadata_map' =
           [r \in Resources |-> IF metadata_map[r] # None /\ metadata_map[r].is_deleted
                                THEN None ELSE metadata_map[r]]
      /\ UNCHANGED <<resource_map, handled, wpc, results, next>>
  BY DEF ReporterPurges, PurgeDeletedEntries, podVars
<1>2. StoreInv'
  BY <1>0, PurgeDeletedEntriesStep DEF ReporterPurges
<1>3. PodTypeOK' /\ ResultInv' /\ ResolveInv' /\ RegisteredInv'
  BY <1>0, <1>1, <1>2
     DEF StoreInv, PodTypeOK, ResultInv, ResolveInv, RegisteredInv
<1>4. \A r \in Resources : metadata_map'[r] # None => metadata_map'[r] = metadata_map[r]
  BY <1>1
<1>5. EntryInv'
  BY <1>0, <1>1, <1>4 DEF EntryInv
<1>6. ASSUME NEW pod, AgreeBut(metadata_map, pod)
      PROVE  AgreeBut(metadata_map', pod)
  BY <1>1, <1>6, StoredPodsAreNamed, PurgeAgrees
<1>7. AgreeInv'
  BY <1>0, <1>1, <1>6 DEF AgreeInv
<1>8. ProgressInv'
  <2> SUFFICES ASSUME wpc["pods"] # "idle"
               PROVE  \E e \in PodEvents, entry \in Metadata :
                        /\ Made(results["pods"], e, entry)
                        /\ \A j \in 1..Len(e.containers) : j < next["pods"] =>
                             HoldsIn(metadata_map', entry,
                                     ContainerResource(e, e.containers[j]))
                        /\ AgreeBut(metadata_map', PodResource(e))
    BY <1>1 DEF ProgressInv
  <2>1. PICK e \in PodEvents, entry \in Metadata :
          /\ Made(results["pods"], e, entry)
          /\ \A j \in 1..Len(e.containers) : j < next["pods"] =>
               HoldsIn(metadata_map, entry, ContainerResource(e, e.containers[j]))
          /\ AgreeBut(metadata_map, PodResource(e))
    BY <1>0 DEF ProgressInv
  <2>2. ASSUME NEW j \in 1..Len(e.containers), j < next["pods"]
        PROVE  HoldsIn(metadata_map', entry, ContainerResource(e, e.containers[j]))
    <3> DEFINE c == ContainerResource(e, e.containers[j])
    <3>1. c \in Resources
      BY PodResources
    <3>2. HoldsIn(metadata_map, entry, c)
      BY <2>1, <2>2
    <3> HIDE DEF c
    <3>3. HoldsIn(metadata_map', entry, c)
      BY <1>1, <3>1, <3>2 DEF HoldsIn
    <3> QED
      BY <3>3 DEF c
  <2> QED
    BY <1>6, <2>1, <2>2
<1> QED
  BY <1>2, <1>3, <1>5, <1>7, <1>8 DEF PodInv

--------------------------------------------------------------------------------
\* The theorems on pod and node metadata.

\* The invariant holds at the start and is kept by both watch threads and by the
\* reporter.
THEOREM PodInvariant == PodSpec => []PodInv
<1>1. ASSUME PodInit
      PROVE  PodInv
  <2>1. StoreInv
    BY <1>1 DEF PodInit, StoreInit, StoreInv, StoreTypeOK, CollectionTimesCoverEntries
  <2>2. PodTypeOK
    BY <1>1, <2>1, PodAssumption DEF PodInit, PodTypeOK, StoreInv
  <2>3. \A w \in Watches : wpc[w] = "idle"
    BY <1>1 DEF PodInit
  <2>4. wpc["pods"] = "idle"
    BY <2>3 DEF Watches
  <2>5. /\ \A r \in Resources : metadata_map[r] = None
        /\ \A id \in Ids : resource_map[id] = None
    BY <1>1 DEF PodInit, StoreInit
  <2>6. ResultInv /\ ResolveInv /\ RegisteredInv /\ EntryInv
    BY <2>3, <2>5 DEF ResultInv, ResolveInv, RegisteredInv, EntryInv
  <2>7. ProgressInv /\ AgreeInv
    BY <2>4, <2>5 DEF ProgressInv, AgreeInv, AgreeBut
  <2> QED
    BY <2>1, <2>2, <2>6, <2>7 DEF PodInv
<1>2. ASSUME PodInv, [PodNext]_vars
      PROVE  PodInv'
  <2>0. PodTypeOK /\ "pods" \in Watches /\ "nodes" \in Watches
    BY <1>2 DEF PodInv, Watches
  <2>1. ASSUME NEW e \in PodEvents, NEW c \in Controllers \cup {None}, PodCallback(e, c)
        PROVE  PodInv'
    <3> DEFINE v == GetPodAndContainerMetadata(e, c)
    <3>1. /\ v \in Seq(ResultType) /\ Len(v) \in Nat /\ Len(v) >= 1
          /\ Made(v, e, Entry(e, c))
          /\ \A j \in 1..Len(v) :
               /\ v[j].metadata.ignore = FALSE
               /\ Describes(v[j].metadata.metadata.event, v[j].ids, v[j].resource)
      BY <2>0, PodVector
    <3>2. Entry(e, c) \in Metadata
      BY <2>0, EntryType DEF Events
    <3>3. Begin("pods", v)
      BY <2>1 DEF PodCallback
    <3> HIDE DEF v
    <3> QED
      BY <1>2, <2>0, <3>1, <3>2, <3>3, BeginStep
  <2>2. ASSUME NEW e \in NodeEvents, NodeCallback(e)
        PROVE  PodInv'
    <3> DEFINE v == <<GetNodeMetadata(e)>>
    <3>1. /\ v \in Seq(ResultType) /\ Len(v) \in Nat /\ Len(v) >= 1
          /\ \A j \in 1..Len(v) :
               /\ v[j].metadata.ignore = FALSE
               /\ Describes(v[j].metadata.metadata.event, v[j].ids, v[j].resource)
               /\ TypeOf[v[j].resource] = "k8s_node"
      BY <2>0, NodeVector
    <3>2. Begin("nodes", v)
      BY <2>2 DEF NodeCallback
    <3> HIDE DEF v
    <3> QED
      BY <1>2, <2>0, <3>1, <3>2, BeginStep
  <2>3. ASSUME NEW w \in Watches, MetadataCallback(w)
        PROVE  PodInv'
    BY <1>2, <2>3, RegisterStep, StoreEntryStep DEF MetadataCallback
  <2>4. CASE ReporterPurges
    BY <1>2, <2>4, PurgeStep
  <2>5. CASE UNCHANGED vars
    <3>1. UNCHANGED <<storeVars, handled, wpc, results, next>>
      BY <2>5 DEF vars, podVars
    <3>2. StoreInv'
      BY <1>2, <3>1, StoreStep DEF PodInv
    <3>3. UNCHANGED <<resource_map, metadata_map, handled, wpc, results, next>>
      BY <3>1 DEF storeVars
    <3>4. PodTypeOK' /\ ResultInv' /\ ResolveInv' /\ RegisteredInv'
      BY <1>2, <3>2, <3>3
         DEF PodInv, StoreInv, PodTypeOK, ResultInv, ResolveInv, RegisteredInv
    <3>5. EntryInv' /\ ProgressInv' /\ AgreeInv'
      BY <1>2, <3>3 DEF PodInv, EntryInv, ProgressInv, AgreeInv
    <3> QED
      BY <3>2, <3>4, <3>5 DEF PodInv
  <2> QED
    BY <1>2, <2>1, <2>2, <2>3, <2>4, <2>5 DEF PodNext
<1> QED
  BY <1>1, <1>2, PTL DEF PodSpec

\* The loop of MetadataCallback (kubernetes.cc:1387) stays inside its vector, and
\* the maps have their types.
THEOREM PodTypeCorrect == PodSpec => []PodTypeOK
<1>1. PodInv => PodTypeOK
  BY DEF PodInv
<1> QED
  BY <1>1, PodInvariant, PTL

\* The pod and node threads and the reporter use the store as its specification
\* allows.
THEOREM PodImplementsStore == PodSpec => StoreSpec
<1>1. PodInit => StoreInit
  BY DEF PodInit
<1>2. ASSUME PodInv, [PodNext]_vars
      PROVE  [StoreNext]_storeVars
  <2>1. ASSUME NEW w \in Watches, MetadataCallback(w)
        PROVE  StoreNext
    <3> DEFINE result == results[w][next[w]]
    <3>1. wpc[w] # "idle"
      BY <2>1 DEF MetadataCallback, UpdateResourceCallback, UpdateMetadataCallback
    <3>2. result \in ResultType
      BY <1>2, <3>1, ResultAtHand
    <3>3. /\ result.ids \in SUBSET Ids /\ result.resource \in Resources
          /\ result.metadata \in Metadata
      BY <3>2 DEF ResultType
    <3>4. \/ UpdateResource(result.ids, result.resource)
          \/ UpdateMetadata(result.resource, result.metadata)
      BY <2>1 DEF MetadataCallback, UpdateResourceCallback, UpdateMetadataCallback
    <3> HIDE DEF result
    <3> QED
      BY <3>3, <3>4 DEF StoreNext
  <2>2. CASE ReporterPurges
    BY <2>2 DEF ReporterPurges, StoreNext
  <2>3. ASSUME NEW w, NEW v, Begin(w, v)
        PROVE  UNCHANGED storeVars
    BY <2>3 DEF Begin
  <2>4. CASE UNCHANGED vars
    BY <2>4 DEF vars
  <2> QED
    BY <1>2, <2>1, <2>2, <2>3, <2>4 DEF PodNext, PodCallback, NodeCallback
<1> QED
  BY <1>1, <1>2, PodInvariant, PTL DEF PodSpec, StoreSpec

\* Although the results of an event are stored one by one (kubernetes.cc:1387) and
\* the reporter purges between them, a stored pod agrees with its containers when
\* the pod thread is at rest.
THEOREM PodsAgreeWithContainers == PodSpec => []PodAndContainersAgree
<1>1. ASSUME PodInv
      PROVE  PodAndContainersAgree
  <2> SUFFICES ASSUME wpc["pods"] = "idle", NEW r \in Resources,
                      metadata_map[r] # None, TypeOf[r] = "k8s_pod",
                      NEW e, e = metadata_map[r].metadata.event,
                      NEW j \in 1..Len(e.containers),
                      NEW stored,
                      stored = metadata_map[ContainerResource(e, e.containers[j])]
               PROVE  stored = metadata_map[r]
                        \/ (metadata_map[r].is_deleted /\ stored = None)
    BY DEF PodAndContainersAgree
  <2>1. AgreeBut(metadata_map, None) /\ r # None
    BY <1>1, NoneAssumption DEF PodInv, AgreeInv
  <2>2. ContainerResource(e, e.containers[j]) \in Containers(e)
    BY DEF Containers
  <2>3. HoldsIn(metadata_map, metadata_map[r], ContainerResource(e, e.containers[j]))
    BY <2>1, <2>2 DEF AgreeBut
  <2> QED
    BY <2>3 DEF HoldsIn
<1> QED
  BY <1>1, PodInvariant, PTL

\* Every id of a stored resource (kubernetes.cc:155, 271, 347-377) resolves to it,
\* whatever pods come and go under the same name.
THEOREM IdsResolve == PodSpec => []IdsResolveExactly
<1>1. ASSUME PodInv
      PROVE  IdsResolveExactly
  <2> SUFFICES ASSUME NEW r \in Resources, metadata_map[r] # None,
                      NEW id \in StoredIds(r)
               PROVE  resource_map[id] = r
    BY DEF IdsResolveExactly
  <2> DEFINE e == metadata_map[r].metadata.event
  <2>1. PICK ids \in SUBSET Ids :
          Describes(e, ids, r) /\ \A x \in ids : resource_map[x] = r
    BY <1>1 DEF PodInv, EntryInv
  <2>2. /\ TypeOf[r] = "k8s_pod" => ids = PodIds(e)
        /\ TypeOf[r] = "k8s_container" =>
             \E j \in 1..Len(e.containers) :
               /\ r = ContainerResource(e, e.containers[j])
               /\ ids = ContainerIds(e, e.containers[j])
        /\ TypeOf[r] # "k8s_pod" /\ TypeOf[r] # "k8s_container" => ids = NodeIds(e)
    BY <2>1, DescribesFacts
  <2> HIDE DEF e
  <2>3. ASSUME NEW c, r = ContainerResource(e, c)
        PROVE  r[3] = c
    BY <2>3 DEF ContainerResource
  <2>4. StoredIds(r) = CASE TypeOf[r] = "k8s_pod" -> PodIds(e)
                         [] TypeOf[r] = "k8s_container" -> ContainerIds(e, r[3])
                         [] OTHER -> NodeIds(e)
    BY DEF StoredIds, e
  <2>5. CASE TypeOf[r] = "k8s_pod"
    <3>1. StoredIds(r) = PodIds(e)
      BY <2>4, <2>5
    <3> QED
      BY <2>1, <2>2, <2>5, <3>1
  <2>6. CASE TypeOf[r] = "k8s_container"
    <3>1. StoredIds(r) = ContainerIds(e, r[3])
      BY <2>4, <2>6
    <3> QED
      BY <2>1, <2>2, <2>3, <2>6, <3>1
  <2>7. CASE TypeOf[r] # "k8s_pod" /\ TypeOf[r] # "k8s_container"
    <3>1. StoredIds(r) = NodeIds(e)
      BY <2>4, <2>7
    <3> QED
      BY <2>1, <2>2, <2>7, <3>1
  <2> QED
    BY <2>5, <2>6, <2>7
<1> QED
  BY <1>1, PodInvariant, PTL
================================================================================
