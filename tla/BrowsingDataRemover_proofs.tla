--------------------- MODULE BrowsingDataRemover_proofs ---------------------
(***************************************************************************)
(* The remover is deleted once and last, for all origins, masks and data.  *)
(***************************************************************************)
EXTENDS BrowsingDataRemover, FiniteSetTheorems, TLAPS

Tasks == {"clearedCache", "quotaDeleted", "delete"}

\* What the flags alone do not say: which work a request can cause
Bookkeeping ==
  /\ waiting \subseteq request.jobs
  /\ request = NoRequest => alive /\ uiTasks = <<>> /\ ~usageAsked /\ appDeletes = {}
  /\ localDeletes # {} => "localStorage" \in request.jobs
  /\ "appcache" \in request.jobs => request.jobs = {"appcache"} /\ uiTasks = <<>>
  /\ "cache" \in request.jobs => request.jobs = {"cache"}
  /\ usageAsked => "localStorage" \in request.jobs \/ "appcache" \in request.jobs
  /\ appDeletes # {} => "appcache" \in request.jobs
  /\ uiTasks # <<>> => alive
  /\ \A t \in asked, o \in Origins : <<o, t>> \notin deleting

RemoverInv == RemoverTypeOK /\ WaitingMeansWork /\ NothingAfterDelete /\ Bookkeeping
----------------------------------------------------------------------------
\* The UI thread never holds more than one task of the remover
LEMMA OneTask ==
  ASSUME NEW q \in Seq(Tasks), Len(q) <= 1
  PROVE  /\ q = <<>> \/ \E x \in Tasks : q = <<x>>
         /\ q # <<>> => Tail(q) = <<>> /\ q = <<Head(q)>> /\ Head(q) \in Tasks
<1>1. CASE Len(q) = 0
  <2>1. q = <<>>
    BY <1>1
  <2> QED
    BY <2>1
<1>2. CASE Len(q) = 1
  <2>1. q[1] \in Tasks /\ q = <<q[1]>>
    BY <1>2
  <2> QED
    BY <2>1
<1>3. Len(q) \in Nat
  OBVIOUS
<1>4. Len(q) = 0 \/ Len(q) = 1
  <2>1. \A n \in Nat : n <= 1 => n = 0 \/ n = 1
    OBVIOUS
  <2> QED
    BY <1>3, <2>1, Zenon
<1> QED
  BY <1>1, <1>2, <1>4

LEMMA NewTask ==
  ASSUME NEW x \in Tasks
  PROVE  /\ Append(<<>>, x) = <<x>> /\ <<x>> \in Seq(Tasks) /\ Len(<<x>>) = 1
         /\ <<x>> # <<>> /\ \A y : <<x>> = <<y>> <=> x = y
         /\ <<>> \in Seq(Tasks) /\ Len(<<>>) = 0 /\ \A y : <<>> # <<y>>
OBVIOUS

LEMMA SomeStorageTypes ==
  /\ IsFiniteSet(StorageTypes) /\ Cardinality(StorageTypes) \in Nat
  /\ StorageTypes # {}
<1>1. IsFiniteSet({}) /\ IsFiniteSet({"persistent"})
      /\ IsFiniteSet({"persistent", "temporary"})
      /\ IsFiniteSet({"persistent", "temporary", "syncable"})
  BY FS_EmptySet, FS_AddElement,
     {"persistent"} = {} \cup {"persistent"},
     {"persistent", "temporary"} = {"persistent"} \cup {"temporary"},
     {"persistent", "temporary", "syncable"}
       = {"persistent", "temporary"} \cup {"syncable"}
<1> QED
  BY <1>1, FS_CardinalityType DEF StorageTypes

\* The counters count finite sets
LEMMA Countable ==
  ASSUME NEW a \in SUBSET StorageTypes, NEW d \in SUBSET (Origins \X StorageTypes)
  PROVE  /\ IsFiniteSet(a) /\ IsFiniteSet(d)
         /\ Cardinality(a) \in Nat /\ Cardinality(d) \in Nat
         /\ Cardinality(a) = 0 <=> a = {}
         /\ Cardinality(d) = 0 <=> d = {}
<1>1. IsFiniteSet(a)
  BY SomeStorageTypes, FS_Subset
<1>2. IsFiniteSet(Origins \X StorageTypes)
  BY SomeStorageTypes, OriginsAssumption, FS_Product
<1>3. IsFiniteSet(d)
  BY <1>2, FS_Subset
<1> QED
  BY <1>1, <1>3, FS_CardinalityType, FS_EmptySet

\* The deletions of one type are as many as their origins
LEMMA PairsCounted ==
  ASSUME NEW t, NEW later \in SUBSET Origins
  PROVE  Cardinality({<<o, t>> : o \in later}) = Cardinality(later)
<1> DEFINE pairs == {<<o, t>> : o \in later}
           f == [o \in later |-> <<o, t>>]
<1>1. f \in [later -> pairs]
  OBVIOUS
<1>2. \A x, y \in later : f[x] = f[y] => x = y
  OBVIOUS
<1>3. \A p \in pairs : \E o \in later : f[o] = p
  OBVIOUS
<1>4. f \in Bijection(later, pairs)
  BY <1>1, <1>2, <1>3 DEF Bijection, Injection, Surjection, IsInjective
<1>5. ExistsBijection(later, pairs) /\ IsFiniteSet(later)
  BY <1>4, OriginsAssumption, FS_Subset DEF ExistsBijection
<1> QED
  BY <1>5, FS_Bijection

LEMMA DeletionsAdded ==
  ASSUME NEW t \in StorageTypes, NEW later \in SUBSET Origins,
         NEW d \in SUBSET (Origins \X StorageTypes),
         \A o \in Origins : <<o, t>> \notin d
  PROVE  Cardinality(d \cup {<<o, t>> : o \in later})
           = Cardinality(d) + Cardinality(later)
<1> DEFINE pairs == {<<o, t>> : o \in later}
<1>1. pairs \in SUBSET (Origins \X StorageTypes) /\ d \cap pairs = {}
  OBVIOUS
<1>2. IsFiniteSet(d) /\ IsFiniteSet(pairs) /\ Cardinality(d) \in Nat
      /\ Cardinality(pairs) \in Nat
  BY <1>1, Countable
<1>3. Cardinality(d \cup pairs)
        = Cardinality(d) + Cardinality(pairs) - Cardinality(d \cap pairs)
  BY <1>2, FS_Union
<1>4. Cardinality(d \cap pairs) = 0
  BY <1>1, FS_EmptySet
<1>5. Cardinality(d \cup pairs) = Cardinality(d) + Cardinality(pairs)
  BY <1>2, <1>3, <1>4
<1> QED
  BY <1>5, PairsCounted

LEMMA RemovedTypes ==
  ASSUME RemoverTypeOK, NEW items, Removed(items)
  PROVE  data' \subseteq Items /\ failed' \subseteq Items
BY DEF RemoverTypeOK, Removed

LEMMA RemoverInitInv == RemoverInit => RemoverInv
<1> SUFFICES ASSUME RemoverInit PROVE RemoverInv
  OBVIOUS
<1>1. RemoverTypeOK
  <2>1. data \subseteq Items
    <3>1. PICK d \in SUBSET (Items \ CacheItems) : data = CacheItems \cup d
      BY DEF RemoverInit
    <3>2. CacheItems \subseteq Items
      BY DEF Items
    <3> QED
      BY <3>1, <3>2
  <2>2. request \in Request
    BY DEF RemoverInit, Request, NoRequest
  <2>3. uiTasks \in Seq(Tasks) /\ typesLeft \in Nat /\ originsLeft \in Nat
    BY DEF RemoverInit
  <2> QED
    BY <2>1, <2>2, <2>3 DEF RemoverInit, RemoverTypeOK, Tasks
<1>2. WaitingMeansWork
  BY FS_EmptySet DEF RemoverInit, WaitingMeansWork, CacheWork, QuotaWork
<1>3. NothingAfterDelete /\ Bookkeeping
  BY DEF RemoverInit, NothingAfterDelete, Bookkeeping, NoRequest
<1> QED
  BY <1>1, <1>2, <1>3 DEF RemoverInv
----------------------------------------------------------------------------
\* Nothing is under way before the request
LEMMA Unasked ==
  ASSUME RemoverInv, request = NoRequest
  PROVE  /\ waiting = {} /\ alive /\ uiTasks = <<>> /\ ioTask = "none"
         /\ clearing = "idle" /\ cacheState = "NONE" /\ asked = {} /\ deleting = {}
         /\ ~usageAsked /\ appDeletes = {} /\ localDeletes = {}
<1>1. waiting = {} /\ alive /\ uiTasks = <<>> /\ ~usageAsked /\ appDeletes = {}
      /\ localDeletes = {}
  BY DEF RemoverInv, Bookkeeping, NoRequest
<1>2. ioTask = "none" /\ clearing = "idle" /\ asked \cup deleting = {}
  BY <1>1 DEF RemoverInv, WaitingMeansWork, CacheWork, QuotaWork, RemoverTypeOK
<1> QED
  BY <1>1, <1>2 DEF RemoverInv, WaitingMeansWork, CacheWork

LEMMA RequestInv ==
  ASSUME RemoverInv,
         ClearNetworkCache
           \/ \E m \in Masks, o \in Origins \cup {AnyOrigin} : RemoveImpl(m, o)
  PROVE  RemoverInv'
<1> USE DEF cacheVars, quotaVars, posted
<1>1. CASE ClearNetworkCache
  <2>1. UNCHANGED <<alive, clearing, cacheState, cache, typesLeft, originsLeft,
                    posted, uiTasks, usageAsked, asked, deleting, data, failed>>
        /\ request'.jobs = {"cache"} /\ waiting' = {"cache"} /\ ioTask' = "clearCache"
    BY <1>1 DEF ClearNetworkCache
  <2>2. request = NoRequest /\ request' \in Request /\ request' # NoRequest
    BY <1>1 DEF ClearNetworkCache, Request, NoRequest
  <2>3. RemoverTypeOK'
    BY <2>1, <2>2 DEF RemoverInv, RemoverTypeOK
  <2>4. WaitingMeansWork'
    BY <2>1, <2>2, Unasked DEF RemoverInv, WaitingMeansWork, CacheWork, QuotaWork
  <2>5. NothingAfterDelete' /\ Bookkeeping'
    BY <2>1, <2>2, Unasked DEF NothingAfterDelete, Bookkeeping
  <2> QED
    BY <2>3, <2>4, <2>5 DEF RemoverInv
<1>2. ASSUME NEW m \in Masks, NEW o \in Origins \cup {AnyOrigin}, RemoveImpl(m, o)
      PROVE  RemoverInv'
  <2>1. UNCHANGED <<alive, clearing, cacheState, cache, typesLeft, originsLeft, uiTasks,
                    localDeletes, asked, deleting, data, failed>>
        /\ request = NoRequest /\ request' = [jobs |-> m, origin |-> o]
        /\ waiting' = m \ {"appcache"}
        /\ ioTask' = IF "quota" \in m THEN "clearQuota" ELSE "none"
    BY <1>2 DEF RemoveImpl
  <2>2. m # {} /\ m \subseteq Jobs /\ ("appcache" \in m => m = {"appcache"})
    BY MasksAssumption
  <2>3. request' \in Request /\ request' # NoRequest /\ request'.jobs = m
    BY <2>1, <2>2 DEF Request, NoRequest
  <2>4. /\ usageAsked' \in BOOLEAN
        /\ usageAsked' => "localStorage" \in m \/ "appcache" \in m
        /\ "localStorage" \in m => usageAsked'
    BY <1>2, Zenon DEF RemoveImpl
  <2>5. appDeletes' \subseteq Origins /\ (appDeletes' # {} => "appcache" \in m)
    BY <1>2 DEF RemoveImpl
  <2>6. RemoverTypeOK'
    BY <2>1, <2>2, <2>3, <2>4, <2>5 DEF RemoverInv, RemoverTypeOK, Jobs
  <2>7. WaitingMeansWork'
    BY <2>1, <2>2, <2>3, <2>4, Unasked
       DEF RemoverInv, WaitingMeansWork, CacheWork, QuotaWork, Jobs
  <2>8. NothingAfterDelete' /\ Bookkeeping'
    BY <2>1, <2>2, <2>3, <2>4, <2>5, Unasked
       DEF NothingAfterDelete, Bookkeeping, Jobs
  <2> QED
    BY <2>6, <2>7, <2>8 DEF RemoverInv
<1> QED
  BY <1>1, <1>2

\* While DoClearCache is between its start and its end
LEMMA CacheFrame ==
  ASSUME RemoverInv, clearing # "idle" \/ ioTask = "clearCache",
         UNCHANGED <<alive, request, waiting, quotaVars, posted, uiTasks, usageAsked>>,
         clearing' \in {"running", "waiting"}, ioTask' = "none",
         cacheState' \in {"CREATE_MAIN", "DELETE_MAIN", "CREATE_MEDIA",
                          "DELETE_MEDIA", "DONE"},
         cache' \in Caches \cup {"none"},
         data' \subseteq Items, failed' \subseteq Items
  PROVE  RemoverInv'
<1> USE DEF quotaVars, posted
<1>0. RemoverTypeOK /\ WaitingMeansWork /\ NothingAfterDelete /\ Bookkeeping
  BY DEF RemoverInv
<1>1. RemoverTypeOK'
  BY <1>0 DEF RemoverTypeOK
<1>2. "cache" \in waiting /\ uiTasks = <<>> /\ alive
  BY <1>0 DEF WaitingMeansWork, CacheWork, NothingAfterDelete
<1>3. "quota" \notin waiting /\ asked \cup deleting = {} /\ ioTask # "clearQuota"
  BY <1>0, <1>2 DEF Bookkeeping, WaitingMeansWork, QuotaWork
<1>4. CacheWork'
  BY <1>2
     DEF CacheWork
<1>5. QuotaWork'
  BY <1>0, <1>3 DEF QuotaWork, WaitingMeansWork
<1>6. WaitingMeansWork'
  BY <1>0, <1>4, <1>5 DEF WaitingMeansWork
<1>7. NothingAfterDelete' /\ Bookkeeping'
  BY <1>0, <1>2 DEF NothingAfterDelete, Bookkeeping
<1> QED
  BY <1>1, <1>6, <1>7 DEF RemoverInv

LEMMA CacheStepInv == ASSUME RemoverInv, CacheStep PROVE RemoverInv'
<1> USE DEF cacheVars, quotaVars, posted
<1>0. RemoverTypeOK /\ WaitingMeansWork /\ NothingAfterDelete /\ Bookkeeping
  BY DEF RemoverInv
<1>1. clearing # "idle" => ioTask = "none" /\ cacheState # "NONE"
  <2>1. clearing # "idle" => "cache" \in waiting
    BY <1>0 DEF WaitingMeansWork, CacheWork
  <2>2. clearing # "idle" => ioTask # "clearQuota"
    BY <1>0, <2>1 DEF WaitingMeansWork, QuotaWork, Bookkeeping
  <2> QED
    BY <1>0, <2>2 DEF WaitingMeansWork, CacheWork, RemoverTypeOK
<1>2. CASE ClearNetworkCacheOnIOThread
  <2>1. cache' \in Caches \cup {"none"} /\ data' \subseteq Items
        /\ failed' \subseteq Items
    BY <1>0, <1>2 DEF ClearNetworkCacheOnIOThread, RemoverTypeOK
  <2> QED
    BY <1>2, <2>1, CacheFrame DEF ClearNetworkCacheOnIOThread
<1>3. CASE CreateBackend
  <2>1. cache' \in Caches \cup {"none"} /\ data' \subseteq Items
        /\ failed' \subseteq Items /\ clearing' \in {"running", "waiting"}
        /\ cacheState' \in {"DELETE_MAIN", "DELETE_MEDIA"}
    BY <1>0, <1>3 DEF CreateBackend, RemoverTypeOK, Served, AfterCreate, Caches
  <2> QED
    BY <1>1, <1>3, <2>1, CacheFrame DEF CreateBackend
<1>4. CASE BackendReady
  <2>1. cache' \in Caches \cup {"none"} /\ data' \subseteq Items
        /\ failed' \subseteq Items
    BY <1>0, <1>4 DEF BackendReady, RemoverTypeOK, Served, Caches
  <2> QED
    BY <1>1, <1>4, <2>1, CacheFrame DEF BackendReady
<1>5. CASE DoomEntries
  <2>1. data' \subseteq Items /\ failed' \subseteq Items
    <3>1. CASE UNCHANGED data
               /\ failed' = failed \cup (data \cap {CacheItem(Served(cacheState))})
      BY <1>0, <3>1 DEF RemoverTypeOK
    <3>2. CASE Removed({CacheItem(cache)})
      BY <1>0, <3>2, RemovedTypes
    <3>3. CASE UNCHANGED <<data, failed>>
      BY <1>0, <3>3 DEF RemoverTypeOK
    <3> QED
      BY <1>5, <3>1, <3>2, <3>3 DEF DoomEntries
  <2>2. clearing' \in {"running", "waiting"}
        /\ cacheState' \in {"CREATE_MEDIA", "DONE"}
    BY <1>5 DEF DoomEntries, AfterDelete
  <2> QED
    BY <1>1, <1>5, <2>1, <2>2, CacheFrame DEF DoomEntries
<1>6. CASE Doomed
  <2>1. data' \subseteq Items /\ failed' \subseteq Items
    BY <1>0, <1>6, RemovedTypes DEF Doomed
  <2>2. cache' \in Caches \cup {"none"}
    BY <1>0, <1>6 DEF Doomed, RemoverTypeOK
  <2> QED
    BY <1>1, <1>6, <2>1, <2>2, CacheFrame DEF Doomed
<1>7. CASE CacheDone
  <2>1. uiTasks = <<>> /\ alive /\ "cache" \in waiting /\ ioTask = "none"
    BY <1>0, <1>1, <1>7 DEF CacheDone, WaitingMeansWork, CacheWork, NothingAfterDelete
  <2>2. uiTasks' = <<"clearedCache">> /\ uiTasks' \in Seq(Tasks) /\ uiTasks' # <<>> /\ Len(uiTasks') = 1
        /\ uiTasks' # <<"delete">> /\ uiTasks' # <<"quotaDeleted">>
    BY <1>7, <2>1, NewTask DEF CacheDone, Tasks
  <2>3. UNCHANGED <<alive, request, waiting, ioTask, typesLeft, originsLeft, asked,
                    deleting, posted, usageAsked, data, failed>>
        /\ cacheState' = "NONE" /\ cache' = "none" /\ clearing' = "idle"
    BY <1>7 DEF CacheDone
  <2>4. request.jobs = {"cache"} /\ "quota" \notin waiting /\ asked \cup deleting = {}
    BY <1>0, <2>1 DEF Bookkeeping, WaitingMeansWork, QuotaWork
  <2>5. RemoverTypeOK'
    BY <1>0, <2>2, <2>3 DEF RemoverTypeOK, Tasks
  <2>6. CacheWork'
    BY <2>1, <2>2, <2>3 DEF CacheWork
  <2>7. QuotaWork'
    BY <1>0, <2>1, <2>2, <2>3, <2>4 DEF QuotaWork, WaitingMeansWork
  <2>8. WaitingMeansWork'
    BY <1>0, <2>2, <2>3, <2>6, <2>7 DEF WaitingMeansWork
  <2>9. NothingAfterDelete' /\ Bookkeeping'
    BY <1>0, <2>1, <2>2, <2>3, <2>4 DEF NothingAfterDelete, Bookkeeping, NoRequest
  <2> QED
    BY <2>5, <2>8, <2>9 DEF RemoverInv
<1> QED
  BY <1>2, <1>3, <1>4, <1>5, <1>6, <1>7 DEF CacheStep

\* While quota managed data is being removed
LEMMA QuotaFrame ==
  ASSUME RemoverInv, "quota" \in waiting, uiTasks = <<>>,
         UNCHANGED <<alive, request, waiting, cacheVars, posted, usageAsked>>,
         ioTask' = "none",
         asked' \subseteq StorageTypes, deleting' \subseteq Origins \X StorageTypes,
         \A t \in asked', o \in Origins : <<o, t>> \notin deleting',
         typesLeft' = Cardinality(asked'), originsLeft' = Cardinality(deleting'),
         CheckQuotaManagedDataDeletionStatus(typesLeft', originsLeft'),
         data' \subseteq Items, failed' \subseteq Items
  PROVE  RemoverInv'
<1> USE DEF cacheVars, posted
<1>0. RemoverTypeOK /\ WaitingMeansWork /\ NothingAfterDelete /\ Bookkeeping
  BY DEF RemoverInv
<1>1. /\ typesLeft' \in Nat /\ originsLeft' \in Nat
      /\ typesLeft' = 0 <=> asked' = {}
      /\ originsLeft' = 0 <=> deleting' = {}
  BY Countable
<1>2. \/ uiTasks' = <<"quotaDeleted">> /\ asked' \cup deleting' = {}
      \/ uiTasks' = <<>> /\ asked' \cup deleting' # {}
  BY <1>1, NewTask DEF CheckQuotaManagedDataDeletionStatus, Tasks
<1>3. /\ uiTasks' \in Seq(Tasks) /\ Len(uiTasks') <= 1
      /\ uiTasks' # <<"delete">> /\ uiTasks' # <<"clearedCache">>
      /\ uiTasks' = <<"quotaDeleted">> \/ uiTasks' = <<>>
      /\ uiTasks' = <<"quotaDeleted">> <=> asked' \cup deleting' = {}
  <2>1. "quotaDeleted" \in Tasks /\ "quotaDeleted" # "delete"
        /\ "quotaDeleted" # "clearedCache"
    BY DEF Tasks
  <2>2. CASE uiTasks' = <<"quotaDeleted">> /\ asked' \cup deleting' = {}
    BY <2>1, <2>2, NewTask
  <2>3. CASE uiTasks' = <<>> /\ asked' \cup deleting' # {}
    BY <2>1, <2>3, NewTask
  <2> QED
    BY <1>2, <2>2, <2>3
<1>4. alive /\ "cache" \notin waiting /\ ioTask # "clearCache" /\ clearing = "idle"
      /\ request.jobs # {"appcache"} /\ "appcache" \notin request.jobs
      /\ request # NoRequest
  BY <1>0 DEF NothingAfterDelete, WaitingMeansWork, CacheWork, Bookkeeping, NoRequest
<1>5. RemoverTypeOK'
  BY <1>0, <1>1, <1>3 DEF RemoverTypeOK, Tasks
<1>6. CacheWork'
  BY <1>0, <1>3, <1>4 DEF CacheWork, WaitingMeansWork
<1>7. QuotaWork'
  BY <1>3 DEF QuotaWork
<1>8. WaitingMeansWork'
  BY <1>0, <1>3, <1>6, <1>7 DEF WaitingMeansWork
<1>9. NothingAfterDelete' /\ Bookkeeping'
  BY <1>0, <1>4 DEF NothingAfterDelete, Bookkeeping
<1> QED
  BY <1>5, <1>8, <1>9 DEF RemoverInv

LEMMA QuotaStepInv == ASSUME RemoverInv, QuotaStep PROVE RemoverInv'
<1> USE DEF cacheVars, posted
<1>0. RemoverTypeOK /\ WaitingMeansWork /\ NothingAfterDelete /\ Bookkeeping
  BY DEF RemoverInv
<1>1. CASE ClearQuotaManagedDataOnIOThread
  <2>1. "quota" \in waiting /\ uiTasks = <<>> /\ asked \cup deleting = {}
    BY <1>0, <1>1 DEF ClearQuotaManagedDataOnIOThread, WaitingMeansWork, QuotaWork
  <2>2. asked' = StorageTypes /\ deleting' = {} /\ uiTasks' = uiTasks
        /\ typesLeft' = Cardinality(asked') /\ originsLeft' = 0
    BY <1>1, <2>1 DEF ClearQuotaManagedDataOnIOThread
  <2>3. originsLeft' = Cardinality(deleting')
    BY <2>2, FS_EmptySet
  <2>4. typesLeft' # 0
    BY <2>2, Countable, SomeStorageTypes
  <2>5. CheckQuotaManagedDataDeletionStatus(typesLeft', originsLeft')
    BY <2>2, <2>4 DEF CheckQuotaManagedDataDeletionStatus
  <2>6. data' \subseteq Items /\ failed' \subseteq Items
    BY <1>0, <1>1 DEF RemoverTypeOK, ClearQuotaManagedDataOnIOThread
  <2> QED
    BY <1>1, <2>1, <2>2, <2>3, <2>5, <2>6, QuotaFrame
       DEF ClearQuotaManagedDataOnIOThread
<1>2. ASSUME NEW t \in StorageTypes, OnGotQuotaManagedOrigins(t)
      PROVE  RemoverInv'
  <2>1. t \in asked /\ asked' = asked \ {t} /\ typesLeft' = typesLeft - 1
        /\ UNCHANGED <<alive, request, waiting, ioTask, cacheVars, posted,
                       usageAsked>>
        /\ CheckQuotaManagedDataDeletionStatus(typesLeft', originsLeft')
    BY <1>2 DEF OnGotQuotaManagedOrigins
  <2>2. PICK later \in SUBSET Chosen(t) :
          /\ Removed({QuotaItem(o, t) : o \in Chosen(t) \ later})
          /\ deleting' = deleting \cup {<<o, t>> : o \in later}
          /\ originsLeft' = originsLeft + Cardinality(later)
    BY <1>2 DEF OnGotQuotaManagedOrigins
  <2>3. later \in SUBSET Origins
    BY DEF Chosen
  <2>4. "quota" \in waiting /\ uiTasks = <<>> /\ ioTask = "none"
    <3>1. "quota" \in waiting /\ uiTasks = <<>> /\ ioTask # "clearQuota"
      BY <1>0, <2>1 DEF WaitingMeansWork, QuotaWork
    <3>2. "cache" \notin waiting
      BY <1>0, <3>1 DEF Bookkeeping
    <3> QED
      BY <1>0, <3>1, <3>2 DEF WaitingMeansWork, CacheWork, RemoverTypeOK
  <2>5. asked \in SUBSET StorageTypes /\ deleting \in SUBSET (Origins \X StorageTypes)
    BY <1>0 DEF RemoverTypeOK
  <2>6. typesLeft' = Cardinality(asked')
    <3>1. IsFiniteSet(asked) /\ typesLeft = Cardinality(asked)
      BY <1>0, <2>5, Countable DEF WaitingMeansWork, QuotaWork
    <3> QED
      BY <2>1, <3>1, FS_RemoveElement
  <2>7. originsLeft' = Cardinality(deleting')
    <3>1. originsLeft = Cardinality(deleting)
      BY <1>0 DEF WaitingMeansWork, QuotaWork
    <3>2. \A o \in Origins : <<o, t>> \notin deleting
      BY <1>0, <2>1 DEF Bookkeeping
    <3> QED
      BY <2>2, <2>3, <2>5, <3>1, <3>2, DeletionsAdded
  <2>8. \A s \in asked', o \in Origins : <<o, s>> \notin deleting'
    BY <1>0, <2>1, <2>2, <2>3 DEF Bookkeeping
  <2>9. asked' \subseteq StorageTypes /\ deleting' \subseteq Origins \X StorageTypes
    BY <2>1, <2>2, <2>3, <2>5
  <2>10. data' \subseteq Items /\ failed' \subseteq Items
    BY <1>0, <2>2, RemovedTypes
  <2> QED
    BY <2>1, <2>4, <2>6, <2>7, <2>8, <2>9, <2>10, QuotaFrame
<1>3. ASSUME NEW o \in Origins, NEW t \in StorageTypes,
             OnQuotaManagedOriginDeletion(o, t)
      PROVE  RemoverInv'
  <2>1. <<o, t>> \in deleting /\ deleting' = deleting \ {<<o, t>>}
        /\ originsLeft' = originsLeft - 1
        /\ UNCHANGED <<alive, request, waiting, ioTask, cacheVars, typesLeft, asked,
                       posted, usageAsked>>
        /\ CheckQuotaManagedDataDeletionStatus(typesLeft', originsLeft')
    BY <1>3 DEF OnQuotaManagedOriginDeletion
  <2>2. "quota" \in waiting /\ uiTasks = <<>> /\ ioTask = "none"
    <3>1. "quota" \in waiting /\ uiTasks = <<>> /\ ioTask # "clearQuota"
      BY <1>0, <2>1 DEF WaitingMeansWork, QuotaWork
    <3>2. "cache" \notin waiting
      BY <1>0, <3>1 DEF Bookkeeping
    <3> QED
      BY <1>0, <3>1, <3>2 DEF WaitingMeansWork, CacheWork, RemoverTypeOK
  <2>3. asked \in SUBSET StorageTypes /\ deleting \in SUBSET (Origins \X StorageTypes)
    BY <1>0 DEF RemoverTypeOK
  <2>4. originsLeft' = Cardinality(deleting')
    <3>1. IsFiniteSet(deleting) /\ originsLeft = Cardinality(deleting)
      BY <1>0, <2>3, Countable DEF WaitingMeansWork, QuotaWork
    <3> QED
      BY <2>1, <3>1, FS_RemoveElement
  <2>5. typesLeft' = Cardinality(asked')
    BY <1>0, <2>1 DEF WaitingMeansWork, QuotaWork
  <2>6. \A s \in asked', p \in Origins : <<p, s>> \notin deleting'
    BY <1>0, <2>1 DEF Bookkeeping
  <2>7. asked' \subseteq StorageTypes /\ deleting' \subseteq Origins \X StorageTypes
    BY <2>1, <2>3
  <2>8. data' \subseteq Items /\ failed' \subseteq Items
    BY <1>0, <1>3, RemovedTypes DEF OnQuotaManagedOriginDeletion
  <2> QED
    BY <2>1, <2>2, <2>4, <2>5, <2>6, <2>7, <2>8, QuotaFrame
<1> QED
  BY <1>1, <1>2, <1>3 DEF QuotaStep
----------------------------------------------------------------------------
\* What a running task or an answer says of the queue
LEMMA UITasks ==
  ASSUME RemoverTypeOK, Len(uiTasks) <= 1
  PROVE  /\ \A x : Running(x) => uiTasks = <<x>> /\ Tail(uiTasks) = <<>>
         /\ uiTasks = <<>> \/ uiTasks = <<"clearedCache">> \/ uiTasks = <<"quotaDeleted">>
              \/ uiTasks = <<"delete">>
<1>1. uiTasks \in Seq(Tasks)
  BY DEF RemoverTypeOK, Tasks
<1> QED
  BY <1>1, OneTask DEF Running, Tasks

\* A flag is cleared and nothing but the deletion is left in the queue
LEMMA FinishedInv ==
  ASSUME RemoverInv, NEW job \in waiting, waiting' = waiting \ {job},
         UNCHANGED <<alive, request, ioTask, cacheVars, quotaVars, appDeletes, data,
                     failed>>,
         localDeletes' \subseteq Origins,
         localDeletes' # {} => "localStorage" \in request.jobs,
         job = "cache" => uiTasks = <<"clearedCache">>,
         job = "quota" => uiTasks = <<"quotaDeleted">>,
         usageAsked' = (usageAsked /\ job # "localStorage"),
         job = "localStorage" => uiTasks = <<>> \/ uiTasks = <<"quotaDeleted">>,
         IF waiting' = {} THEN uiTasks' = <<"delete">>
         ELSE uiTasks' = IF job = "localStorage" THEN uiTasks ELSE <<>>
  PROVE  RemoverInv'
<1> USE DEF cacheVars, quotaVars, posted
<1>0. RemoverTypeOK /\ WaitingMeansWork /\ NothingAfterDelete /\ Bookkeeping
  BY DEF RemoverInv
<1>1. alive /\ request # NoRequest /\ request.jobs # {"appcache"}
      /\ "appcache" \notin request.jobs
  BY <1>0 DEF NothingAfterDelete, Bookkeeping, NoRequest, RemoverTypeOK
<1>2. /\ job \in {"cache", "localStorage", "quota"}
      /\ <<"delete">> \in Seq(Tasks) /\ Len(<<"delete">>) = 1 /\ Len(<<>>) = 0
      /\ <<>> \in Seq(Tasks) /\ <<"delete">> # <<"clearedCache">>
      /\ <<"delete">> # <<"quotaDeleted">> /\ <<>> # <<"delete">>
      /\ <<>> # <<"clearedCache">> /\ <<>> # <<"quotaDeleted">>
      /\ <<"clearedCache">> # <<"quotaDeleted">>
  BY <1>0, NewTask DEF RemoverTypeOK, Tasks
<1>3. RemoverTypeOK'
  <2>1. uiTasks' \in Seq(Tasks)
    BY <1>0, <1>2 DEF RemoverTypeOK, Tasks
  <2>2. usageAsked' \in BOOLEAN
    BY Zenon
  <2> QED
    BY <1>0, <2>1, <2>2 DEF RemoverTypeOK, Tasks
<1>4. "cache" \in waiting => waiting' = {} /\ job = "cache" /\ "quota" \notin waiting
  BY <1>0, <1>2 DEF Bookkeeping
<1>5. CacheWork'
  BY <1>0, <1>2, <1>4 DEF CacheWork, WaitingMeansWork
<1>6. QuotaWork'
  BY <1>0, <1>2, <1>4 DEF QuotaWork, WaitingMeansWork
<1>7. /\ "localStorage" \in waiting' <=> usageAsked' /\ "localStorage" \in request.jobs
      /\ uiTasks' = <<"delete">> => waiting' = {}
      /\ Len(uiTasks') <= 1
  <2>1. usageAsked' <=> usageAsked /\ job # "localStorage"
    OBVIOUS
  <2>2. "localStorage" \in waiting' <=> "localStorage" \in waiting
                                        /\ job # "localStorage"
    OBVIOUS
  <2>3. "localStorage" \in waiting <=> usageAsked /\ "localStorage" \in request.jobs
    BY <1>0 DEF WaitingMeansWork
  <2>4. "localStorage" \in waiting'
          <=> usageAsked' /\ "localStorage" \in request.jobs
    BY <2>1, <2>2, <2>3
  <2>5. waiting' # {} => uiTasks' = <<>> \/ uiTasks' = <<"quotaDeleted">>
    OBVIOUS
  <2>6. Len(<<"quotaDeleted">>) = 1 /\ <<"quotaDeleted">> # <<"delete">>
    BY NewTask DEF Tasks
  <2>7. Len(uiTasks') <= 1 /\ (uiTasks' = <<"delete">> => waiting' = {})
    <3>1. CASE waiting' = {}
      <4>1. uiTasks' = <<"delete">>
        BY <3>1
      <4>2. Len(uiTasks') = 1
        BY <1>2, <4>1
      <4> QED
        BY <3>1, <4>2
    <3>2. CASE waiting' # {}
      <4>1. Len(uiTasks') <= 1
        <5>1. CASE uiTasks' = <<>>
          BY <5>1
        <5>2. CASE uiTasks' = <<"quotaDeleted">>
          BY <5>2
        <5> QED
          BY <2>5, <3>2, <5>1, <5>2
      <4>2. uiTasks' # <<"delete">>
        BY <1>2, <2>5, <2>6, <3>2
      <4> QED
        BY <4>1, <4>2
    <3> QED
      BY <3>1, <3>2
  <2> QED
    BY <2>4, <2>7
<1>8. WaitingMeansWork'
  BY <1>5, <1>6, <1>7 DEF WaitingMeansWork
<1>9. NothingAfterDelete' /\ Bookkeeping'
  BY <1>0, <1>1 DEF NothingAfterDelete, Bookkeeping
<1> QED
  BY <1>3, <1>8, <1>9 DEF RemoverInv

LEMMA UIStepInv == ASSUME RemoverInv, UIStep PROVE RemoverInv'
<1>0. RemoverTypeOK /\ WaitingMeansWork /\ NothingAfterDelete /\ Bookkeeping
  BY DEF RemoverInv
<1>1. Len(uiTasks) <= 1 /\ Append(<<>>, "delete") = <<"delete">>
  BY <1>0, NewTask DEF WaitingMeansWork, Tasks
<1>2. CASE ClearedCache
  <2>1. uiTasks = <<"clearedCache">> /\ Tail(uiTasks) = <<>>
    BY <1>0, <1>1, <1>2, UITasks DEF ClearedCache
  <2>2. "cache" \in waiting
    BY <1>0, <2>1 DEF WaitingMeansWork, CacheWork
  <2>3. usageAsked' = (usageAsked /\ "cache" # "localStorage")
        /\ localDeletes' \subseteq Origins
        /\ (localDeletes' # {} => "localStorage" \in request.jobs)
    BY <1>0, <1>2 DEF ClearedCache, RemoverTypeOK, Bookkeeping, posted
  <2> QED
    BY <1>1, <1>2, <2>1, <2>2, <2>3, FinishedInv
       DEF ClearedCache, Finished, posted
<1>3. CASE OnQuotaManagedDataDeleted
  <2>1. uiTasks = <<"quotaDeleted">> /\ Tail(uiTasks) = <<>>
    BY <1>0, <1>1, <1>3, UITasks DEF OnQuotaManagedDataDeleted
  <2>2. "quota" \in waiting
    BY <1>0, <2>1 DEF WaitingMeansWork, QuotaWork
  <2>3. usageAsked' = (usageAsked /\ "quota" # "localStorage")
        /\ localDeletes' \subseteq Origins
        /\ (localDeletes' # {} => "localStorage" \in request.jobs)
    BY <1>0, <1>3 DEF OnQuotaManagedDataDeleted, RemoverTypeOK, Bookkeeping, posted
  <2> QED
    BY <1>1, <1>3, <2>1, <2>2, <2>3, FinishedInv
       DEF OnQuotaManagedDataDeleted, Finished, posted
<1>4. CASE OnGotLocalStorageUsageInfo
  <2>1. "localStorage" \in waiting /\ uiTasks # <<"delete">> /\ uiTasks # <<"clearedCache">>
    <3>1. "localStorage" \in waiting /\ "cache" \notin waiting /\ uiTasks # <<"delete">>
      BY <1>0, <1>4
         DEF OnGotLocalStorageUsageInfo, WaitingMeansWork, Bookkeeping
    <3> QED
      BY <1>0, <3>1 DEF WaitingMeansWork, CacheWork
  <2>2. uiTasks = <<>> \/ uiTasks = <<"quotaDeleted">>
    BY <1>0, <1>1, <2>1, UITasks
  <2>3. usageAsked' = FALSE /\ usageAsked = TRUE /\ localDeletes' \subseteq Origins
        /\ "localStorage" \in request.jobs
    BY <1>0, <1>4 DEF OnGotLocalStorageUsageInfo, RemoverTypeOK
  <2>4. waiting' = waiting \ {"localStorage"}
        /\ uiTasks' = IF waiting' = {} THEN Append(uiTasks, "delete") ELSE uiTasks
    BY <1>4 DEF OnGotLocalStorageUsageInfo, Finished
  <2>5. waiting' = {} => uiTasks = <<>>
    BY <1>0, <2>2, <2>4 DEF WaitingMeansWork, QuotaWork
  <2>6. IF waiting' = {} THEN uiTasks' = <<"delete">> ELSE uiTasks' = uiTasks
    BY <1>1, <2>4, <2>5
  <2>7. UNCHANGED <<alive, request, ioTask, cacheVars, quotaVars, appDeletes, data,
                    failed>>
    BY <1>4 DEF OnGotLocalStorageUsageInfo
  <2> QED
    BY <2>1, <2>2, <2>3, <2>4, <2>6, <2>7, FinishedInv
<1>5. CASE DeleteSelf
  <2>1. uiTasks = <<"delete">> /\ uiTasks' = <<>> /\ waiting = {} /\ alive' = FALSE
        /\ UNCHANGED <<request, waiting, ioTask, cacheVars, quotaVars, posted,
                       usageAsked, data, failed>>
    BY <1>0, <1>1, <1>5, UITasks DEF DeleteSelf, WaitingMeansWork
  <2>2. /\ uiTasks # <<"clearedCache">> /\ uiTasks # <<"quotaDeleted">> /\ uiTasks # <<>>
        /\ <<>> # <<"clearedCache">> /\ <<>> # <<"quotaDeleted">>
        /\ <<>> # <<"delete">> /\ Len(<<>>) = 0 /\ <<>> \in Seq(Tasks)
    BY <2>1, NewTask DEF Tasks
  <2>3. ioTask = "none" /\ clearing = "idle" /\ asked = {} /\ deleting = {}
    BY <1>0, <2>1 DEF WaitingMeansWork, CacheWork, QuotaWork, RemoverTypeOK
  <2>4. "appcache" \notin request.jobs /\ appDeletes = {} /\ request # NoRequest
    BY <1>0, <2>1, <2>2 DEF Bookkeeping
  <2>5. ~usageAsked
    BY <1>0, <2>1, <2>4 DEF WaitingMeansWork, Bookkeeping
  <2>6. RemoverTypeOK'
    BY <1>0, <2>1, <2>2 DEF RemoverTypeOK, Tasks, cacheVars, quotaVars, posted
  <2>7. CacheWork' /\ QuotaWork'
    BY <1>0, <2>1, <2>2, <2>3
       DEF WaitingMeansWork, CacheWork, QuotaWork, cacheVars, quotaVars, posted
  <2>8. WaitingMeansWork'
    BY <1>0, <2>1, <2>2, <2>7 DEF WaitingMeansWork
  <2>9. NothingAfterDelete' /\ Bookkeeping'
    BY <1>0, <2>1, <2>3, <2>4, <2>5
       DEF NothingAfterDelete, Bookkeeping, cacheVars, quotaVars, posted
  <2> QED
    BY <2>6, <2>8, <2>9 DEF RemoverInv
<1> QED
  BY <1>2, <1>3, <1>4, <1>5 DEF UIStep

LEMMA AppCacheStepInv == ASSUME RemoverInv, AppCacheStep PROVE RemoverInv'
<1> USE DEF cacheVars, quotaVars, posted
<1>0. RemoverTypeOK /\ WaitingMeansWork /\ NothingAfterDelete /\ Bookkeeping
  BY DEF RemoverInv
<1>1. CASE OnGotOriginsWithApplicationCache
  <2>1. /\ usageAsked /\ usageAsked' = FALSE /\ request.jobs = {"appcache"}
        /\ appDeletes' \subseteq Origins
        /\ UNCHANGED <<alive, request, waiting, ioTask, cacheVars, quotaVars, localDeletes,
                       uiTasks, data, failed>>
    BY <1>0, <1>1 DEF OnGotOriginsWithApplicationCache, Bookkeeping
  <2>2. alive /\ "localStorage" \notin waiting /\ request # NoRequest
    BY <1>0, <2>1 DEF NothingAfterDelete, Bookkeeping, NoRequest
  <2>3. RemoverTypeOK'
    BY <1>0, <2>1 DEF RemoverTypeOK
  <2>4. WaitingMeansWork'
    BY <1>0, <2>1, <2>2 DEF WaitingMeansWork, CacheWork, QuotaWork
  <2>5. NothingAfterDelete' /\ Bookkeeping'
    BY <1>0, <2>1, <2>2 DEF NothingAfterDelete, Bookkeeping
  <2> QED
    BY <2>3, <2>4, <2>5 DEF RemoverInv
<1>2. ASSUME NEW o \in Origins, DeleteAppCachesForOrigin(o)
      PROVE  RemoverInv'
  <2>1. /\ o \in appDeletes /\ appDeletes' = appDeletes \ {o}
        /\ UNCHANGED <<alive, request, waiting, ioTask, cacheVars, quotaVars, localDeletes,
                       uiTasks, usageAsked>>
    BY <1>2 DEF DeleteAppCachesForOrigin
  <2>2. data' \subseteq Items /\ failed' \subseteq Items
    BY <1>0, <1>2, RemovedTypes DEF DeleteAppCachesForOrigin
  <2>3. RemoverTypeOK'
    BY <1>0, <2>1, <2>2 DEF RemoverTypeOK
  <2>4. WaitingMeansWork'
    BY <1>0, <2>1 DEF WaitingMeansWork, CacheWork, QuotaWork
  <2>5. NothingAfterDelete' /\ Bookkeeping'
    BY <1>0, <2>1 DEF NothingAfterDelete, Bookkeeping
  <2> QED
    BY <2>3, <2>4, <2>5 DEF RemoverInv
<1> QED
  BY <1>1, <1>2 DEF AppCacheStep

\* What the DOM storage does when it gets to it touches nothing of the remover
LEMMA LocalDeleteInv ==
  ASSUME RemoverInv, NEW o \in Origins, DeleteLocalStorage(o)
  PROVE  RemoverInv'
<1> USE DEF cacheVars, quotaVars
<1>1. o \in localDeletes /\ localDeletes' = localDeletes \ {o}
      /\ UNCHANGED <<alive, request, waiting, ioTask, cacheVars, quotaVars, appDeletes,
                     uiTasks, usageAsked>>
  BY DEF DeleteLocalStorage
<1>2. data' \subseteq Items /\ failed' \subseteq Items
  BY RemovedTypes DEF RemoverInv, DeleteLocalStorage
<1>3. RemoverTypeOK'
  BY <1>1, <1>2 DEF RemoverInv, RemoverTypeOK
<1>4. WaitingMeansWork' /\ NothingAfterDelete' /\ Bookkeeping'
  BY <1>1 DEF RemoverInv, WaitingMeansWork, CacheWork, QuotaWork,
              NothingAfterDelete, Bookkeeping
<1> QED
  BY <1>3, <1>4 DEF RemoverInv
----------------------------------------------------------------------------
LEMMA RemoverStep == RemoverInv /\ [RemoverNext]_removerVars => RemoverInv'
<1> SUFFICES ASSUME RemoverInv, [RemoverNext]_removerVars PROVE RemoverInv'
  OBVIOUS
<1>1. CASE RemoverNext
  BY <1>1, RequestInv, CacheStepInv, QuotaStepInv, UIStepInv, AppCacheStepInv,
     LocalDeleteInv DEF RemoverNext
<1>2. CASE UNCHANGED removerVars
  BY <1>2 DEF removerVars, posted, RemoverInv, RemoverTypeOK, WaitingMeansWork, CacheWork, QuotaWork,
              NothingAfterDelete, Bookkeeping
<1> QED
  BY <1>1, <1>2

LEMMA RemoverAlways == RemoverSpec => []RemoverInv
BY RemoverInitInv, RemoverStep, PTL DEF RemoverSpec

\* The remover's members have their types.
THEOREM RemoverTypes == RemoverSpec => []RemoverTypeOK
BY RemoverAlways, PTL DEF RemoverInv

\* A waiting flag stands for exactly one chain of calls, and the counters for
\* the quota manager's answers, for all origins: nothing is completed twice.
THEOREM FlagsTrackWork == RemoverSpec => []WaitingMeansWork
BY RemoverAlways, PTL DEF RemoverInv

\* No task and no callback reaches a deleted remover, although all of them
\* hold it unretained and nothing but its flags and counters delays it.
THEOREM DeletedOnceAndLast == RemoverSpec => []NothingAfterDelete
BY RemoverAlways, PTL DEF RemoverInv
----------------------------------------------------------------------------
(***************************************************************************)
(* The remover implements Removal. What the request selects and was not    *)
(* removed yet is owed by a chain of calls that is still under way, or by  *)
(* the DOM storage, which was told to remove it.                           *)
(***************************************************************************)
\* The cache is still to be emptied
NotYet(c) ==
  \/ cacheState \in {"CREATE_MAIN", "DELETE_MAIN"}
  \/ c = "main" /\ cacheState = "CREATE_MEDIA" /\ clearing = "waiting"
  \/ c = "media" /\ cacheState \in {"CREATE_MEDIA", "DELETE_MEDIA"}
  \/ c = "media" /\ cacheState = "DONE" /\ clearing = "waiting"

Owed(i) ==
  \/ i.of = "localStorage" /\ "localStorage" \in waiting
  \/ i.of = "localStorage" /\ i.origin \in localDeletes
  \/ i.of = "quota" /\ ioTask = "clearQuota"
  \/ i.of = "quota" /\ i.part \in asked
  \/ i.of = "quota" /\ <<i.origin, i.part>> \in deleting
  \/ i.of = "cache" /\ ioTask = "clearCache"
  \/ i.of = "cache" /\ NotYet(i.part)
  \/ i.of = "appcache"

CacheOpen ==
  /\ cacheState \notin {"DELETE_MAIN", "DELETE_MEDIA"} => cache = "none"
  /\ cacheState \in {"DELETE_MAIN", "DELETE_MEDIA"}
       => cache \in {Served(cacheState), "none"}

OfTheRequest ==
  /\ \A o \in Origins, t \in StorageTypes :
       <<o, t>> \in deleting => request.origin \in {o, AnyOrigin}
  /\ \A o \in appDeletes : request.origin \in {o, AnyOrigin}
  /\ usageAsked /\ "appcache" \in request.jobs => request.origin = AnyOrigin

Progress ==
  /\ \A i \in data \ failed : Selected(request, i) => Owed(i)
  /\ CacheOpen /\ OfTheRequest
  /\ request = NoRequest => failed = {}

\* Nothing was handed to the DOM storage before the usage is known, so nothing it
\* could not remove is in the way of handing everything over
NotHandedYet ==
  "localStorage" \in waiting =>
    localDeletes = {} /\ \A i \in failed : i.of # "localStorage"

LEMMA ItemFields ==
  ASSUME NEW i \in Items
  PROVE  /\ i.of \in {"cache", "localStorage", "quota", "appcache"}
         /\ i.of = "cache" => i.part \in Caches /\ i = CacheItem(i.part)
         /\ i.of = "localStorage" => i.origin \in Origins /\ i = LocalItem(i.origin)
         /\ i.of = "appcache" => i.origin \in Origins /\ i = AppItem(i.origin)
         /\ i.of = "quota" => /\ i.origin \in Origins /\ i.part \in StorageTypes
                              /\ i = QuotaItem(i.origin, i.part)
<1>1. CASE i \in CacheItems
  BY <1>1 DEF CacheItems, CacheItem
<1>2. CASE i \in {LocalItem(o) : o \in Origins}
  BY <1>2 DEF LocalItem
<1>3. CASE i \in {AppItem(o) : o \in Origins}
  BY <1>3 DEF AppItem
<1>4. CASE i \in {QuotaItem(o, t) : o \in Origins, t \in StorageTypes}
  BY <1>4 DEF QuotaItem
<1> QED
  BY <1>1, <1>2, <1>3, <1>4 DEF Items

Left == {i \in data \ (failed \cup Handed) : Selected(request, i)}
Kept == {i \in data : ~Selected(request, i)}

\* Data only go, failures only come, and what goes was asked for
Only(items) ==
  /\ data' \subseteq data /\ failed \subseteq failed'
  /\ data \ data' \subseteq items

LEMMA RemovedOnly ==
  ASSUME NEW items, Removed(items)
  PROVE  Only(items) /\ \A i \in items : i \notin data' \ failed'
BY DEF Removed, Only

\* What a step of the running remover does to the data
RunningStep ==
  /\ request # NoRequest /\ UNCHANGED request
  /\ Only({i \in Items : Selected(request, i)})

LEMMA CacheSelected ==
  ASSUME RemoverInv, "cache" \in waiting, NEW c \in Caches
  PROVE  CacheItem(c) \in Items /\ Selected(request, CacheItem(c))
BY DEF RemoverInv, Bookkeeping, Items, CacheItems, CacheItem, Selected

LEMMA CacheProgress ==
  ASSUME RemoverInv, Progress, CacheStep
  PROVE  Progress' /\ RunningStep
<1> USE DEF cacheVars, quotaVars, posted
<1>0. RemoverTypeOK /\ WaitingMeansWork /\ NothingAfterDelete /\ Bookkeeping
  BY DEF RemoverInv
<1>1. "cache" \in waiting /\ request # NoRequest
      /\ UNCHANGED <<request, waiting, typesLeft, originsLeft, asked, deleting,
                     posted, usageAsked>>
  <2>1. ioTask = "clearCache" \/ clearing # "idle"
    BY DEF CacheStep, ClearNetworkCacheOnIOThread, CreateBackend, BackendReady,
           DoomEntries, Doomed, CacheDone
  <2>2. "cache" \in waiting /\ request # NoRequest
    BY <1>0, <2>1 DEF WaitingMeansWork, CacheWork, Bookkeeping, NoRequest
  <2> QED
    BY <2>2 DEF CacheStep, ClearNetworkCacheOnIOThread, CreateBackend, BackendReady,
                DoomEntries, Doomed, CacheDone
<1>2. OfTheRequest' /\ (request = NoRequest => failed = {})'
  BY <1>1 DEF Progress, OfTheRequest
<1>3. request.jobs = {"cache"} /\ \A i : Selected(request, i) => i.of = "cache"
  BY <1>0, <1>1 DEF Bookkeeping, Selected
<1>4. CacheOpen'
  <2> USE DEF Progress, CacheOpen, Served
  <2>1. CASE ClearNetworkCacheOnIOThread
    BY <1>0, <2>1
       DEF ClearNetworkCacheOnIOThread, WaitingMeansWork, CacheWork
  <2>2. CASE CreateBackend
    BY <2>2 DEF CreateBackend, AfterCreate
  <2>3. CASE BackendReady
    BY <2>3 DEF BackendReady
  <2>4. CASE DoomEntries
    BY <2>4 DEF DoomEntries, AfterDelete
  <2>5. CASE Doomed
    BY <2>5 DEF Doomed
  <2>6. CASE CacheDone
    BY <2>6 DEF CacheDone
  <2> QED
    BY <2>1, <2>2, <2>3, <2>4, <2>5, <2>6 DEF CacheStep
<1>5. ASSUME NEW c \in Caches, Only({CacheItem(c)}) PROVE RunningStep
  BY <1>1, <1>5, CacheSelected DEF RunningStep, Only
<1>6. UNCHANGED <<data, failed>> => Only({}) /\ RunningStep
  BY <1>1 DEF RunningStep, Only
<1>7. ASSUME Only({i \in Items : Selected(request, i)}),
             \A c \in Caches : ioTask = "clearCache" \/ NotYet(c)
               => ioTask' = "clearCache" \/ NotYet(c)' \/ CacheItem(c) \notin data' \ failed'
      PROVE  Progress'
  <2>1. ASSUME NEW i \in data' \ failed', Selected(request', i)
        PROVE  Owed(i)'
    <3>1. i \in data \ failed /\ i \in Items /\ Selected(request, i) /\ i.of = "cache"
      BY <1>0, <1>1, <1>3, <1>7, <2>1 DEF Only, RemoverTypeOK
    <3>2. i.part \in Caches /\ i = CacheItem(i.part)
      BY <3>1, ItemFields
    <3>3. ioTask = "clearCache" \/ NotYet(i.part)
      BY <3>1 DEF Progress, Owed
    <3>4. ioTask' = "clearCache" \/ NotYet(i.part)'
      BY <1>7, <2>1, <3>2, <3>3
    <3> QED
      BY <3>1, <3>4 DEF Owed
  <2> QED
    BY <1>2, <1>4, <2>1 DEF Progress
<1>8. CASE ClearNetworkCacheOnIOThread \/ CreateBackend \/ BackendReady \/ CacheDone
  <2>1. UNCHANGED <<data, failed>>
    BY <1>8 DEF ClearNetworkCacheOnIOThread, CreateBackend, BackendReady, CacheDone
  <2>2. \A c \in Caches : ioTask = "clearCache" \/ NotYet(c)
          => ioTask' = "clearCache" \/ NotYet(c)'
    BY <1>0, <1>8
       DEF ClearNetworkCacheOnIOThread, CreateBackend, BackendReady, CacheDone, NotYet,
           Caches, AfterCreate, WaitingMeansWork, CacheWork
  <2> QED
    BY <1>6, <1>7, <2>1, <2>2 DEF RunningStep
<1>9. CASE DoomEntries
  <2> DEFINE c == Served(cacheState)
  <2>1. c \in Caches /\ cache \in {c, "none"}
    BY <1>9 DEF DoomEntries, Served, Caches, Progress, CacheOpen
  <2>2. Only({CacheItem(c)})
        /\ (clearing' = "waiting" \/ CacheItem(c) \notin data' \ failed')
    <3>1. CASE UNCHANGED data /\ failed' = failed \cup (data \cap {CacheItem(c)})
      BY <3>1 DEF Only
    <3>2. CASE cache # "none" /\ Removed({CacheItem(cache)})
      BY <2>1, <3>2, RemovedOnly
    <3>3. CASE clearing' = "waiting" /\ UNCHANGED <<data, failed>>
      BY <3>3 DEF Only
    <3> QED
      BY <1>9, <3>1, <3>2, <3>3 DEF DoomEntries
  <2>3. RunningStep
    BY <1>5, <2>1, <2>2
  <2>4. ASSUME NEW d \in Caches, ioTask = "clearCache" \/ NotYet(d)
        PROVE  NotYet(d)' \/ CacheItem(d) \notin data' \ failed'
    <3>1. CASE cacheState = "DELETE_MAIN"
      BY <1>9, <2>2, <3>1 DEF DoomEntries, NotYet, Served, AfterDelete, Caches
    <3>2. CASE cacheState = "DELETE_MEDIA"
      <4>1. d = "media"
        BY <1>0, <1>9, <2>4, <3>2
           DEF DoomEntries, NotYet, WaitingMeansWork, CacheWork
      <4> QED
        BY <1>9, <2>2, <3>2, <4>1 DEF DoomEntries, NotYet, Served, AfterDelete
    <3> QED
      BY <1>9, <3>1, <3>2 DEF DoomEntries
  <2> QED
    BY <1>7, <2>3, <2>4 DEF RunningStep
<1>10. CASE Doomed
  <2> DEFINE c == IF cacheState = "DONE" THEN "media" ELSE "main"
  <2>1. c \in Caches
    BY DEF Caches
  <2>2. Only({CacheItem(c)}) /\ CacheItem(c) \notin data' \ failed'
    BY <1>10, RemovedOnly DEF Doomed
  <2>3. RunningStep
    BY <1>5, <2>1, <2>2
  <2>4. ASSUME NEW d \in Caches, ioTask = "clearCache" \/ NotYet(d)
        PROVE  NotYet(d)' \/ CacheItem(d) \notin data' \ failed'
    BY <1>0, <1>10, <2>2, <2>4
       DEF Doomed, NotYet, Caches, WaitingMeansWork, CacheWork
  <2> QED
    BY <1>7, <2>3, <2>4 DEF RunningStep
<1> QED
  BY <1>8, <1>9, <1>10 DEF CacheStep

\* The other steps of a running remover leave the cache alone
LEMMA OtherProgress ==
  ASSUME RemoverInv, Progress, request # NoRequest,
         UNCHANGED <<request, cacheVars>>, ioTask' = "clearCache" <=> ioTask = "clearCache",
         Only({i \in Items : Selected(request, i)}), OfTheRequest',
         \A i \in Items : i \in data' \ failed' /\ Selected(request, i)
           /\ i.of \in {"localStorage", "quota"} /\ Owed(i) => Owed(i)'
  PROVE  Progress' /\ RunningStep
<1> USE DEF cacheVars, posted
<1>1. RunningStep
  BY DEF RunningStep
<1>2. CacheOpen'
  BY DEF Progress, CacheOpen, Served
<1>3. ASSUME NEW i \in data' \ failed', Selected(request', i)
      PROVE  Owed(i)'
  <2>1. i \in data \ failed /\ i \in Items /\ Selected(request, i)
    BY <1>3 DEF RemoverInv, RemoverTypeOK, Only
  <2>2. Owed(i)
    BY <2>1 DEF Progress
  <2>3. CASE i.of \in {"localStorage", "quota"}
    BY <1>3, <2>1, <2>2, <2>3
  <2>4. CASE i.of = "cache"
    BY <2>2, <2>4 DEF Owed, NotYet
  <2>5. CASE i.of = "appcache"
    BY <2>5 DEF Owed
  <2> QED
    BY <2>1, <2>3, <2>4, <2>5, ItemFields
<1> QED
  BY <1>1, <1>2, <1>3 DEF Progress

LEMMA QuotaProgress ==
  ASSUME RemoverInv, Progress, QuotaStep
  PROVE  Progress' /\ RunningStep
<1> USE DEF quotaVars, posted
<1>0. RemoverTypeOK /\ WaitingMeansWork /\ Bookkeeping
  BY DEF RemoverInv
<1>1. "quota" \in waiting /\ "quota" \in request.jobs /\ request # NoRequest
  <2>1. ioTask = "clearQuota" \/ asked \cup deleting # {}
    BY DEF QuotaStep, ClearQuotaManagedDataOnIOThread, OnGotQuotaManagedOrigins,
           OnQuotaManagedOriginDeletion
  <2> QED
    BY <1>0, <2>1 DEF WaitingMeansWork, QuotaWork, Bookkeeping, NoRequest
<1>2. ASSUME NEW o \in Origins, NEW t \in StorageTypes,
             request.origin \in {o, AnyOrigin}
      PROVE  QuotaItem(o, t) \in {i \in Items : Selected(request, i)}
  BY <1>1, <1>2 DEF Selected, Items, QuotaItem
<1>3. CASE ClearQuotaManagedDataOnIOThread
  <2>1. UNCHANGED <<request, waiting, cacheVars, posted, usageAsked, deleting,
                    data, failed>>
        /\ asked' = StorageTypes /\ ioTask = "clearQuota" /\ ioTask' = "none"
    BY <1>3 DEF ClearQuotaManagedDataOnIOThread
  <2>2. Only({i \in Items : Selected(request, i)}) /\ OfTheRequest'
    BY <2>1 DEF Only, Progress, OfTheRequest
  <2>3. \A i \in Items : i.of \in {"localStorage", "quota"} /\ Owed(i) => Owed(i)'
    BY <2>1, ItemFields DEF Owed
  <2> QED
    BY <1>1, <2>1, <2>2, <2>3, OtherProgress
<1>4. ASSUME NEW t \in StorageTypes, OnGotQuotaManagedOrigins(t)
      PROVE  Progress' /\ RunningStep
  <2>1. UNCHANGED <<request, waiting, ioTask, cacheVars, posted, usageAsked>>
        /\ asked' = asked \ {t}
    BY <1>4 DEF OnGotQuotaManagedOrigins
  <2>2. PICK later \in SUBSET Chosen(t) :
          /\ Removed({QuotaItem(o, t) : o \in Chosen(t) \ later})
          /\ deleting' = deleting \cup {<<o, t>> : o \in later}
    BY <1>4 DEF OnGotQuotaManagedOrigins
  <2>3. \A o \in Chosen(t) : o \in Origins /\ request.origin \in {o, AnyOrigin}
    BY DEF Chosen
  <2>4. Only({i \in Items : Selected(request, i)})
    <3>1. {QuotaItem(o, t) : o \in Chosen(t) \ later}
            \subseteq {i \in Items : Selected(request, i)}
      BY <1>2, <2>3
    <3> QED
      BY <2>2, <3>1, RemovedOnly DEF Only
  <2>5. OfTheRequest'
    BY <2>1, <2>2, <2>3 DEF Progress, OfTheRequest
  <2>6. ASSUME NEW i \in Items, i \in data' \ failed', Selected(request, i),
               i.of \in {"localStorage", "quota"}, Owed(i)
        PROVE  Owed(i)'
    <3>1. CASE i.of = "quota" /\ i.part = t
      <4>1. i = QuotaItem(i.origin, t) /\ i.origin \in Origins /\ i \in data
        BY <2>4, <2>6, <3>1, ItemFields DEF Only
      <4>2. i.origin \in Chosen(t)
        BY <2>6, <3>1, <4>1 DEF Chosen, Selected
      <4>3. i.origin \in later
        BY <2>2, <2>6, <4>1, <4>2, RemovedOnly
      <4> QED
        BY <2>2, <3>1, <4>3 DEF Owed
    <3>2. CASE ~(i.of = "quota" /\ i.part = t)
      BY <2>1, <2>2, <2>6, <3>2 DEF Owed
    <3> QED
      BY <3>1, <3>2
  <2> QED
    BY <1>1, <2>1, <2>4, <2>5, <2>6, OtherProgress
<1>5. ASSUME NEW o \in Origins, NEW t \in StorageTypes,
             OnQuotaManagedOriginDeletion(o, t)
      PROVE  Progress' /\ RunningStep
  <2>1. UNCHANGED <<request, waiting, ioTask, cacheVars, posted, usageAsked,
                    asked>>
        /\ <<o, t>> \in deleting /\ deleting' = deleting \ {<<o, t>>}
        /\ Removed({QuotaItem(o, t)})
    BY <1>5 DEF OnQuotaManagedOriginDeletion
  <2>2. Only({i \in Items : Selected(request, i)})
    <3>1. QuotaItem(o, t) \in {i \in Items : Selected(request, i)}
      BY <1>2, <2>1 DEF Progress, OfTheRequest
    <3> QED
      BY <2>1, <3>1, RemovedOnly DEF Only
  <2>3. OfTheRequest'
    BY <2>1 DEF Progress, OfTheRequest
  <2>4. ASSUME NEW i \in Items, i \in data' \ failed', Selected(request, i),
               i.of \in {"localStorage", "quota"}, Owed(i)
        PROVE  Owed(i)'
    <3>1. ~(i.of = "quota" /\ i.origin = o /\ i.part = t)
      BY <2>1, <2>4, RemovedOnly, ItemFields
    <3> QED
      BY <2>1, <2>4, <3>1 DEF Owed
  <2> QED
    BY <1>1, <2>1, <2>2, <2>3, <2>4, OtherProgress
<1> QED
  BY <1>3, <1>4, <1>5 DEF QuotaStep

LEMMA AppCacheProgress ==
  ASSUME RemoverInv, Progress, AppCacheStep
  PROVE  Progress' /\ RunningStep
<1> USE DEF quotaVars, posted
<1>0. RemoverTypeOK /\ Bookkeeping
  BY DEF RemoverInv
<1>1. "appcache" \in request.jobs /\ request # NoRequest
  BY <1>0 DEF AppCacheStep, OnGotOriginsWithApplicationCache,
              DeleteAppCachesForOrigin, Bookkeeping, NoRequest
<1>2. UNCHANGED <<request, waiting, ioTask, cacheVars, quotaVars, localDeletes>>
  BY DEF AppCacheStep, OnGotOriginsWithApplicationCache, DeleteAppCachesForOrigin
<1>3. \A i \in Items : i.of \in {"localStorage", "quota"} /\ Owed(i) => Owed(i)'
  BY <1>2 DEF Owed
<1>4. CASE OnGotOriginsWithApplicationCache
  <2>1. UNCHANGED <<data, failed>> /\ usageAsked /\ usageAsked' = FALSE
    BY <1>4 DEF OnGotOriginsWithApplicationCache
  <2>2. Only({i \in Items : Selected(request, i)}) /\ OfTheRequest'
    BY <1>1, <1>2, <2>1 DEF Only, Progress, OfTheRequest
  <2> QED
    BY <1>1, <1>2, <1>3, <2>2, OtherProgress
<1>5. ASSUME NEW o \in Origins, DeleteAppCachesForOrigin(o)
      PROVE  Progress' /\ RunningStep
  <2>1. o \in appDeletes /\ appDeletes' = appDeletes \ {o} /\ UNCHANGED usageAsked
        /\ Removed({AppItem(o)})
    BY <1>5 DEF DeleteAppCachesForOrigin
  <2>2. request.origin \in {o, AnyOrigin}
    BY <2>1 DEF Progress, OfTheRequest
  <2>3. AppItem(o) \in {i \in Items : Selected(request, i)}
    BY <1>1, <2>2 DEF Selected, Items, AppItem
  <2>4. Only({i \in Items : Selected(request, i)})
    BY <2>1, <2>3, RemovedOnly DEF Only
  <2>5. OfTheRequest'
    BY <1>2, <2>1 DEF Progress, OfTheRequest
  <2> QED
    BY <1>1, <1>2, <1>3, <2>4, <2>5, OtherProgress
<1> QED
  BY <1>4, <1>5 DEF AppCacheStep

UICompletion ==
  ClearedCache \/ OnQuotaManagedDataDeleted \/ OnGotLocalStorageUsageInfo

LEMMA UIProgress ==
  ASSUME RemoverInv, Progress, UICompletion
  PROVE  Progress' /\ RunningStep
<1> USE DEF quotaVars, posted
<1>0. RemoverTypeOK /\ Bookkeeping
  BY DEF RemoverInv
<1>1. request # NoRequest
  BY <1>0 DEF UICompletion, ClearedCache, OnQuotaManagedDataDeleted,
              OnGotLocalStorageUsageInfo, Running, Bookkeeping
<1>2. UNCHANGED <<request, ioTask, cacheVars, quotaVars, appDeletes, data, failed>>
      /\ (usageAsked' => usageAsked)
  BY DEF UICompletion, ClearedCache, OnQuotaManagedDataDeleted,
         OnGotLocalStorageUsageInfo
<1>3. OfTheRequest'
  BY <1>2 DEF Progress, OfTheRequest
<1>4. Only({i \in Items : Selected(request, i)})
  BY <1>2 DEF Only
<1>5. CASE ClearedCache \/ OnQuotaManagedDataDeleted
  <2>1. UNCHANGED localDeletes
        /\ ("localStorage" \in waiting <=> "localStorage" \in waiting')
    BY <1>5 DEF ClearedCache, OnQuotaManagedDataDeleted, Finished
  <2>2. \A i \in Items : i.of \in {"localStorage", "quota"} /\ Owed(i) => Owed(i)'
    BY <1>2, <2>1 DEF Owed
  <2> QED
    BY <1>1, <1>2, <1>3, <1>4, <2>2, OtherProgress
<1>6. CASE OnGotLocalStorageUsageInfo
  <2>1. localDeletes' = {o \in Origins : LocalItem(o) \in data}
    BY <1>6 DEF OnGotLocalStorageUsageInfo
  <2>2. ASSUME NEW i \in Items, i \in data' \ failed',
               i.of \in {"localStorage", "quota"}, Owed(i)
        PROVE  Owed(i)'
    <3>1. i.of = "localStorage" => i.origin \in localDeletes'
      BY <1>2, <2>1, <2>2, ItemFields
    <3> QED
      BY <1>2, <2>2, <3>1 DEF Owed
  <2> QED
    BY <1>1, <1>2, <1>3, <1>4, <2>2, OtherProgress
<1> QED
  BY <1>5, <1>6 DEF UICompletion

\* What the DOM storage removes was asked for, and is not owed any more
LEMMA LocalDeleteProgress ==
  ASSUME RemoverInv, Progress, NEW o \in Origins, DeleteLocalStorage(o)
  PROVE  Progress' /\ RunningStep /\ UNCHANGED <<Left, Kept, alive>>
<1> USE DEF quotaVars
<1>1. o \in localDeletes /\ localDeletes' = localDeletes \ {o}
      /\ Removed({LocalItem(o)})
      /\ UNCHANGED <<alive, request, waiting, ioTask, cacheVars, quotaVars, appDeletes,
                     usageAsked>>
  BY DEF DeleteLocalStorage
<1>2. "localStorage" \in request.jobs /\ request # NoRequest
  BY <1>1 DEF RemoverInv, Bookkeeping, NoRequest
<1>3. LocalItem(o) \in Items /\ Selected(request, LocalItem(o))
  BY <1>2 DEF Items, LocalItem, Selected
<1>4. Only({i \in Items : Selected(request, i)}) /\ LocalItem(o) \notin data' \ failed'
  BY <1>1, <1>3, RemovedOnly DEF Only
<1>5. OfTheRequest'
  BY <1>1 DEF Progress, OfTheRequest
<1>6. ASSUME NEW i \in Items, i \in data' \ failed',
             i.of \in {"localStorage", "quota"}, Owed(i)
      PROVE  Owed(i)'
  <2>1. ~(i.of = "localStorage" /\ i.origin = o)
    BY <1>4, <1>6, ItemFields
  <2> QED
    BY <1>1, <1>6, <2>1 DEF Owed
<1>7. Progress' /\ RunningStep
  BY <1>1, <1>2, <1>4, <1>5, <1>6, OtherProgress
<1>8. Handed = Handed' \cup {LocalItem(o)}
  BY <1>1 DEF Handed
<1>9. data' \subseteq data /\ failed \subseteq failed'
      /\ \A i : i # LocalItem(o) => (i \in data' <=> i \in data)
                                   /\ (i \in failed' <=> i \in failed)
  BY <1>1 DEF Removed
<1>10. \A i : i \in data' \ (failed' \cup Handed')
                <=> i \in data \ (failed \cup Handed)
  BY <1>4, <1>8, <1>9
<1>11. Left' = Left
  BY <1>1, <1>10 DEF Left
<1>12. Kept' = Kept
  BY <1>1, <1>3, <1>9 DEF Kept
<1> QED
  BY <1>1, <1>7, <1>11, <1>12

\* When the remover deletes itself nothing is owed any more
LEMMA NothingLeft ==
  ASSUME RemoverInv, Progress, DeleteSelf
  PROVE  Left = {} /\ request # NoRequest /\ alive
<1>0. RemoverTypeOK /\ WaitingMeansWork /\ Bookkeeping
  BY DEF RemoverInv
<1>1. uiTasks = <<"delete">> /\ waiting = {}
  BY <1>0, UITasks DEF DeleteSelf, WaitingMeansWork
<1>2. /\ <<"delete">> # <<"clearedCache">> /\ <<"delete">> # <<"quotaDeleted">>
      /\ <<"delete">> # <<>>
  BY NewTask DEF Tasks
<1>3. ioTask = "none" /\ cacheState = "NONE" /\ asked = {} /\ deleting = {}
  BY <1>0, <1>1, <1>2 DEF WaitingMeansWork, CacheWork, QuotaWork, RemoverTypeOK
<1>4. "appcache" \notin request.jobs /\ request # NoRequest /\ alive
  BY <1>0, <1>1, <1>2 DEF Bookkeeping
<1>5. ASSUME NEW i \in data \ (failed \cup Handed), Selected(request, i) PROVE FALSE
  <2>1. Owed(i) /\ i \in Items
    BY <1>0, <1>5 DEF Progress, RemoverTypeOK
  <2>2. ~(i.of = "localStorage" /\ i.origin \in localDeletes)
    BY <1>5, <2>1, ItemFields DEF Handed
  <2>3. i.of = "appcache"
    BY <1>1, <1>3, <2>1, <2>2 DEF Owed, NotYet
  <2> QED
    BY <1>4, <1>5, <2>3 DEF Selected
<1> QED
  BY <1>4, <1>5 DEF Left

LEMMA RequestProgress ==
  ASSUME RemoverInv, Progress,
         ClearNetworkCache
           \/ \E m \in Masks, o \in Origins \cup {AnyOrigin} : RemoveImpl(m, o)
  PROVE  /\ request = NoRequest /\ request' # NoRequest /\ alive /\ alive'
         /\ UNCHANGED <<data, failed, localDeletes>> /\ failed = {}
         /\ localDeletes = {} /\ Progress'
<1> USE DEF cacheVars, quotaVars, posted
<1>0. RemoverTypeOK
  BY DEF RemoverInv
<1>1. CASE ClearNetworkCache
  <2>1. request = NoRequest /\ request'.jobs = {"cache"} /\ request' # NoRequest
        /\ ioTask' = "clearCache"
        /\ UNCHANGED <<alive, cacheState, clearing, cache, deleting, asked, posted,
                       usageAsked, data, failed>>
    BY <1>1 DEF ClearNetworkCache, NoRequest
  <2>2. OfTheRequest' /\ CacheOpen' /\ failed = {} /\ localDeletes = {} /\ alive
    BY <2>1, Unasked DEF OfTheRequest, CacheOpen, Progress, Served
  <2>3. \A i : Selected(request', i) => Owed(i)'
    BY <2>1 DEF Selected, Owed
  <2> QED
    BY <2>1, <2>2, <2>3 DEF Progress
<1>2. ASSUME NEW m \in Masks, NEW o \in Origins \cup {AnyOrigin}, RemoveImpl(m, o)
      PROVE  /\ request = NoRequest /\ request' # NoRequest /\ alive /\ alive'
             /\ UNCHANGED <<data, failed, localDeletes>> /\ failed = {}
             /\ localDeletes = {} /\ Progress'
  <2>1. m # {} /\ m \subseteq Jobs
    BY MasksAssumption
  <2>2. /\ request = NoRequest /\ request' = [jobs |-> m, origin |-> o]
        /\ waiting' = m \ {"appcache"}
        /\ "quota" \in m => ioTask' = "clearQuota"
        /\ UNCHANGED <<alive, data, failed, localDeletes>>
        /\ UNCHANGED <<cacheState, clearing, cache>>
        /\ UNCHANGED <<deleting, asked>>
    BY <1>2 DEF RemoveImpl
  <2>3. /\ appDeletes' = {p \in {o} : o # AnyOrigin /\ "appcache" \in m}
        /\ usageAsked' /\ "appcache" \in m => "localStorage" \in m \/ o = AnyOrigin
        /\ "appcache" \in m => m = {"appcache"}
    BY <1>2, MasksAssumption DEF RemoveImpl
  <2>4. request'.jobs = m /\ request'.origin = o /\ request' # NoRequest
    BY <2>1, <2>2 DEF NoRequest
  <2>5. /\ waiting = {} /\ alive /\ deleting = {} /\ asked = {} /\ cacheState = "NONE"
        /\ failed = {} /\ localDeletes = {} /\ cache = "none"
    BY <2>2, Unasked DEF Progress, CacheOpen
  <2>6. OfTheRequest'
    <3>1. deleting' = {} /\ \A p \in appDeletes' : p = o
      BY <2>2, <2>3, <2>5
    <3>2. usageAsked' /\ "appcache" \in m => o = AnyOrigin
      BY <2>3
    <3> QED
      BY <2>4, <3>1, <3>2 DEF OfTheRequest
  <2>7. CacheOpen'
    BY <2>2, <2>5 DEF CacheOpen
  <2>8. \A i : Selected(request', i) => Owed(i)'
    BY <2>1, <2>2, <2>4 DEF Selected, Owed, Jobs
  <2>9. Progress'
    BY <2>4, <2>6, <2>7, <2>8 DEF Progress
  <2> QED
    BY <2>2, <2>4, <2>5, <2>9
<1> QED
  BY <1>1, <1>2

\* A running remover is alive: whatever steps it takes, it is not yet deleted
LEMMA RunningAlive ==
  ASSUME RemoverInv, CacheStep \/ QuotaStep \/ UICompletion \/ AppCacheStep
  PROVE  alive /\ alive'
<1>1. alive' = alive
  BY DEF CacheStep, QuotaStep, UICompletion, AppCacheStep,
         ClearNetworkCacheOnIOThread, CreateBackend, BackendReady, DoomEntries, Doomed,
         CacheDone, ClearQuotaManagedDataOnIOThread, OnGotQuotaManagedOrigins,
         OnQuotaManagedOriginDeletion, ClearedCache, OnQuotaManagedDataDeleted,
         OnGotLocalStorageUsageInfo, OnGotOriginsWithApplicationCache,
         DeleteAppCachesForOrigin
<1>2. alive
  BY DEF RemoverInv, NothingAfterDelete, CacheStep, QuotaStep, UICompletion,
         AppCacheStep, ClearNetworkCacheOnIOThread, CreateBackend, BackendReady,
         DoomEntries, Doomed, CacheDone, ClearQuotaManagedDataOnIOThread,
         OnGotQuotaManagedOrigins, OnQuotaManagedOriginDeletion, ClearedCache,
         OnQuotaManagedDataDeleted, OnGotLocalStorageUsageInfo, Running,
         OnGotOriginsWithApplicationCache, DeleteAppCachesForOrigin
<1> QED
  BY <1>1, <1>2

LEMMA NotHandedYetStep ==
  ASSUME RemoverInv, Progress, NotHandedYet, [RemoverNext]_removerVars
  PROVE  NotHandedYet'
<1> USE DEF posted
<1>0. RemoverTypeOK /\ WaitingMeansWork /\ Bookkeeping
  BY DEF RemoverInv
<1>1. CASE ClearNetworkCache
             \/ \E m \in Masks, o \in Origins \cup {AnyOrigin} : RemoveImpl(m, o)
  BY <1>1, RequestProgress DEF NotHandedYet
<1>2. ASSUME waiting' \subseteq waiting, UNCHANGED localDeletes,
             \A i \in failed' \ failed : i.of # "localStorage"
      PROVE  NotHandedYet'
  BY <1>2 DEF NotHandedYet
<1>3. CASE CacheStep
  <2>1. "localStorage" \notin waiting
    <3>1. "cache" \in waiting
      BY <1>0, <1>3 DEF CacheStep, ClearNetworkCacheOnIOThread, CreateBackend,
             BackendReady, DoomEntries, Doomed, CacheDone, WaitingMeansWork, CacheWork
    <3> QED
      BY <1>0, <3>1 DEF Bookkeeping
  <2>2. UNCHANGED waiting
    BY <1>3 DEF CacheStep, ClearNetworkCacheOnIOThread, CreateBackend, BackendReady,
           DoomEntries, Doomed, CacheDone
  <2> QED
    BY <2>1, <2>2 DEF NotHandedYet
<1>4. CASE QuotaStep
  <2>1. UNCHANGED <<waiting, localDeletes>>
    BY <1>4 DEF QuotaStep, ClearQuotaManagedDataOnIOThread, OnGotQuotaManagedOrigins,
           OnQuotaManagedOriginDeletion
  <2>2. \A i \in failed' \ failed : i.of # "localStorage"
    <3>1. CASE ClearQuotaManagedDataOnIOThread
      BY <3>1 DEF ClearQuotaManagedDataOnIOThread
    <3>2. ASSUME NEW t \in StorageTypes, OnGotQuotaManagedOrigins(t)
          PROVE  \A i \in failed' \ failed : i.of # "localStorage"
      BY <3>2 DEF OnGotQuotaManagedOrigins, Removed, QuotaItem
    <3>3. ASSUME NEW t \in StorageTypes, NEW o \in Origins,
                 OnQuotaManagedOriginDeletion(o, t)
          PROVE  \A i \in failed' \ failed : i.of # "localStorage"
      BY <3>3 DEF OnQuotaManagedOriginDeletion, Removed, QuotaItem
    <3> QED
      BY <1>4, <3>1, <3>2, <3>3 DEF QuotaStep
  <2> QED
    BY <1>2, <2>1, <2>2
<1>5. CASE UICompletion \/ DeleteSelf
  <2>1. waiting' \subseteq waiting /\ UNCHANGED failed
    BY <1>5 DEF UICompletion, ClearedCache, OnQuotaManagedDataDeleted,
           OnGotLocalStorageUsageInfo, DeleteSelf, Finished
  <2>2. UNCHANGED localDeletes \/ "localStorage" \notin waiting'
    BY <1>5 DEF UICompletion, ClearedCache, OnQuotaManagedDataDeleted,
           OnGotLocalStorageUsageInfo, DeleteSelf, Finished
  <2> QED
    BY <2>1, <2>2 DEF NotHandedYet
<1>6. CASE AppCacheStep
  <2>1. "localStorage" \notin waiting
    <3>1. "appcache" \in request.jobs
      BY <1>0, <1>6 DEF AppCacheStep, OnGotOriginsWithApplicationCache,
             DeleteAppCachesForOrigin, Bookkeeping
    <3> QED
      BY <1>0, <3>1 DEF Bookkeeping
  <2>2. UNCHANGED waiting
    BY <1>6 DEF AppCacheStep, OnGotOriginsWithApplicationCache,
           DeleteAppCachesForOrigin
  <2> QED
    BY <2>1, <2>2 DEF NotHandedYet
<1>7. ASSUME NEW o \in Origins, DeleteLocalStorage(o) PROVE NotHandedYet'
  BY <1>7 DEF DeleteLocalStorage, NotHandedYet
<1>8. CASE UNCHANGED removerVars
  BY <1>8 DEF removerVars, NotHandedYet
<1> QED
  BY <1>1, <1>3, <1>4, <1>5, <1>6, <1>7, <1>8 DEF RemoverNext, UIStep, UICompletion

LEMMA PromiseInit == RemoverInit => Promise!Init
<1> SUFFICES ASSUME RemoverInit PROVE Promise!Init
  OBVIOUS
<1>1. alive /\ request = NoRequest /\ data \subseteq Items /\ localDeletes = {}
  BY RemoverInitInv DEF RemoverInit, RemoverInv, RemoverTypeOK
<1>2. \A i : ~Selected(request, i)
  BY <1>1 DEF Selected, NoRequest
<1> QED
  BY <1>1, <1>2 DEF Promise!Init, RemovalPhase, Handed

\* What is handed over was left, and is left no more
LEMMA HandedOver ==
  ASSUME RemoverInv, Progress, NotHandedYet,
         CacheStep \/ QuotaStep \/ UICompletion \/ AppCacheStep
  PROVE  Left' \subseteq Left /\ Handed' \subseteq Handed \cup (Left \ Left')
<1>1. RunningStep
  BY CacheProgress, QuotaProgress, UIProgress, AppCacheProgress
<1>2. CASE UNCHANGED localDeletes
  <2>1. Handed' = Handed
    BY <1>2 DEF Handed
  <2> QED
    BY <1>1, <2>1 DEF RunningStep, Only, Left
<1>3. CASE OnGotLocalStorageUsageInfo
  <2>1. /\ localDeletes' = {o \in Origins : LocalItem(o) \in data}
        /\ "localStorage" \in request.jobs
        /\ UNCHANGED <<request, data, failed>>
    BY <1>3 DEF OnGotLocalStorageUsageInfo
  <2>2. "localStorage" \in waiting
    BY <1>3 DEF OnGotLocalStorageUsageInfo, RemoverInv, WaitingMeansWork
  <2>3. localDeletes = {} /\ \A o \in Origins : LocalItem(o) \notin failed
    BY <2>2 DEF NotHandedYet, LocalItem
  <2>4. Handed = {} /\ Handed' = {LocalItem(o) : o \in localDeletes'}
    BY <2>3 DEF Handed
  <2>5. Handed' \subseteq Left
    <3>1. \A o \in Origins : Selected(request, LocalItem(o))
      BY <2>1 DEF Selected, LocalItem
    <3>2. \A o \in localDeletes' : LocalItem(o) \in data \ (failed \cup Handed)
      BY <2>1, <2>3, <2>4
    <3> QED
      BY <2>1, <2>4, <3>1, <3>2 DEF Left
  <2>6. Left' = Left \ Handed'
    BY <2>1, <2>4 DEF Left
  <2> QED
    BY <2>5, <2>6
<1>4. UNCHANGED localDeletes \/ OnGotLocalStorageUsageInfo
  BY DEF CacheStep, QuotaStep, UICompletion, AppCacheStep,
         ClearNetworkCacheOnIOThread, CreateBackend, BackendReady, DoomEntries, Doomed,
         CacheDone, ClearQuotaManagedDataOnIOThread, OnGotQuotaManagedOrigins,
         OnQuotaManagedOriginDeletion, ClearedCache, OnQuotaManagedDataDeleted,
         OnGotOriginsWithApplicationCache, DeleteAppCachesForOrigin, posted
<1> QED
  BY <1>2, <1>3, <1>4

LEMMA PromiseStep ==
  ASSUME RemoverInv, Progress, NotHandedYet, [RemoverNext]_removerVars
  PROVE  Progress' /\ [Promise!Next]_<<RemovalPhase, Left, Handed, Kept>>
<1>1. CASE ClearNetworkCache
             \/ \E m \in Masks, o \in Origins \cup {AnyOrigin} : RemoveImpl(m, o)
  <2>1. request = NoRequest /\ request' # NoRequest /\ alive /\ alive'
        /\ UNCHANGED <<data, failed, localDeletes>> /\ failed = {}
        /\ localDeletes = {} /\ Progress'
    BY <1>1, RequestProgress
  <2>2. RemovalPhase = "new" /\ RemovalPhase' = "busy"
    BY <2>1 DEF RemovalPhase
  <2>3. Left' \subseteq Kept /\ Kept' = Kept \ Left' /\ Handed' = Handed
    BY <2>1 DEF Left, Kept, Handed, Selected, NoRequest
  <2>4. Promise!Start
    BY <2>2, <2>3 DEF Promise!Start, Left, Kept
  <2> QED
    BY <2>1, <2>4 DEF Promise!Next
<1>2. CASE CacheStep \/ QuotaStep \/ UICompletion \/ AppCacheStep
  <2>1. Progress' /\ RunningStep
    BY <1>2, CacheProgress, QuotaProgress, UIProgress, AppCacheProgress
  <2>2. RemovalPhase = "busy" /\ RemovalPhase' = "busy"
    BY <1>2, <2>1, RunningAlive DEF RemovalPhase, RunningStep
  <2>3. Left' \subseteq Left /\ Handed' \subseteq Handed \cup (Left \ Left')
    BY <1>2, HandedOver
  <2>4. Kept' = Kept
    BY <2>1 DEF Kept, RunningStep, Only
  <2>5. Promise!Remove
    BY <2>2, <2>3, <2>4 DEF Promise!Remove, Left, Kept
  <2> QED
    BY <2>1, <2>5 DEF Promise!Next
<1>3. CASE DeleteSelf
  <2>1. Left = {} /\ request # NoRequest /\ alive /\ alive' = FALSE
    BY <1>3, NothingLeft DEF DeleteSelf
  <2>2. UNCHANGED <<request, waiting, ioTask, cacheVars, quotaVars, posted,
                    usageAsked, data, failed>>
    BY <1>3 DEF DeleteSelf
  <2>3. RemovalPhase = "busy" /\ RemovalPhase' = "gone"
    BY <2>1 DEF RemovalPhase
  <2>4. UNCHANGED <<Left, Handed, Kept>>
    BY <2>2 DEF Left, Handed, Kept, Selected, posted
  <2>5. Promise!Finish
    BY <2>1, <2>3, <2>4 DEF Promise!Finish, Left, Kept
  <2>6. Progress'
    BY <2>2 DEF Progress, Owed, NotYet, CacheOpen, OfTheRequest, Served, Selected,
                cacheVars, quotaVars, posted
  <2> QED
    BY <2>5, <2>6 DEF Promise!Next
<1>4. ASSUME NEW o \in Origins, DeleteLocalStorage(o)
      PROVE  Progress' /\ [Promise!Next]_<<RemovalPhase, Left, Handed, Kept>>
  <2>1. Progress' /\ UNCHANGED <<Left, Kept, alive, request>>
    BY <1>4, LocalDeleteProgress DEF RunningStep
  <2>2. Handed' \subseteq Handed
    BY <1>4 DEF DeleteLocalStorage, Handed
  <2>3. RemovalPhase' = RemovalPhase
    BY <2>1 DEF RemovalPhase
  <2>4. Promise!RemoveLater
    BY <2>1, <2>2, <2>3 DEF Promise!RemoveLater, Left, Kept
  <2> QED
    BY <2>1, <2>4 DEF Promise!Next
<1>5. CASE UNCHANGED removerVars
  <2>1. Progress'
    BY <1>5 DEF removerVars, posted, Progress, Owed, NotYet, CacheOpen, OfTheRequest, Served,
                Selected
  <2>2. UNCHANGED <<RemovalPhase, Left, Handed, Kept>>
    BY <1>5 DEF removerVars, posted, RemovalPhase, Left, Handed, Kept, Selected
  <2> QED
    BY <2>1, <2>2
<1> QED
  BY <1>1, <1>2, <1>3, <1>4, <1>5 DEF RemoverNext, UIStep, UICompletion

LEMMA ProgressInit == RemoverInit => Progress /\ NotHandedYet
BY DEF RemoverInit, Progress, CacheOpen, OfTheRequest, Selected, NoRequest, NotHandedYet

\* The remover implements the abstract one: before it is gone, once, it removes
\* what it was asked for, or reports a failure, or has told the DOM storage to
\* remove it, whatever the services do; and nothing else is ever touched.
THEOREM RemoverKeepsPromise == RemoverSpec => ImplementsRemoval
<1>1. RemoverInv /\ Progress /\ NotHandedYet /\ [RemoverNext]_removerVars
        => Progress' /\ NotHandedYet'
  BY PromiseStep, NotHandedYetStep
<1>2. RemoverInv /\ Progress /\ NotHandedYet /\ [RemoverNext]_removerVars
        => [Promise!Next]_<<RemovalPhase, Left, Handed, Kept>>
  BY PromiseStep
<1>3. RemoverSpec => [](Progress /\ NotHandedYet)
  BY <1>1, ProgressInit, RemoverAlways, PTL DEF RemoverSpec
<1> QED
  BY <1>2, <1>3, PromiseInit, RemoverAlways, PTL
     DEF RemoverSpec, ImplementsRemoval, Promise!Spec, Left, Kept
=============================================================================
