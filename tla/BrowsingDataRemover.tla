------------------------ MODULE BrowsingDataRemover ------------------------
(***************************************************************************)
(* One BrowsingDataRemoverEfl                                              *)
(* (src/impl/browser/renderer_host/browsing_data_remover_efl.cc), as       *)
(* EWebContext creates it for one request.                                 *)
(*                                                                         *)
(* The remover works on the UI and the IO thread and waits for the disk    *)
(* caches, the quota manager and the DOM storage. Every one of its         *)
(* callbacks holds base::Unretained(this), and it deletes itself when its  *)
(* three waiting flags are clear: the flags and two counters decide        *)
(* whether it is still there when it is called back.                       *)
(*                                                                         *)
(* The storage services are external. The quota manager lists origins      *)
(* asynchronously, but may answer a deletion inside the call.              *)
(***************************************************************************)
EXTENDS Naturals, Sequences, FiniteSets

CONSTANTS
  Origins,    \* origins that may hold data
  AnyOrigin,  \* the empty GURL: remove the data of all origins
  Masks       \* remove masks of RemoveImpl

Jobs == {"localStorage", "quota", "appcache"}
StorageTypes == {"persistent", "temporary", "syncable"}
Caches == {"main", "media"}

ASSUME OriginsAssumption == IsFiniteSet(Origins) /\ AnyOrigin \notin Origins
\* Application caches are not waited for, so they may not be combined with what
\* is ("this ptr will be already deleted", says DeleteAppCachesForOrigin).
\* EWebContext, the only caller, asks for them alone
ASSUME MasksAssumption ==
  \A m \in Masks :
    m # {} /\ m \subseteq Jobs /\ ("appcache" \in m => m = {"appcache"})

VARIABLES
  alive,      \* the remover has not been deleted
  request,    \* "none", or what it was asked for, see Request
  waiting,    \* waiting_for_clear_*_: "cache", "localStorage", "quota"
  \* ---- IO thread
  ioTask,     \* what RemoveImpl or ClearNetworkCache posted to it
  clearing,   \* DoClearCache: "idle", inside its loop, or waiting for a cache
  cacheState, \* next_cache_state_
  cache,      \* cache_: a disk cache, or "none"
  typesLeft,  \* quota_managed_storage_types_to_delete_count_
  originsLeft, \* quota_managed_origins_to_delete_count_
  appDeletes, \* posted calls of DeleteAppCachesForOrigin
  \* ---- UI thread
  uiTasks,         \* FIFO of tasks posted to it
  localDeletes, \* origins the DOM storage was told to DeleteLocalStorage of
  \* ---- the services
  usageAsked, \* GetLocalStorageUsage or GetAllAppCacheInfo is under way
  asked,      \* storage types whose origins are being listed
  deleting,   \* origins and types being deleted
  \* ---- the data
  data,       \* what is stored, see Items
  failed      \* what could not be removed

quotaVars == <<typesLeft, originsLeft, asked, deleting>>
cacheVars == <<clearing, cacheState, cache>>
posted == <<appDeletes, localDeletes>>
removerVars ==
  <<alive, request, waiting, ioTask, clearing, cacheState, cache, typesLeft,
    originsLeft, posted, uiTasks, usageAsked, asked, deleting, data, failed>>
----------------------------------------------------------------------------
\* What may be stored: local storage and application caches per origin, quota
\* managed data per origin and type, and the contents of the two disk caches
CacheItem(c) == [of |-> "cache", part |-> c, origin |-> AnyOrigin]
QuotaItem(o, t) == [of |-> "quota", part |-> t, origin |-> o]
LocalItem(o) == [of |-> "localStorage", part |-> "all", origin |-> o]
AppItem(o) == [of |-> "appcache", part |-> "all", origin |-> o]
CacheItems == {CacheItem(c) : c \in Caches}
Items ==
  CacheItems \cup {LocalItem(o) : o \in Origins} \cup {AppItem(o) : o \in Origins}
  \cup {QuotaItem(o, t) : o \in Origins, t \in StorageTypes}

Request == [jobs : SUBSET (Jobs \cup {"cache"}), origin : Origins \cup {AnyOrigin}]
NoRequest == [jobs |-> {}, origin |-> AnyOrigin]

\* An item the request is about; local storage is removed of all origins
Selected(r, i) ==
  /\ i.of \in r.jobs
  /\ i.of \in {"quota", "appcache"} => r.origin \in {i.origin, AnyOrigin}

RemoverInit ==
  /\ alive = TRUE /\ request = NoRequest /\ waiting = {}
  /\ ioTask = "none" /\ clearing = "idle" /\ cacheState = "NONE" /\ cache = "none"
  /\ typesLeft = 0 /\ originsLeft = 0 /\ appDeletes = {} /\ localDeletes = {}
  /\ uiTasks = <<>> /\ usageAsked = FALSE /\ asked = {} /\ deleting = {}
  /\ data \in {CacheItems \cup d : d \in SUBSET (Items \ CacheItems)}
  /\ failed = {}
----------------------------------------------------------------------------
(***************************************************************************)
(* Requests, on the UI thread                                              *)
(***************************************************************************)
ClearNetworkCache ==
  /\ request = NoRequest
  /\ request' = [jobs |-> {"cache"}, origin |-> AnyOrigin]
  /\ waiting' = {"cache"}
  /\ ioTask' = "clearCache"
  /\ UNCHANGED <<alive, cacheVars, quotaVars, posted, uiTasks, usageAsked, data,
                 failed>>

\* DeleteAppCachesForOrigin posts itself to the IO thread, which is not waited
\* for. Local storage is listed first, and so are application caches unless the
\* origin is known
RemoveImpl(mask, origin) ==
  /\ request = NoRequest
  /\ request' = [jobs |-> mask, origin |-> origin]
  /\ waiting' = mask \ {"appcache"}
  /\ LET known == origin # AnyOrigin IN
       /\ appDeletes' = {o \in {origin} : known /\ "appcache" \in mask}
       /\ usageAsked' = (\/ "localStorage" \in mask
                         \/ "appcache" \in mask /\ ~known)
  /\ ioTask' = IF "quota" \in mask THEN "clearQuota" ELSE "none"
  /\ UNCHANGED <<alive, cacheVars, quotaVars, localDeletes, uiTasks, data, failed>>
----------------------------------------------------------------------------
(***************************************************************************)
(* The network cache, on the IO thread. DoClearCache is a loop over its    *)
(* states: the thread does nothing else while it is "running", and each    *)
(* call to a cache may be done at once or later. Errors are ignored.       *)
(***************************************************************************)
IOFree == clearing # "running"

Served(s) == IF s \in {"CREATE_MAIN", "DELETE_MAIN"} THEN "main" ELSE "media"
AfterCreate(s) == IF s = "CREATE_MAIN" THEN "DELETE_MAIN" ELSE "DELETE_MEDIA"
AfterDelete(s) == IF s = "DELETE_MAIN" THEN "CREATE_MEDIA" ELSE "DONE"

\* The service removes what of `items` it can
Removed(items) ==
  \E ok \in SUBSET (items \cap data) :
    /\ data' = data \ ok
    /\ failed' = failed \cup ((items \cap data) \ ok)

ClearNetworkCacheOnIOThread ==
  /\ IOFree /\ ioTask = "clearCache"
  /\ ioTask' = "none"
  /\ cacheState' = "CREATE_MAIN" /\ clearing' = "running"
  /\ UNCHANGED <<alive, request, waiting, cache, quotaVars, posted, uiTasks,
                 usageAsked, data, failed>>

\* GetBackend; a cache that cannot be opened is null
CreateBackend ==
  /\ clearing = "running" /\ cacheState \in {"CREATE_MAIN", "CREATE_MEDIA"}
  /\ cacheState' = AfterCreate(cacheState)
  /\ \/ clearing' = "running" /\ cache' \in {Served(cacheState), "none"}
     \/ clearing' = "waiting" /\ cache' = cache
  /\ UNCHANGED <<alive, request, waiting, ioTask, quotaVars, posted, uiTasks,
                 usageAsked, data, failed>>

BackendReady ==
  /\ clearing = "waiting" /\ cacheState \in {"DELETE_MAIN", "DELETE_MEDIA"}
  /\ cache' \in {Served(cacheState), "none"}
  /\ clearing' = "running"
  /\ UNCHANGED <<alive, request, waiting, ioTask, cacheState, quotaVars, posted,
                 uiTasks, usageAsked, data, failed>>

\* DoomAllEntries of the cache that was created, if it was
DoomEntries ==
  /\ clearing = "running" /\ cacheState \in {"DELETE_MAIN", "DELETE_MEDIA"}
  /\ cacheState' = AfterDelete(cacheState)
  /\ cache' = "none"
  /\ \/ /\ cache = "none"
        /\ failed' = failed \cup (data \cap {CacheItem(Served(cacheState))})
        /\ UNCHANGED <<clearing, data>>
     \/ /\ cache # "none"
        /\ Removed({CacheItem(cache)})
        /\ UNCHANGED clearing
     \/ /\ cache # "none"
        /\ clearing' = "waiting"
        /\ UNCHANGED <<data, failed>>
  /\ UNCHANGED <<alive, request, waiting, ioTask, quotaVars, posted, uiTasks,
                 usageAsked>>

Doomed ==
  /\ clearing = "waiting" /\ cacheState \in {"CREATE_MEDIA", "DONE"}
  /\ Removed({CacheItem(IF cacheState = "DONE" THEN "media" ELSE "main")})
  /\ clearing' = "running"
  /\ UNCHANGED <<alive, request, waiting, ioTask, cacheState, cache, quotaVars,
                 posted, uiTasks, usageAsked>>

CacheDone ==
  /\ clearing = "running" /\ cacheState = "DONE"
  /\ cacheState' = "NONE" /\ cache' = "none" /\ clearing' = "idle"
  /\ uiTasks' = Append(uiTasks, "clearedCache")
  /\ UNCHANGED <<alive, request, waiting, ioTask, quotaVars, posted, usageAsked,
                 data, failed>>
----------------------------------------------------------------------------
(***************************************************************************)
(* Quota managed data, on the IO thread                                    *)
(***************************************************************************)
\* The range is unbounded, so the persistent type is asked for as well
ClearQuotaManagedDataOnIOThread ==
  /\ IOFree /\ ioTask = "clearQuota"
  /\ ioTask' = "none"
  /\ asked' = StorageTypes /\ typesLeft' = Cardinality(StorageTypes)
  /\ originsLeft' = 0
  /\ UNCHANGED <<alive, request, waiting, cacheVars, posted, uiTasks, usageAsked,
                 deleting, data, failed>>

\* Seeded bugs: either counter alone decides that all is done
TypesDecide(types, origins) ==
  uiTasks' = IF types = 0 THEN Append(uiTasks, "quotaDeleted") ELSE uiTasks
OriginsDecide(types, origins) ==
  uiTasks' = IF origins = 0 THEN Append(uiTasks, "quotaDeleted") ELSE uiTasks

\* On the counters as they now are
CheckQuotaManagedDataDeletionStatus(types, origins) ==
  uiTasks' = IF types = 0 /\ origins = 0 THEN Append(uiTasks, "quotaDeleted")
             ELSE uiTasks

\* Seeded bug: the origin is ignored
AllChosen(t) == {o \in Origins : QuotaItem(o, t) \in data}

\* The listed origins to delete
Chosen(t) == {o \in Origins : QuotaItem(o, t) \in data
                                /\ request.origin \in {o, AnyOrigin}}

\* Origins deleted inside the call count up and down again before the type is
\* counted off: their checks see typesLeft > 0 and post nothing
OnGotQuotaManagedOrigins(t) ==
  /\ IOFree /\ t \in asked
  /\ \E later \in SUBSET Chosen(t) :
       /\ Removed({QuotaItem(o, t) : o \in Chosen(t) \ later})
       /\ deleting' = deleting \cup {<<o, t>> : o \in later}
       /\ originsLeft' = originsLeft + Cardinality(later)
  /\ asked' = asked \ {t}
  /\ typesLeft' = typesLeft - 1
  /\ CheckQuotaManagedDataDeletionStatus(typesLeft', originsLeft')
  /\ UNCHANGED <<alive, request, waiting, ioTask, cacheVars, posted, usageAsked>>

OnQuotaManagedOriginDeletion(o, t) ==
  /\ IOFree /\ <<o, t>> \in deleting
  /\ Removed({QuotaItem(o, t)})
  /\ deleting' = deleting \ {<<o, t>>}
  /\ originsLeft' = originsLeft - 1
  /\ CheckQuotaManagedDataDeletionStatus(typesLeft, originsLeft')
  /\ UNCHANGED <<alive, request, waiting, ioTask, cacheVars, typesLeft, asked,
                 posted, usageAsked>>
----------------------------------------------------------------------------
(***************************************************************************)
(* Completion, on the UI thread, and application caches                    *)
(***************************************************************************)
\* A waiting flag is cleared; DeleteIfDone posts the deletion behind `rest`
Finished(job, rest) ==
  /\ waiting' = waiting \ {job}
  /\ uiTasks' = IF waiting' = {} THEN Append(rest, "delete") ELSE rest

Running(task) == uiTasks # <<>> /\ Head(uiTasks) = task

ClearedCache ==
  /\ Running("clearedCache")
  /\ Finished("cache", Tail(uiTasks))
  /\ UNCHANGED <<alive, request, ioTask, cacheVars, quotaVars, posted, usageAsked,
                 data, failed>>

OnQuotaManagedDataDeleted ==
  /\ Running("quotaDeleted")
  /\ Finished("quota", Tail(uiTasks))
  /\ UNCHANGED <<alive, request, ioTask, cacheVars, quotaVars, posted, usageAsked,
                 data, failed>>

\* Seeded bug: nothing to delete, nothing to do
UsageInfoReturnsEarly ==
  /\ usageAsked /\ "localStorage" \in request.jobs
  /\ usageAsked' = FALSE
  /\ localDeletes' = {o \in Origins : LocalItem(o) \in data}
  /\ IF localDeletes' = {} THEN UNCHANGED <<waiting, uiTasks>>
     ELSE Finished("localStorage", uiTasks)
  /\ UNCHANGED <<alive, request, ioTask, cacheVars, quotaVars, appDeletes, data,
                 failed>>

\* The unbounded range selects every origin. DeleteLocalStorage posts its work to
\* the DOM storage and has no answer: the flag is cleared before any is done
OnGotLocalStorageUsageInfo ==
  /\ usageAsked /\ "localStorage" \in request.jobs
  /\ usageAsked' = FALSE
  /\ localDeletes' = {o \in Origins : LocalItem(o) \in data}
  /\ Finished("localStorage", uiTasks)
  /\ UNCHANGED <<alive, request, ioTask, cacheVars, quotaVars, appDeletes, data,
                 failed>>

\* The DOM storage (external) gets to it, whether or not the remover is there
DeleteLocalStorage(o) ==
  /\ o \in localDeletes
  /\ localDeletes' = localDeletes \ {o}
  /\ Removed({LocalItem(o)})
  /\ UNCHANGED <<alive, request, waiting, ioTask, cacheVars, quotaVars, appDeletes,
                 uiTasks, usageAsked>>

\* The listed origins are deleted by calls posted to the IO thread
OnGotOriginsWithApplicationCache ==
  /\ usageAsked /\ "appcache" \in request.jobs
  /\ usageAsked' = FALSE
  /\ appDeletes' = {o \in Origins : AppItem(o) \in data}
  /\ UNCHANGED <<alive, request, waiting, ioTask, cacheVars, quotaVars,
                 localDeletes, uiTasks, data, failed>>

DeleteAppCachesForOrigin(o) ==
  /\ IOFree /\ o \in appDeletes
  /\ appDeletes' = appDeletes \ {o}
  /\ Removed({AppItem(o)})
  /\ UNCHANGED <<alive, request, waiting, ioTask, cacheVars, quotaVars,
                 localDeletes, uiTasks, usageAsked>>

DeleteSelf ==
  /\ Running("delete")
  /\ uiTasks' = Tail(uiTasks)
  /\ alive' = FALSE
  /\ UNCHANGED <<request, waiting, ioTask, cacheVars, quotaVars, posted,
                 usageAsked, data, failed>>
----------------------------------------------------------------------------
CacheStep ==
  \/ ClearNetworkCacheOnIOThread \/ CreateBackend \/ BackendReady
  \/ DoomEntries \/ Doomed \/ CacheDone

QuotaStep ==
  \/ ClearQuotaManagedDataOnIOThread
  \/ \E t \in StorageTypes : OnGotQuotaManagedOrigins(t)
  \/ \E o \in Origins, t \in StorageTypes : OnQuotaManagedOriginDeletion(o, t)

UIStep ==
  \/ ClearedCache \/ OnQuotaManagedDataDeleted \/ OnGotLocalStorageUsageInfo
  \/ DeleteSelf

AppCacheStep ==
  \/ OnGotOriginsWithApplicationCache
  \/ \E o \in Origins : DeleteAppCachesForOrigin(o)

RemoverNext ==
  \/ ClearNetworkCache
  \/ \E m \in Masks, o \in Origins \cup {AnyOrigin} : RemoveImpl(m, o)
  \/ CacheStep \/ QuotaStep \/ UIStep \/ AppCacheStep
  \/ \E o \in Origins : DeleteLocalStorage(o)

\* Both threads serve their queues, and the storage services answer
RemoverFairness ==
  /\ WF_removerVars(CacheStep) /\ WF_removerVars(QuotaStep)
  /\ WF_removerVars(UIStep)

RemoverSpec == RemoverInit /\ [][RemoverNext]_removerVars /\ RemoverFairness
----------------------------------------------------------------------------
(***************************************************************************)
(* Properties                                                              *)
(***************************************************************************)
\* The types of the remover's members and of what it has asked for.
RemoverTypeOK ==
  /\ alive \in BOOLEAN /\ usageAsked \in BOOLEAN
  /\ request \in Request
  /\ waiting \in SUBSET {"cache", "localStorage", "quota"}
  /\ ioTask \in {"none", "clearCache", "clearQuota"}
  /\ clearing \in {"idle", "running", "waiting"}
  /\ cacheState \in {"NONE", "CREATE_MAIN", "DELETE_MAIN", "CREATE_MEDIA",
                     "DELETE_MEDIA", "DONE"}
  /\ cache \in Caches \cup {"none"}
  /\ typesLeft \in Nat /\ originsLeft \in Nat
  /\ appDeletes \subseteq Origins /\ localDeletes \subseteq Origins
  /\ uiTasks \in Seq({"clearedCache", "quotaDeleted", "delete"})
  /\ asked \subseteq StorageTypes /\ deleting \subseteq Origins \X StorageTypes
  /\ data \subseteq Items /\ failed \subseteq Items

\* A waiting flag is set exactly while one chain of calls is under way that
\* will clear it: the counters say what the quota manager still owes, no
\* completion is posted twice or early, and the deletion is posted last.
CacheWork ==
  /\ "cache" \in waiting <=>
       \/ ioTask = "clearCache" \/ clearing # "idle" \/ uiTasks = <<"clearedCache">>
  /\ ioTask = "clearCache" => clearing = "idle" /\ uiTasks = <<>>
  /\ clearing # "idle" => uiTasks = <<>>
  /\ clearing = "idle" <=> cacheState = "NONE"

QuotaWork ==
  /\ typesLeft = Cardinality(asked) /\ originsLeft = Cardinality(deleting)
  /\ "quota" \in waiting <=>
       \/ ioTask = "clearQuota" \/ asked \cup deleting # {}
       \/ uiTasks = <<"quotaDeleted">>
  /\ ioTask = "clearQuota" => asked \cup deleting = {} /\ uiTasks = <<>>
  /\ asked \cup deleting # {} => uiTasks = <<>>

WaitingMeansWork ==
  /\ CacheWork /\ QuotaWork
  /\ "localStorage" \in waiting <=> usageAsked /\ "localStorage" \in request.jobs
  /\ uiTasks = <<"delete">> => waiting = {}
  /\ Len(uiTasks) <= 1

\* The remover is deleted once, and then no thread or service has a task or
\* a callback left that would use it (all are bound to it unretained). Only what
\* the DOM storage was told to delete may outlast it.
NothingAfterDelete ==
  ~alive =>
    /\ waiting = {} /\ uiTasks = <<>> /\ ioTask = "none" /\ clearing = "idle"
    /\ ~usageAsked /\ asked = {} /\ deleting = {} /\ appDeletes = {}

\* The remover implements Removal: other data is never touched, and it is gone
\* only after everything it was asked for was removed, reported as failed or left
\* to the DOM storage, which is not waited for.
RemovalPhase ==
  IF ~alive THEN "gone" ELSE IF request = NoRequest THEN "new" ELSE "busy"
Handed == {LocalItem(o) : o \in localDeletes}
Promise ==
  INSTANCE Removal WITH
    phase <- RemovalPhase,
    handed <- Handed,
    left <- {i \in data \ (failed \cup Handed) : Selected(request, i)},
    kept <- {i \in data : ~Selected(request, i)}
ImplementsRemoval == Promise!Spec

\* A remover that was asked for anything but application caches is deleted
\* once its services have answered: no flag stays set.
EventuallyDeleted == waiting # {} ~> ~alive
=============================================================================
