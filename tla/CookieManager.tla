--------------------------- MODULE CookieManager ---------------------------
(***************************************************************************)
(* CookieManager (src/impl/cookie_manager.cc): the application's calls on  *)
(* the UI thread and their tasks on the IO thread. The accept policy is in *)
(* CookiePolicy.                                                           *)
(*                                                                         *)
(* The cookies are in a net::CookieMonster, which is external: it runs     *)
(* deletions and listings in the order it received them, holds them back   *)
(* until it has loaded its file, and answers a question about one host as  *)
(* soon as that host is loaded. A new storage path means a new store; what *)
(* the old one holds back still completes. A store has host cookies, sent  *)
(* to the host that set them alone, and domain cookies; DeleteAllForHost   *)
(* removes the host cookies. A listing gives the application the cookies'  *)
(* names (EwkGetHostCallback::TriggerCallback), not their hosts.           *)
(***************************************************************************)
EXTENDS Naturals, Sequences

CONSTANTS
  Hosts,         \* hosts that may have cookies, as URLs
  MaxFetches,    \* bound: calls of GetHostNamesWithCookiesAsync
  MaxPaths,      \* bound: changes of the storage path
  MaxCookieCalls, \* bound: other calls of the application
  MaxDeletes     \* bound: those of them, the first, that may delete cookies

ASSUME CookieAssumption ==
  {MaxFetches, MaxPaths, MaxCookieCalls, MaxDeletes} \subseteq Nat

Cookies == [host : Hosts, kind : {"host", "domain"}]
\* What a deletion may be given: "" for all cookies, a host's URL, or a string
\* that is no valid URL, as the bare host name that
\* ewk_cookie_manager_hostname_cookies_clear documents is
Urls == Hosts \cup {"", "a bare host name"}
Fetches == 1..MaxFetches
Stores == 0..MaxPaths

VARIABLES
  listings,    \* FIFO of OnFetchComplete tasks on the UI thread, by fetch
  cookieTasks, \* FIFO of this class's tasks on the IO thread
  callbacks,   \* host_callback_queue_, by the fetch each was pushed for
  waiting,     \* GetCookiesForURL waits for its event
  calls,       \* calls of the application so far
  fetches,     \* listings asked so far
  paths,       \* storage paths given so far
  store,       \* the store in use
  loaded,      \* per store: its file is loaded
  held,        \* per store: the operations held back
  jar,         \* per store: its cookies
  \* history
  usedStore,   \* per fetch: the store that was asked
  result,      \* per fetch: what the store listed
  got,         \* per fetch: the fetch whose listing its callback received, or 0
  deleted,     \* cookies deleted and not set again since
  absent       \* per fetch: cookies it must not list

stores == <<store, loaded, held, jar>>
history == <<usedStore, result, got, deleted, absent>>
cookiesVars == <<listings, cookieTasks, callbacks, waiting, calls, fetches,
                 paths, stores, history>>
----------------------------------------------------------------------------
Operation == [op : {"delete"}, url : Urls]
             \cup [op : {"fetch"}, f : Fetches] \cup [op : {"value"}]

CookiesInit ==
  /\ listings = <<>> /\ cookieTasks = <<>> /\ callbacks = <<>>
  /\ waiting = FALSE /\ calls = 0 /\ fetches = 0 /\ paths = 0
  /\ store = 0
  /\ loaded = [s \in Stores |-> s = 0]   \* the first store is in memory
  /\ held = [s \in Stores |-> <<>>]
  /\ jar = [s \in Stores |-> {}]
  /\ usedStore = [f \in Fetches |-> 0]
  /\ result = [f \in Fetches |-> {}]
  /\ got = [f \in Fetches |-> 0]
  /\ deleted = {} /\ absent = [f \in Fetches |-> {}]

CookiesTypeOK ==
  /\ listings \in Seq(Fetches) /\ callbacks \in Seq(Fetches)
  /\ cookieTasks \in Seq(Operation \cup [op : {"path"}])
  /\ waiting \in BOOLEAN /\ calls \in 0..MaxCookieCalls
  /\ fetches \in 0..MaxFetches /\ paths \in 0..MaxPaths
  /\ store \in Stores /\ loaded \in [Stores -> BOOLEAN]
  /\ held \in [Stores -> Seq(Operation)] /\ jar \in [Stores -> SUBSET Cookies]
  /\ usedStore \in [Fetches -> Stores]
  /\ result \in [Fetches -> SUBSET Cookies]
  /\ got \in [Fetches -> 0..MaxFetches]
  /\ deleted \in SUBSET Cookies /\ absent \in [Fetches -> SUBSET Cookies]
----------------------------------------------------------------------------
\* Calls on the UI thread.
AppCalls == ~waiting /\ calls < MaxCookieCalls /\ calls' = calls + 1

\* The cookies DeleteCookiesOnIOThread deletes: no caller gives it a name.
Selected(url) ==
  {c \in Cookies : url = "" \/ (c.kind = "host" /\ c.host = url)}

\* DeleteCookiesAsync
DeleteCookies(url) ==
  /\ AppCalls /\ calls < MaxDeletes
  /\ cookieTasks' = Append(cookieTasks, [op |-> "delete", url |-> url])
  /\ deleted' = deleted \cup Selected(url)
  /\ UNCHANGED <<listings, callbacks, waiting, fetches, paths, stores,
                 usedStore, result, got, absent>>

GetHostNamesWithCookies ==
  /\ ~waiting /\ fetches < MaxFetches
  /\ fetches' = fetches + 1
  /\ callbacks' = Append(callbacks, fetches + 1)
  /\ cookieTasks' = Append(cookieTasks, [op |-> "fetch", f |-> fetches + 1])
  /\ absent' = [absent EXCEPT ![fetches + 1] = deleted]
  /\ UNCHANGED <<listings, waiting, calls, paths, stores, usedStore, result,
                 got, deleted>>

SetStoragePath ==
  /\ ~waiting /\ paths < MaxPaths /\ paths' = paths + 1
  /\ cookieTasks' = Append(cookieTasks, [op |-> "path"])
  /\ deleted' = {}
  /\ UNCHANGED <<listings, callbacks, waiting, calls, fetches, stores,
                 usedStore, result, got, absent>>

\* GetCookiesForURL blocks the UI thread.
GetCookiesForURL ==
  /\ AppCalls
  /\ waiting' = TRUE
  /\ cookieTasks' = Append(cookieTasks, [op |-> "value"])
  /\ UNCHANGED <<listings, callbacks, fetches, paths, stores, history>>

\* OnFetchComplete on the UI thread: the listing goes to the oldest callback.
\* (mutant) to the newest
OnFetchCompleteLast ==
  /\ ~waiting /\ listings # <<>>
  /\ listings' = Tail(listings)
  /\ IF callbacks # <<>>
     THEN /\ got' = [got EXCEPT ![callbacks[Len(callbacks)]] = Head(listings)]
          /\ callbacks' = SubSeq(callbacks, 1, Len(callbacks) - 1)
     ELSE UNCHANGED <<got, callbacks>>
  /\ UNCHANGED <<cookieTasks, waiting, calls, fetches, paths, stores, usedStore,
                 result, deleted, absent>>

OnFetchComplete ==
  /\ ~waiting /\ listings # <<>>
  /\ listings' = Tail(listings)
  /\ IF callbacks # <<>>
     THEN /\ got' = [got EXCEPT ![Head(callbacks)] = Head(listings)]
          /\ callbacks' = Tail(callbacks)
     ELSE UNCHANGED <<got, callbacks>>
  /\ UNCHANGED <<cookieTasks, waiting, calls, fetches, paths, stores, usedStore,
                 result, deleted, absent>>
----------------------------------------------------------------------------
\* The store's part of an operation: a listing is posted to the UI thread, a
\* value is written and its event signalled (GetCookieValueCompleted).
\* (mutant) the event is not signalled
ExecuteSilent(s, o) ==
  /\ jar' = IF o.op = "delete" THEN [jar EXCEPT ![s] = @ \ Selected(o.url)]
            ELSE jar
  /\ IF o.op = "fetch"
     THEN /\ listings' = Append(listings, o.f)
          /\ result' = [result EXCEPT ![o.f] = jar[s]]
     ELSE UNCHANGED <<listings, result>>
  /\ UNCHANGED waiting

Execute(s, o) ==
  /\ jar' = IF o.op = "delete" THEN [jar EXCEPT ![s] = @ \ Selected(o.url)]
            ELSE jar
  /\ IF o.op = "fetch"
     THEN /\ listings' = Append(listings, o.f)
          /\ result' = [result EXCEPT ![o.f] = jar[s]]
     ELSE UNCHANGED <<listings, result>>
  /\ waiting' = (waiting /\ o.op # "value")

\* DeleteCookiesOnIOThread of what is no valid URL: it returns.
NoUrl(o) == o.op = "delete" /\ o.url \notin Hosts \cup {""}

DeleteNothing ==
  /\ cookieTasks # <<>> /\ NoUrl(Head(cookieTasks))
  /\ cookieTasks' = Tail(cookieTasks)
  /\ UNCHANGED <<listings, callbacks, waiting, calls, fetches, paths, stores,
                 history>>

\* DeleteCookiesOnIOThread, FetchCookiesOnIOThread, GetCookieValueOnIOThread.
AskStore ==
  /\ cookieTasks # <<>> /\ Head(cookieTasks).op # "path"
  /\ ~NoUrl(Head(cookieTasks))
  /\ cookieTasks' = Tail(cookieTasks)
  /\ LET o == Head(cookieTasks) IN
     /\ usedStore' = IF o.op = "fetch" THEN [usedStore EXCEPT ![o.f] = store]
                     ELSE usedStore
     /\ IF loaded[store] /\ held[store] = <<>>
        THEN Execute(store, o) /\ UNCHANGED held
        ELSE /\ held' = [held EXCEPT ![store] = Append(@, o)]
             /\ UNCHANGED <<listings, waiting, jar, result>>
  /\ UNCHANGED <<callbacks, calls, fetches, paths, store, loaded, got, deleted,
                 absent>>

\* SetStoragePathOnIOThread and CreatePersistentCookieStore: an unchanged
\* path changes nothing, another one brings a store that has to be loaded.
ChangeStore ==
  /\ cookieTasks # <<>> /\ Head(cookieTasks).op = "path"
  /\ cookieTasks' = Tail(cookieTasks)
  /\ \/ UNCHANGED <<store, jar>>
     \/ /\ store' = store + 1
        /\ \E C \in SUBSET Cookies : jar' = [jar EXCEPT ![store + 1] = C]
  /\ UNCHANGED <<listings, callbacks, waiting, calls, fetches, paths, loaded,
                 held, history>>

\* The cookie monster loads its file, then runs what it held back.
StoreLoads(s) ==
  /\ s <= store /\ ~loaded[s]
  /\ loaded' = [loaded EXCEPT ![s] = TRUE]
  /\ UNCHANGED <<listings, cookieTasks, callbacks, waiting, calls, fetches,
                 paths, store, held, jar, history>>

RunHeld(s) ==
  /\ loaded[s] /\ held[s] # <<>>
  /\ held' = [held EXCEPT ![s] = Tail(@)]
  /\ Execute(s, Head(held[s]))
  /\ UNCHANGED <<cookieTasks, callbacks, calls, fetches, paths, store, loaded,
                 usedStore, got, deleted, absent>>

\* The host asked about is loaded before the rest of the file. One question is
\* held back at most: the thread that asked it waits.
HostLoads(s) ==
  /\ \E i \in DOMAIN held[s] :
       /\ held[s][i].op = "value"
       /\ held' = [held EXCEPT ![s] =
                    SubSeq(@, 1, i - 1) \o SubSeq(@, i + 1, Len(@))]
  /\ waiting' = FALSE
  /\ UNCHANGED <<listings, cookieTasks, callbacks, calls, fetches, paths, store,
                 loaded, jar, history>>

\* A page or a response sets a cookie in the store in use.
CookieSet(c) ==
  /\ loaded[store] /\ held[store] = <<>> /\ c \notin jar[store]
  /\ jar' = [jar EXCEPT ![store] = @ \cup {c}]
  /\ deleted' = deleted \ {c}
  /\ absent' = [f \in Fetches |-> absent[f] \ {c}]
  /\ UNCHANGED <<listings, cookieTasks, callbacks, waiting, calls, fetches,
                 paths, store, loaded, held, usedStore, result, got>>
----------------------------------------------------------------------------
UiCall ==
  \/ \E url \in Urls : DeleteCookies(url)
  \/ GetHostNamesWithCookies \/ SetStoragePath \/ GetCookiesForURL
IoTask == AskStore \/ DeleteNothing \/ ChangeStore
StoreTask(s) == StoreLoads(s) \/ RunHeld(s) \/ HostLoads(s)

CookiesNext ==
  \/ UiCall \/ OnFetchComplete \/ IoTask
  \/ \E s \in Stores : StoreTask(s)
  \/ \E c \in Cookies : CookieSet(c)

\* The threads run their tasks, and a store does load.
CookiesFairness ==
  /\ WF_cookiesVars(OnFetchComplete) /\ WF_cookiesVars(IoTask)
  /\ \A s \in Stores : WF_cookiesVars(StoreTask(s))

CookiesSpec == CookiesInit /\ [][CookiesNext]_cookiesVars /\ CookiesFairness
----------------------------------------------------------------------------
(***************************************************************************)
(* A callback of GetHostNamesWithCookiesAsync receives its own listing: it *)
(* takes two listings asked of different stores, of which the later may    *)
(* answer first, to give one the listing of another. And a listing has no  *)
(* cookie that a deletion asked for before it selects, although a loading  *)
(* store held both back, unless the cookie was set again or the storage    *)
(* path changed.                                                           *)
(***************************************************************************)
OwnListing ==
  \A f \in Fetches :
    /\ got[f] \notin {0, f} =>
         \E e, g \in Fetches : e < g /\ usedStore[e] # usedStore[g]
                               /\ {e, g} \cap {f, got[f]} # {}
    /\ result[f] \cap absent[f] = {}

(***************************************************************************)
(* GetCookiesForURL blocks the UI thread on the IO thread, and returns;    *)
(* and every callback of a listing is called.                              *)
(***************************************************************************)
CallsEnd == (waiting ~> ~waiting)
            /\ \A f \in Fetches : fetches >= f ~> got[f] # 0
============================================================================
