---------------------------- MODULE AppReleases -----------------------------
(***************************************************************************)
(* Releases of the application (routes/updates.ts), for one platform and   *)
(* channel: the rows administrators keep, the files they point to, and the *)
(* cache of the latest active release that the checks of phones read.      *)
(*                                                                         *)
(* A query of the cache runs on while rows change: it has read its answer  *)
(* or not when the cache is emptied.  Rows are committed, and the cache    *)
(* emptied, in different turns of the event loop.                          *)
(***************************************************************************)
EXTENDS Naturals, FiniteSets

CONSTANTS
  NoRelease,
  Releases,        \* ids of AppUpdate
  Versions,        \* versionCode
  Apks,            \* keys of files in the storage
  Loads,           \* queries of the cache
  Operators,       \* requests of administrators served at the same time
  MaxOrders        \* bound on those requests

VARIABLES
  release,     \* the rows: [version, active, apk], or NoRelease
  apks,        \* files that exist
  given,       \* keys buildObjectKey has made: it makes each of them once
  cached,      \* latestUpdateCache: [value, expired, overtaken], or NoRelease
  loading,     \* latestUpdateLoads: the load a check joins
  load,        \* the queries in progress: [pc, value, overtaken]
  operator,    \* the requests in progress
  orders,
  borrowed,    \* history: keys a row named when there was no such file, or after
               \* a request had found the file unused
  unnoticed    \* history: a cleanup failed on its way and did not empty the cache

releases == <<release, apks, given, cached, loading, load, operator, orders, borrowed, unnoticed>>

AtRest == [pc |-> "rest"]
Resting == [pc |-> "idle", value |-> NoRelease, overtaken |-> FALSE]
LiveRows == {r \in Releases : release[r] # NoRelease}
VersionTaken(v, r) == \E o \in LiveRows \ {r} : release[o].version = v

ReleasesInit ==
  /\ release = [r \in Releases |-> NoRelease] /\ apks = {} /\ given = {}
  /\ cached = NoRelease /\ loading = NoRelease /\ load = [l \in Loads |-> Resting]
  /\ operator = [o \in Operators |-> AtRest] /\ orders = 0
  /\ borrowed = {} /\ unnoticed = FALSE

(***************************************************************************)
(* The cache                                                               *)
(***************************************************************************)
\* The active row with the highest version, as a value that may be compared later.
Latest ==
  LET S == {r \in LiveRows : release[r].active}
  IN IF S = {} THEN [id |-> NoRelease]
     ELSE LET r == CHOOSE x \in S : \A y \in S : release[y].version <= release[x].version
          IN [id |-> r, row |-> release[r]]

\* findLatestActiveUpdate: a check that finds neither an entry nor a load starts one.
StartLoad(l) ==
  /\ cached # NoRelease => cached.expired
  /\ loading = NoRelease /\ load[l] = Resting
  /\ loading' = l /\ load' = [load EXCEPT ![l].pc = "asked"]
  /\ UNCHANGED <<release, apks, given, cached, operator, orders, borrowed, unnoticed>>
QueryLatest(l) ==
  /\ load[l].pc = "asked" /\ load' = [load EXCEPT ![l].pc = "read", ![l].value = Latest]
  /\ UNCHANGED <<release, apks, given, cached, loading, operator, orders, borrowed, unnoticed>>
\* then and finally: the answer is kept, and the entry of the key is deleted, whose ever it is.
FinishLoad(l) ==
  /\ load[l].pc = "read"
  /\ cached' = [value |-> load[l].value, expired |-> FALSE, overtaken |-> load[l].overtaken]
  /\ loading' = NoRelease /\ load' = [load EXCEPT ![l] = Resting]
  /\ UNCHANGED <<release, apks, given, operator, orders, borrowed, unnoticed>>
FailLoad(l) ==
  /\ load[l].pc = "asked" /\ loading' = NoRelease /\ load' = [load EXCEPT ![l] = Resting]
  /\ UNCHANGED <<release, apks, given, cached, operator, orders, borrowed, unnoticed>>
ExpireCache ==
  /\ cached # NoRelease /\ ~cached.expired /\ cached' = [cached EXCEPT !.expired = TRUE]
  /\ UNCHANGED <<release, apks, given, loading, load, operator, orders, borrowed, unnoticed>>

\* invalidateLatestUpdateCache
Invalidated ==
  /\ cached' = NoRelease /\ loading' = NoRelease
  /\ load' = [l \in Loads |-> IF load[l].pc = "read" THEN [load[l] EXCEPT !.overtaken = TRUE] ELSE load[l]]

(***************************************************************************)
(* The rows                                                                *)
(***************************************************************************)
Order(o, record) ==
  /\ orders < MaxOrders /\ orders' = orders + 1
  /\ operator[o] = AtRest /\ operator' = [operator EXCEPT ![o] = record]
OrderDone(o) == operator' = [operator EXCEPT ![o] = AtRest]
ThenInvalidate(o) == operator' = [operator EXCEPT ![o] = [pc |-> "invalidate"]]
\* Nothing looks whether the file that a row names is there, or is to stay.
Borrows(k) ==
  borrowed' = IF k \notin apks \/ \E o \in Operators : operator[o].pc = "unused" /\ operator[o].apk = k
              THEN borrowed \cup {k} ELSE borrowed

\* POST /upload-url: the file is put at a new key.
NewApk(k) == k \notin given \cup borrowed /\ given' = given \cup {k} /\ apks' = apks \cup {k}
PutApk(k) ==
  /\ NewApk(k)
  /\ UNCHANGED <<release, cached, loading, load, operator, orders, borrowed, unnoticed>>

\* A caller may name any key, of a file that was put or of none; only the key
\* of an upload in progress is not known to anybody.
KnownApk(k) == \A o \in Operators : operator[o].pc = "uploaded" => operator[o].row.apk # k

\* POST /
CreateRelease(o, r, row) ==
  /\ r \notin LiveRows /\ ~VersionTaken(row.version, r) /\ KnownApk(row.apk)
  /\ Order(o, [pc |-> "invalidate"])
  /\ release' = [release EXCEPT ![r] = row] /\ Borrows(row.apk)
  /\ UNCHANGED <<apks, given, cached, loading, load, unnoticed>>

\* POST /upload: the file, then the row, which another one of the version holds back.
UploadApk(o, r, row) ==
  /\ NewApk(row.apk) /\ Order(o, [pc |-> "uploaded", id |-> r, row |-> row])
  /\ UNCHANGED <<release, cached, loading, load, borrowed, unnoticed>>
CreateUploaded(o) ==
  LET x == operator[o] IN
  /\ x.pc = "uploaded" /\ x.id \notin LiveRows
  /\ IF VersionTaken(x.row.version, x.id) THEN OrderDone(o) /\ UNCHANGED <<release, borrowed>>
     ELSE ThenInvalidate(o) /\ release' = [release EXCEPT ![x.id] = x.row] /\ Borrows(x.row.apk)
  /\ UNCHANGED <<apks, given, cached, loading, load, orders, unnoticed>>

\* PUT /:id
EditRelease(o, r, row) ==
  /\ r \in LiveRows /\ ~VersionTaken(row.version, r) /\ KnownApk(row.apk)
  /\ Order(o, [pc |-> "invalidate"])
  /\ release' = [release EXCEPT ![r] = row] /\ Borrows(row.apk)
  /\ UNCHANGED <<apks, given, cached, loading, load, unnoticed>>

\* Mutant of Invalidate: the cache lives on until it expires.
MutCacheKept(o) ==
  /\ operator[o].pc = "invalidate" /\ OrderDone(o)
  /\ UNCHANGED <<release, apks, given, cached, loading, load, orders, borrowed, unnoticed>>

Invalidate(o) ==
  /\ operator[o].pc = "invalidate" /\ OrderDone(o) /\ Invalidated
  /\ UNCHANGED <<release, apks, given, orders, borrowed, unnoticed>>

\* DELETE /:id: the row, the cache, and the file when no other row uses it.
DeleteRelease(o, r) ==
  /\ r \in LiveRows /\ Order(o, [pc |-> "deleted", apk |-> release[r].apk, list |-> {}, all |-> FALSE])
  /\ release' = [release EXCEPT ![r] = NoRelease]
  /\ UNCHANGED <<apks, given, cached, loading, load, borrowed, unnoticed>>
InvalidateDeleted(o) ==
  /\ operator[o].pc = "deleted" /\ Invalidated
  /\ operator' = [operator EXCEPT ![o].pc = "count"]
  /\ UNCHANGED <<release, apks, given, orders, borrowed, unnoticed>>

\* POST /cleanup: all rows but the newest ones, deleted one by one; the cache is emptied at the end.
Newer(r) == {x \in LiveRows : release[x].version > release[r].version}
ReadOldRows(o, keep) ==
  /\ \E r \in LiveRows : Cardinality(Newer(r)) >= keep
  /\ Order(o, [pc |-> "next", apk |-> NoRelease, all |-> TRUE,
               list |-> {<<r, release[r].apk>> : r \in {x \in LiveRows : Cardinality(Newer(x)) >= keep}}])
  /\ UNCHANGED <<release, apks, given, cached, loading, load, borrowed, unnoticed>>
DeleteOldRow(o) ==
  LET x == operator[o] IN
  /\ x.pc = "next" /\ x.list # {}
  /\ \E e \in x.list :
       IF e[1] \in LiveRows
       THEN /\ release' = [release EXCEPT ![e[1]] = NoRelease]
            /\ operator' = [operator EXCEPT ![o] = [x EXCEPT !.pc = "count", !.apk = e[2], !.list = @ \ {e}]]
            /\ UNCHANGED unnoticed
       ELSE OrderDone(o) /\ unnoticed' = TRUE /\ UNCHANGED release
  /\ UNCHANGED <<apks, given, cached, loading, load, orders, borrowed>>
CleanupDone(o) ==
  /\ operator[o].pc = "next" /\ operator[o].list = {} /\ ThenInvalidate(o)
  /\ UNCHANGED <<release, apks, given, cached, loading, load, orders, borrowed, unnoticed>>

\* safeDeleteApk
CountUsers(o) ==
  LET x == operator[o]
      rest == IF x.all THEN [x EXCEPT !.pc = "next"] ELSE AtRest
  IN
  /\ x.pc = "count"
  /\ operator' = [operator EXCEPT ![o] =
       IF \E r \in LiveRows : release[r].apk = x.apk THEN rest ELSE [x EXCEPT !.pc = "unused"]]
  /\ UNCHANGED <<release, apks, given, cached, loading, load, orders, borrowed, unnoticed>>
DeleteApk(o) ==
  LET x == operator[o] IN
  /\ x.pc = "unused"
  /\ apks' \in {apks, apks \ {x.apk}}
  /\ operator' = [operator EXCEPT ![o] = IF x.all THEN [x EXCEPT !.pc = "next"] ELSE AtRest]
  /\ UNCHANGED <<release, given, cached, loading, load, orders, borrowed, unnoticed>>

ReleaseBodies == [version : Versions, active : BOOLEAN, apk : Apks]
ReleasesNext ==
  \/ \E l \in Loads : StartLoad(l) \/ QueryLatest(l) \/ FinishLoad(l) \/ FailLoad(l)
  \/ ExpireCache \/ \E k \in Apks : PutApk(k)
  \/ \E o \in Operators :
       \/ \E r \in Releases, row \in ReleaseBodies : 
            CreateRelease(o, r, row) \/ EditRelease(o, r, row) \/ UploadApk(o, r, row)
       \/ CreateUploaded(o)
       \/ Invalidate(o) \/ InvalidateDeleted(o) \/ CountUsers(o) \/ DeleteApk(o)
       \/ \E r \in Releases : DeleteRelease(o, r)
       \/ \E keep \in 1..2 : ReadOldRows(o, keep)
       \/ DeleteOldRow(o) \/ CleanupDone(o)

ReleasesSpec == ReleasesInit /\ [][ReleasesNext]_releases

(***************************************************************************)
(* Properties                                                              *)
(***************************************************************************)

\* Rows were, or are about to be, changed, and the cache is not emptied yet.
Unfinished(o) ==
  \/ operator[o].pc \in {"invalidate", "deleted"}
  \/ operator[o].pc \in {"next", "count", "unused"} /\ operator[o].all

\* The cache holds the latest active release whenever no request stands between its commit and
\* the emptying of the cache, unless a query that had read older rows finished after it, or a
\* cleanup failed in the middle; such an entry lives on for LATEST_UPDATE_CACHE_TTL_MS.
CacheIsCurrent ==
  \/ cached = NoRelease \/ cached.expired \/ cached.overtaken \/ unnoticed
  \/ \E o \in Operators : Unfinished(o)
  \/ cached.value = Latest

\* A file that was there when a row named it stays there as long as a row names it, over deletions
\* and cleanups that run at the same time and rows that share a file, unless a row took it over
\* after a request had counted it as unused: that request then deletes it.
ReleaseHasFile == \A r \in LiveRows : release[r].apk \in apks \cup borrowed

\* A check answers with the latest release and its file can be downloaded.
ReleasesAreServed == CacheIsCurrent /\ ReleaseHasFile
=============================================================================
