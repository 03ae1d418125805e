---------------------------- MODULE UpdatesProofs ----------------------------
(***************************************************************************)
(* Proofs about the releases of the application (AppReleases): the cache   *)
(* of the latest release, and the files of the rows; and about its updates *)
(* over the air (OtaUpdates): their files, their numbers and what a phone  *)
(* is sent; and about the catalogue (OnecSync, CatalogFeed): a session of  *)
(* 1C that brings what it names is promoted whole, and a client that has   *)
(* caught up with the changes has the products as they are.                *)
(***************************************************************************)
EXTENDS AppReleases, OtaUpdates, CatalogFeed, FiniteSetTheorems, WellFoundedInduction, TLAPS

-----------------------------------------------------------------------------
(* What the records of requests and queries look like.                      *)

Deleting == {"deleted", "count", "unused", "next"}

OperatorOK(o) ==
  /\ operator[o].pc \in Deleting =>
       DOMAIN operator[o] = {"pc", "apk", "list", "all"} /\ operator[o].all \in BOOLEAN
  /\ operator[o].pc = "next" => operator[o].all
  /\ operator[o].pc = "uploaded" => operator[o].id \in Releases

RecordsOK ==
  /\ DOMAIN release = Releases
  /\ cached # NoRelease => DOMAIN cached = {"value", "expired", "overtaken"}
  /\ DOMAIN operator = Operators /\ \A o \in Operators : OperatorOK(o)
  /\ DOMAIN load = Loads /\ \A l \in Loads : DOMAIN load[l] = {"pc", "value", "overtaken"}

\* A step of one request keeps what is known of the others.
LEMMA OthersKept ==
  ASSUME RecordsOK, NEW o \in Operators, NEW x, operator' = [operator EXCEPT ![o] = x]
  PROVE  /\ DOMAIN operator' = Operators /\ operator'[o] = x
         /\ \A p \in Operators : p # o => operator'[p] = operator[p] /\ OperatorOK(p)'
BY DEF RecordsOK, OperatorOK

\* What the record of a request is after it, when it takes the request's place.
RecordOK(x) ==
  /\ x.pc \in Deleting => DOMAIN x = {"pc", "apk", "list", "all"} /\ x.all \in BOOLEAN
  /\ x.pc = "next" => x.all
  /\ x.pc = "uploaded" => x.id \in Releases

LEMMA RecordKept ==
  ASSUME RecordsOK, NEW o \in Operators, NEW x, RecordOK(x), operator' = [operator EXCEPT ![o] = x]
  PROVE  DOMAIN operator' = Operators /\ \A p \in Operators : OperatorOK(p)'
<1>1. OperatorOK(o)'
  BY OthersKept DEF OperatorOK, RecordOK
<1>. QED  BY <1>1, OthersKept

LEMMA OperatorsKept ==
  ASSUME RecordsOK, operator' = operator
  PROVE  DOMAIN operator' = Operators /\ \A p \in Operators : OperatorOK(p)'
BY DEF RecordsOK, OperatorOK

LEMMA RecordsStep == RecordsOK /\ [ReleasesNext]_releases => RecordsOK'
<1>. SUFFICES ASSUME RecordsOK, [ReleasesNext]_releases PROVE RecordsOK'
  OBVIOUS
<1>. DEFINE CachedOK == cached # NoRelease => DOMAIN cached = {"value", "expired", "overtaken"}
<1>0. CachedOK'
  <2>1. ASSUME NEW l \in Loads, StartLoad(l) \/ QueryLatest(l) \/ FinishLoad(l) \/ FailLoad(l) PROVE CachedOK'
    BY <2>1 DEF RecordsOK, StartLoad, QueryLatest, FinishLoad, FailLoad
  <2>2. ASSUME ExpireCache PROVE CachedOK'
    BY <2>2 DEF RecordsOK, ExpireCache
  <2>3. ASSUME cached' = cached \/ cached' = NoRelease PROVE CachedOK'
    BY <2>3 DEF RecordsOK
  <2>4. ASSUME NEW o \in Operators, Invalidate(o) \/ InvalidateDeleted(o) \/ CleanupDone(o)
        PROVE  cached' = cached \/ cached' = NoRelease
    BY <2>4 DEF Invalidate, InvalidateDeleted, CleanupDone, Invalidated
  <2>5. ASSUME NEW o \in Operators, CreateUploaded(o) \/ CountUsers(o) \/ DeleteApk(o) \/ DeleteOldRow(o)
        PROVE  cached' = cached
    BY <2>5 DEF CreateUploaded, CountUsers, DeleteApk, DeleteOldRow
  <2>6. ASSUME NEW o \in Operators, NEW r \in Releases, NEW row \in ReleaseBodies,
               CreateRelease(o, r, row) \/ EditRelease(o, r, row) \/ UploadApk(o, r, row)
        PROVE  cached' = cached
    BY <2>6 DEF CreateRelease, EditRelease, UploadApk
  <2>7. ASSUME NEW o \in Operators, (\E r \in Releases : DeleteRelease(o, r)) \/ \E keep \in 1..2 : ReadOldRows(o, keep)
        PROVE  cached' = cached
    BY <2>7 DEF DeleteRelease, ReadOldRows
  <2>8. ASSUME (\E k \in Apks : PutApk(k)) \/ UNCHANGED releases PROVE cached' = cached
    BY <2>8 DEF PutApk, releases
  <2>. HIDE DEF CachedOK
  <2>. QED  BY <2>1, <2>2, <2>3, <2>4, <2>5, <2>6, <2>7, <2>8 DEF ReleasesNext
<1>1. ASSUME NEW l \in Loads, StartLoad(l) \/ QueryLatest(l) \/ FinishLoad(l) \/ FailLoad(l)
      PROVE  RecordsOK'
  <2>1. release' = release /\ operator' = operator
    BY <1>1 DEF StartLoad, QueryLatest, FinishLoad, FailLoad
  <2>2. DOMAIN load' = Loads /\ \A m \in Loads : DOMAIN load'[m] = {"pc", "value", "overtaken"}
    BY <1>1 DEF StartLoad, QueryLatest, FinishLoad, FailLoad, RecordsOK, Resting
  <2>. QED  BY <1>0, <2>1, <2>2, OperatorsKept DEF RecordsOK
<1>2. ASSUME UNCHANGED <<release, operator, load>> PROVE RecordsOK'
  BY <1>0, <1>2, OperatorsKept DEF RecordsOK
<1>3. ASSUME NEW o \in Operators, NEW x, RecordOK(x), operator' = [operator EXCEPT ![o] = x],
             DOMAIN release' = Releases,
             \/ load' = load
             \/ Invalidated
      PROVE  RecordsOK'
  <2>1. DOMAIN load' = Loads /\ \A m \in Loads : DOMAIN load'[m] = {"pc", "value", "overtaken"}
    BY <1>3 DEF Invalidated, RecordsOK
  <2>. QED  BY <1>0, <1>3, <2>1, RecordKept DEF RecordsOK
<1>4. RecordOK(AtRest) /\ RecordOK([pc |-> "invalidate"])
  BY DEF RecordOK, AtRest, Deleting
<1>5. ASSUME NEW o \in Operators, NEW r \in Releases, NEW row \in ReleaseBodies,
             CreateRelease(o, r, row) \/ EditRelease(o, r, row)
      PROVE  RecordsOK'
  BY <1>3, <1>4, <1>5 DEF CreateRelease, EditRelease, Order, RecordsOK
<1>6. ASSUME NEW o \in Operators, NEW r \in Releases, NEW row \in ReleaseBodies, UploadApk(o, r, row)
      PROVE  RecordsOK'
  <2>1. RecordOK([pc |-> "uploaded", id |-> r, row |-> row])
    BY DEF RecordOK, Deleting
  <2>. QED  BY <1>3, <1>6, <2>1 DEF UploadApk, Order, RecordsOK
<1>7. ASSUME NEW o \in Operators, CreateUploaded(o) PROVE RecordsOK'
  BY <1>3, <1>4, <1>7 DEF CreateUploaded, OrderDone, ThenInvalidate, RecordsOK
<1>8. ASSUME NEW o \in Operators, Invalidate(o) \/ CleanupDone(o) PROVE RecordsOK'
  BY <1>3, <1>4, <1>8 DEF Invalidate, CleanupDone, OrderDone, ThenInvalidate, RecordsOK
<1>9. ASSUME NEW o \in Operators, InvalidateDeleted(o) PROVE RecordsOK'
  <2>. DEFINE x == [operator[o] EXCEPT !.pc = "count"]
  <2>1. RecordOK(x)
    BY <1>9 DEF InvalidateDeleted, RecordsOK, OperatorOK, RecordOK, Deleting
  <2>. QED  BY <1>3, <1>9, <2>1 DEF InvalidateDeleted, RecordsOK
<1>10. ASSUME NEW o \in Operators, CountUsers(o) PROVE RecordsOK'
  <2>. DEFINE x == operator[o]
  <2>1. x.pc = "count" /\ x.all \in BOOLEAN /\ DOMAIN x = {"pc", "apk", "list", "all"}
    BY <1>10 DEF CountUsers, RecordsOK, OperatorOK, Deleting
  <2>2. RecordOK([x EXCEPT !.pc = "unused"]) /\ (x.all => RecordOK([x EXCEPT !.pc = "next"]))
    BY <2>1 DEF RecordOK, Deleting
  <2>3. PICK y : RecordOK(y) /\ operator' = [operator EXCEPT ![o] = y]
    BY <1>4, <1>10, <2>2 DEF CountUsers
  <2>. QED  BY <1>3, <1>10, <2>3 DEF CountUsers, RecordsOK
<1>11. ASSUME NEW o \in Operators, DeleteApk(o) PROVE RecordsOK'
  <2>. DEFINE x == operator[o]
  <2>1. x.pc = "unused" /\ x.all \in BOOLEAN /\ DOMAIN x = {"pc", "apk", "list", "all"}
    BY <1>11 DEF DeleteApk, RecordsOK, OperatorOK, Deleting
  <2>2. x.all => RecordOK([x EXCEPT !.pc = "next"])
    BY <2>1 DEF RecordOK, Deleting
  <2>3. PICK y : RecordOK(y) /\ operator' = [operator EXCEPT ![o] = y]
    BY <1>4, <1>11, <2>2 DEF DeleteApk
  <2>. QED  BY <1>3, <1>11, <2>3 DEF DeleteApk, RecordsOK
<1>12. ASSUME NEW o \in Operators, NEW r \in Releases, DeleteRelease(o, r) PROVE RecordsOK'
  <2>1. RecordOK([pc |-> "deleted", apk |-> release[r].apk, list |-> {}, all |-> FALSE])
    BY DEF RecordOK, Deleting
  <2>. QED  BY <1>3, <1>12, <2>1 DEF DeleteRelease, Order, RecordsOK
<1>13. ASSUME NEW o \in Operators, NEW keep \in 1..2, ReadOldRows(o, keep) PROVE RecordsOK'
  <2>1. ASSUME NEW S PROVE RecordOK([pc |-> "next", apk |-> NoRelease, all |-> TRUE, list |-> S])
    BY DEF RecordOK, Deleting
  <2>. QED  BY <1>3, <1>13, <2>1 DEF ReadOldRows, Order, RecordsOK
<1>14. ASSUME NEW o \in Operators, DeleteOldRow(o) PROVE RecordsOK'
  <2>. DEFINE x == operator[o]
  <2>1. x.pc = "next" /\ x.all = TRUE /\ DOMAIN x = {"pc", "apk", "list", "all"}
    BY <1>14 DEF DeleteOldRow, RecordsOK, OperatorOK, Deleting
  <2>2. ASSUME NEW e PROVE RecordOK([x EXCEPT !.pc = "count", !.apk = e[2], !.list = @ \ {e}])
    BY <2>1 DEF RecordOK, Deleting
  <2>3. PICK y : RecordOK(y) /\ operator' = [operator EXCEPT ![o] = y]
    BY <1>4, <1>14, <2>2 DEF DeleteOldRow, OrderDone
  <2>4. DOMAIN release' = Releases /\ load' = load
    BY <1>14 DEF DeleteOldRow, RecordsOK
  <2>. QED  BY <1>3, <2>3, <2>4
<1>15. ASSUME ExpireCache \/ (\E k \in Apks : PutApk(k)) \/ UNCHANGED releases
       PROVE  UNCHANGED <<release, operator, load>>
  BY <1>15 DEF ExpireCache, PutApk, releases
<1>. QED
  BY <1>1, <1>2, <1>5, <1>6, <1>7, <1>8, <1>9, <1>10, <1>11, <1>12, <1>13, <1>14, <1>15
     DEF ReleasesNext

-----------------------------------------------------------------------------
(* The cache.                                                                *)

\* Somebody will still empty the cache, or has failed to.
Outdated == unnoticed \/ \E o \in Operators : Unfinished(o)

\* What the cache holds, and what it is about to hold, is the latest release.
CacheHolds == cached = NoRelease \/ cached.expired \/ cached.overtaken \/ cached.value = Latest
LoadHolds(l) == load[l].pc = "read" /\ ~load[l].overtaken => load[l].value = Latest

CacheInv == Outdated \/ (CacheHolds /\ \A l \in Loads : LoadHolds(l))

\* A request keeps the cache outdated until it empties it.
LEMMA OutdatedKept ==
  ASSUME RecordsOK, Outdated, NEW o \in Operators, NEW x, operator' = [operator EXCEPT ![o] = x],
         unnoticed => unnoticed',
         Unfinished(o) => \/ unnoticed'
                          \/ x.pc \in {"invalidate", "deleted"}
                          \/ x.pc \in {"next", "count", "unused"} /\ x.all
  PROVE  Outdated'
BY OthersKept DEF Outdated, Unfinished

\* The rows decide what the latest release is.
LEMMA CacheInvKept ==
  ASSUME CacheInv, Outdated => Outdated', UNCHANGED <<release, cached, load>>
  PROVE  CacheInv'
<1>1. Latest' = Latest
  BY DEF Latest, LiveRows
<1>. QED  BY <1>1 DEF CacheInv, CacheHolds, LoadHolds

LEMMA CacheStep == RecordsOK /\ CacheInv /\ [ReleasesNext]_releases => CacheInv'
<1>. SUFFICES ASSUME RecordsOK, CacheInv, [ReleasesNext]_releases PROVE CacheInv'
  OBVIOUS
<1>1. ASSUME release' = release PROVE Latest' = Latest
  BY <1>1 DEF Latest, LiveRows
<1>2. ASSUME UNCHANGED <<operator, unnoticed>> PROVE Outdated' <=> Outdated
  BY <1>2 DEF Outdated, Unfinished
\* The queries.
<1>3. ASSUME NEW l \in Loads, StartLoad(l) \/ QueryLatest(l) \/ FinishLoad(l) \/ FailLoad(l)
      PROVE  CacheInv'
  <2>1. Latest' = Latest /\ (Outdated' <=> Outdated)
    BY <1>1, <1>2, <1>3 DEF StartLoad, QueryLatest, FinishLoad, FailLoad
  <2>2. ASSUME CacheHolds, \A m \in Loads : LoadHolds(m)
        PROVE  CacheHolds' /\ \A m \in Loads : LoadHolds(m)'
    <3>1. \A m \in Loads : LoadHolds(m)'
      <4>1. CASE StartLoad(l)
        BY <2>1, <2>2, <4>1 DEF StartLoad, LoadHolds, RecordsOK
      <4>2. CASE QueryLatest(l)
        BY <2>1, <2>2, <4>2 DEF QueryLatest, LoadHolds, RecordsOK
      <4>3. CASE FinishLoad(l)
        BY <2>1, <2>2, <4>3 DEF FinishLoad, LoadHolds, RecordsOK, Resting
      <4>4. CASE FailLoad(l)
        BY <2>1, <2>2, <4>4 DEF FailLoad, LoadHolds, RecordsOK, Resting
      <4>. QED  BY <1>3, <4>1, <4>2, <4>3, <4>4
    <3>2. CacheHolds'
      <4>1. CASE FinishLoad(l)
        <5>1. load[l].overtaken \/ load[l].value = Latest
          BY <2>2, <4>1 DEF FinishLoad, LoadHolds
        <5>. QED  BY <2>1, <4>1, <5>1 DEF FinishLoad, CacheHolds
      <4>2. CASE cached' = cached
        BY <2>1, <2>2, <4>2 DEF CacheHolds
      <4>. QED  BY <1>3, <4>1, <4>2 DEF StartLoad, QueryLatest, FailLoad
    <3>. QED  BY <3>1, <3>2
  <2>. QED  BY <2>1, <2>2 DEF CacheInv
<1>4. CASE ExpireCache
  <2>1. Latest' = Latest /\ (Outdated' <=> Outdated) /\ load' = load
    BY <1>1, <1>2, <1>4 DEF ExpireCache
  <2>2. CacheHolds => CacheHolds'
    BY <1>4, <2>1 DEF RecordsOK, ExpireCache, CacheHolds
  <2>. QED  BY <2>1, <2>2 DEF CacheInv, LoadHolds
\* Requests that change rows announce it.
<1>5. ASSUME NEW o \in Operators, NEW x, operator' = [operator EXCEPT ![o] = x],
             x.pc \in {"invalidate", "deleted"}
      PROVE  CacheInv'
  <2>1. Unfinished(o)'
    BY <1>5, OthersKept DEF Unfinished
  <2>. QED  BY <2>1 DEF CacheInv, Outdated
<1>6. ASSUME NEW o \in Operators, NEW r \in Releases, NEW row \in ReleaseBodies,
             CreateRelease(o, r, row) \/ EditRelease(o, r, row)
      PROVE  CacheInv'
  BY <1>5, <1>6 DEF CreateRelease, EditRelease, Order
<1>7. ASSUME NEW o \in Operators, NEW r \in Releases, DeleteRelease(o, r) PROVE CacheInv'
  BY <1>5, <1>7 DEF DeleteRelease, Order
<1>8. ASSUME NEW o \in Operators, CleanupDone(o) PROVE CacheInv'
  BY <1>5, <1>8 DEF CleanupDone, ThenInvalidate
<1>9. ASSUME NEW o \in Operators, CreateUploaded(o) PROVE CacheInv'
  <2>1. CASE ThenInvalidate(o)
    BY <1>5, <2>1 DEF ThenInvalidate
  <2>2. CASE OrderDone(o) /\ release' = release
    <3>1. ~Unfinished(o) /\ UNCHANGED <<release, cached, load, unnoticed>>
      BY <1>9, <2>2 DEF CreateUploaded, Unfinished
    <3>2. Outdated => Outdated'
      BY <2>2, <3>1, OutdatedKept DEF OrderDone
    <3>. QED  BY <3>1, <3>2, CacheInvKept
  <2>. QED  BY <1>9, <2>1, <2>2 DEF CreateUploaded
\* Emptying the cache.
<1>10. ASSUME Invalidated PROVE CacheInv'
  BY <1>10 DEF Invalidated, CacheInv, CacheHolds, LoadHolds, RecordsOK
<1>11. ASSUME NEW o \in Operators, Invalidate(o) \/ InvalidateDeleted(o) PROVE CacheInv'
  BY <1>10, <1>11 DEF Invalidate, InvalidateDeleted
\* Requests that leave the rows alone.
<1>12. ASSUME NEW o \in Operators, NEW r \in Releases, NEW row \in ReleaseBodies, UploadApk(o, r, row)
       PROVE  CacheInv'
  <2>1. ~Unfinished(o) /\ UNCHANGED <<release, cached, load, unnoticed>>
    BY <1>12 DEF UploadApk, Order, AtRest, Unfinished
  <2>2. PICK x : operator' = [operator EXCEPT ![o] = x]
    BY <1>12 DEF UploadApk, Order
  <2>3. Outdated => Outdated'
    BY <2>1, <2>2, OutdatedKept
  <2>. QED  BY <2>1, <2>3, CacheInvKept
<1>13. ASSUME NEW o \in Operators, NEW keep \in 1..2, ReadOldRows(o, keep) PROVE CacheInv'
  <2>1. ~Unfinished(o) /\ UNCHANGED <<release, cached, load, unnoticed>>
    BY <1>13 DEF ReadOldRows, Order, AtRest, Unfinished
  <2>2. PICK x : operator' = [operator EXCEPT ![o] = x]
    BY <1>13 DEF ReadOldRows, Order
  <2>3. Outdated => Outdated'
    BY <2>1, <2>2, OutdatedKept
  <2>. QED  BY <2>1, <2>3, CacheInvKept
<1>14. ASSUME NEW o \in Operators, DeleteOldRow(o) PROVE CacheInv'
  <2>1. CASE unnoticed'
    BY <2>1 DEF CacheInv, Outdated
  <2>2. CASE \E e : operator' = [operator EXCEPT ![o] =
                      [operator[o] EXCEPT !.pc = "count", !.apk = e[2], !.list = @ \ {e}]]
    <3>. DEFINE x(e) == [operator[o] EXCEPT !.pc = "count", !.apk = e[2], !.list = @ \ {e}]
    <3>1. operator[o].all /\ DOMAIN operator[o] = {"pc", "apk", "list", "all"}
      BY <1>14 DEF DeleteOldRow, RecordsOK, OperatorOK, Deleting
    <3>2. PICK e : operator' = [operator EXCEPT ![o] = x(e)]
      BY <2>2
    <3>3. x(e).pc = "count" /\ x(e).all
      BY <3>1
    <3>. HIDE DEF x
    <3>4. Unfinished(o)'
      BY <3>2, <3>3, OthersKept DEF Unfinished
    <3>. QED  BY <3>4 DEF CacheInv, Outdated
  <2>. QED  BY <1>14, <2>1, <2>2 DEF DeleteOldRow
<1>15. ASSUME NEW o \in Operators, CountUsers(o) \/ DeleteApk(o) PROVE CacheInv'
  <2>. DEFINE x == operator[o]
  <2>1. /\ UNCHANGED <<release, cached, load, unnoticed>>
        /\ x.pc \in {"count", "unused"} /\ DOMAIN x = {"pc", "apk", "list", "all"}
    BY <1>15 DEF CountUsers, DeleteApk, RecordsOK, OperatorOK, Deleting
  <2>2. PICK y : /\ operator' = [operator EXCEPT ![o] = y]
                 /\ \/ y = AtRest /\ ~x.all
                    \/ \E pc \in {"unused", "next"} : y = [x EXCEPT !.pc = pc]
    BY <1>15 DEF CountUsers, DeleteApk
  <2>3. x.all => y.pc \in {"unused", "next"} /\ y.all
    BY <2>1, <2>2
  <2>4. Unfinished(o) => x.all
    BY <2>1 DEF Unfinished
  <2>5. Outdated => Outdated'
    BY <2>1, <2>2, <2>3, <2>4, OutdatedKept
  <2>. QED  BY <2>1, <2>5, CacheInvKept
<1>16. ASSUME (\E k \in Apks : PutApk(k)) \/ UNCHANGED releases PROVE CacheInv'
  <2>1. UNCHANGED <<release, cached, load, operator, unnoticed>>
    BY <1>16 DEF PutApk, releases
  <2>. QED  BY <1>2, <2>1, CacheInvKept
<1>. QED
  BY <1>3, <1>4, <1>6, <1>7, <1>8, <1>9, <1>11, <1>12, <1>13, <1>14, <1>15, <1>16
     DEF ReleasesNext

-----------------------------------------------------------------------------
(* The files.                                                                *)

\* A request that deletes rows may still delete the file of key k.
Mentions(x, k) ==
  \/ x.pc \in {"deleted", "count", "unused"} /\ x.apk = k
  \/ x.pc \in Deleting /\ \E e \in x.list : e[2] = k

\* Only keys that were made, or that a row named for no reason, are in use.
KeysGiven ==
  /\ apks \subseteq given
  /\ \A r \in LiveRows : release[r].apk \in given \cup borrowed
  /\ \A o \in Operators : \A k : Mentions(operator[o], k) => k \in given \cup borrowed

\* Nobody else knows the file of an upload before its row is made.
UploadIsPrivate(o) ==
  operator[o].pc = "uploaded" =>
    /\ operator[o].row.apk \in apks
    /\ \A r \in LiveRows : release[r].apk # operator[o].row.apk
    /\ \A p \in Operators :
         /\ ~Mentions(operator[p], operator[o].row.apk)
         /\ p # o /\ operator[p].pc = "uploaded" => operator[p].row.apk # operator[o].row.apk

\* A file found unused is used by no row but those that borrowed it since.
UnusedIsFree(o) ==
  operator[o].pc = "unused" =>
    \A r \in LiveRows : release[r].apk = operator[o].apk => operator[o].apk \in borrowed

FilesInv ==
  /\ KeysGiven
  /\ \A o \in Operators : UploadIsPrivate(o) /\ UnusedIsFree(o)
  /\ ReleaseHasFile

\* A request goes on and makes no row: rows may go, and the file it found unused.
LEMMA FilesMove ==
  ASSUME RecordsOK, FilesInv, NEW o \in Operators, NEW x,
         operator' = [operator EXCEPT ![o] = x], UNCHANGED <<given, borrowed>>,
         \A r \in LiveRows' : r \in LiveRows /\ release'[r] = release[r],
         \/ apks' = apks
         \/ operator[o].pc = "unused" /\ apks' = apks \ {operator[o].apk},
         x.pc # "uploaded",
         \A k : Mentions(x, k) => \/ Mentions(operator[o], k)
                                  \/ \E r \in LiveRows : release[r].apk = k,
         x.pc = "unused" => \A r \in LiveRows' : release'[r].apk # x.apk
  PROVE  FilesInv'
<1>1. operator'[o] = x /\ \A p \in Operators : p # o => operator'[p] = operator[p]
  BY OthersKept
<1>2. KeysGiven'
  BY <1>1 DEF FilesInv, KeysGiven
<1>3. ASSUME NEW p \in Operators, operator[p].pc = "uploaded"
      PROVE  operator[p].row.apk \in apks'
  <2>1. operator[o].pc = "unused" => Mentions(operator[o], operator[o].apk)
    BY DEF Mentions
  <2>. QED  BY <1>3, <2>1 DEF FilesInv, UploadIsPrivate
<1>4. ASSUME NEW p \in Operators, operator'[p].pc = "uploaded" PROVE UploadIsPrivate(p)'
  <2>1. p # o /\ operator'[p] = operator[p] /\ UploadIsPrivate(p)
    BY <1>1, <1>4 DEF FilesInv
  <2>. DEFINE k == operator[p].row.apk
  <2>2. /\ \A r \in LiveRows : release[r].apk # k
        /\ \A q \in Operators : ~Mentions(operator[q], k)
        /\ \A q \in Operators : q # p /\ operator[q].pc = "uploaded" => operator[q].row.apk # k
    BY <1>4, <2>1 DEF UploadIsPrivate
  <2>3. \A q \in Operators : ~Mentions(operator'[q], k)
    BY <1>1, <2>2
  <2>. QED  BY <1>1, <1>3, <1>4, <2>1, <2>2, <2>3 DEF UploadIsPrivate
<1>5. ASSUME NEW p \in Operators PROVE UnusedIsFree(p)'
  BY <1>1 DEF FilesInv, UnusedIsFree
<1>6. ReleaseHasFile'
  <2>1. ASSUME NEW r \in LiveRows' PROVE release'[r].apk \in apks' \cup borrowed'
    BY <1>1 DEF FilesInv, ReleaseHasFile, UnusedIsFree
  <2>. QED  BY <2>1 DEF ReleaseHasFile
<1>7. ASSUME NEW p \in Operators PROVE UploadIsPrivate(p)'
  BY <1>4 DEF UploadIsPrivate
<1>. QED  BY <1>2, <1>5, <1>6, <1>7 DEF FilesInv

\* A row names a key that no other request is uploading.
LEMMA FilesRow ==
  ASSUME RecordsOK, FilesInv, NEW o \in Operators, NEW r \in Releases, NEW row,
         operator' = [operator EXCEPT ![o] = [pc |-> "invalidate"]],
         release' = [release EXCEPT ![r] = row], UNCHANGED <<apks, given>>, Borrows(row.apk),
         \A p \in Operators : p # o /\ operator[p].pc = "uploaded" => operator[p].row.apk # row.apk
  PROVE  FilesInv'
<1>. DEFINE x == [pc |-> "invalidate"]
<1>1. operator'[o] = x /\ \A p \in Operators : p # o => operator'[p] = operator[p]
  BY OthersKept
<1>2. x.pc = "invalidate" /\ \A k : ~Mentions(x, k)
  BY DEF Mentions, Deleting
<1>3. release'[r] = row /\ \A s \in LiveRows' : s # r => s \in LiveRows /\ release'[s] = release[s]
  BY DEF RecordsOK, LiveRows
<1>. HIDE DEF x
<1>4. borrowed \subseteq borrowed' /\ row.apk \in apks \cup borrowed'
  BY DEF Borrows
<1>5. KeysGiven'
  BY <1>1, <1>2, <1>3, <1>4 DEF FilesInv, KeysGiven
<1>6. ASSUME NEW p \in Operators PROVE UploadIsPrivate(p)'
  BY <1>1, <1>2, <1>3 DEF FilesInv, UploadIsPrivate
<1>7. ASSUME NEW p \in Operators PROVE UnusedIsFree(p)'
  <2>1. p # o /\ operator[p].pc = "unused" /\ operator[p].apk = row.apk => row.apk \in borrowed'
    BY DEF Borrows
  <2>. QED  BY <1>1, <1>2, <1>3, <1>4, <2>1 DEF FilesInv, UnusedIsFree
<1>8. ReleaseHasFile'
  BY <1>3, <1>4 DEF FilesInv, ReleaseHasFile
<1>. QED  BY <1>5, <1>6, <1>7, <1>8 DEF FilesInv

LEMMA FilesStep == RecordsOK /\ FilesInv /\ [ReleasesNext]_releases => FilesInv'
<1>. SUFFICES ASSUME RecordsOK, FilesInv, [ReleasesNext]_releases PROVE FilesInv'
  OBVIOUS
<1>1. ASSUME UNCHANGED <<release, apks, given, operator, borrowed>> PROVE FilesInv'
  BY <1>1 DEF FilesInv, KeysGiven, UploadIsPrivate, UnusedIsFree, ReleaseHasFile, LiveRows
<1>2. ASSUME release' = release PROVE \A r \in LiveRows' : r \in LiveRows /\ release'[r] = release[r]
  BY <1>2 DEF LiveRows
<1>3. ASSUME NEW r, release' = [release EXCEPT ![r] = NoRelease]
      PROVE  \A s \in LiveRows' : s \in LiveRows /\ release'[s] = release[s]
  BY <1>3 DEF LiveRows, RecordsOK
\* Requests that are done, or about to empty the cache, delete nothing more.
<1>4. ASSUME NEW k PROVE ~Mentions(AtRest, k) /\ ~Mentions([pc |-> "invalidate"], k)
  BY DEF Mentions, AtRest, Deleting
<1>17. ASSUME NEW o \in Operators, operator' = [operator EXCEPT ![o] = AtRest],
              UNCHANGED <<release, given, borrowed>>,
              \/ apks' = apks
              \/ operator[o].pc = "unused" /\ apks' = apks \ {operator[o].apk}
       PROVE  FilesInv'
  <2>1. AtRest.pc = "rest"
    BY DEF AtRest
  <2>. QED  BY <1>2, <1>4, <1>17, <2>1, FilesMove
<1>5. ASSUME NEW o \in Operators, Invalidate(o) \/ CleanupDone(o) PROVE FilesInv'
  BY <1>2, <1>4, <1>5, FilesMove
     DEF Invalidate, CleanupDone, OrderDone, ThenInvalidate, AtRest
<1>6. ASSUME NEW k \in Apks, PutApk(k) PROVE FilesInv'
  <2>1. /\ k \notin given \cup borrowed /\ given' = given \cup {k} /\ apks' = apks \cup {k}
        /\ UNCHANGED <<release, operator, borrowed>>
    BY <1>6 DEF PutApk, NewApk
  <2>. QED  BY <2>1 DEF FilesInv, KeysGiven, UploadIsPrivate, UnusedIsFree, ReleaseHasFile, LiveRows
<1>7. ASSUME NEW o \in Operators, NEW r \in Releases, NEW row \in ReleaseBodies,
             CreateRelease(o, r, row) \/ EditRelease(o, r, row)
      PROVE  FilesInv'
  BY <1>7, FilesRow DEF CreateRelease, EditRelease, Order, KnownApk
<1>8. ASSUME NEW o \in Operators, NEW r \in Releases, NEW row \in ReleaseBodies, UploadApk(o, r, row)
      PROVE  FilesInv'
  <2>. DEFINE x == [pc |-> "uploaded", id |-> r, row |-> row]
              k == row.apk
  <2>1. /\ k \notin given \cup borrowed /\ given' = given \cup {k} /\ apks' = apks \cup {k}
        /\ UNCHANGED <<release, borrowed>> /\ operator' = [operator EXCEPT ![o] = x]
    BY <1>8 DEF UploadApk, NewApk, Order
  <2>2. operator'[o] = x /\ \A p \in Operators : p # o => operator'[p] = operator[p]
    BY <2>1, OthersKept
  <2>3. x.pc = "uploaded" /\ x.row.apk = k /\ \A key : ~Mentions(x, key)
    BY DEF Mentions, Deleting
  <2>4. LiveRows' = LiveRows
    BY <2>1 DEF LiveRows
  <2>. HIDE DEF x, k
  <2>5. KeysGiven'
    BY <2>1, <2>2, <2>3, <2>4 DEF FilesInv, KeysGiven
  <2>6. ASSUME NEW p \in Operators PROVE UploadIsPrivate(p)'
    <3>1. CASE p = o
      BY <2>1, <2>2, <2>3, <2>4, <3>1 DEF FilesInv, KeysGiven, UploadIsPrivate
    <3>2. CASE p # o
      BY <2>1, <2>2, <2>3, <2>4, <3>2 DEF FilesInv, KeysGiven, UploadIsPrivate
    <3>. QED  BY <3>1, <3>2
  <2>7. ASSUME NEW p \in Operators PROVE UnusedIsFree(p)'
    BY <2>1, <2>2, <2>3, <2>4 DEF FilesInv, UnusedIsFree
  <2>8. ReleaseHasFile'
    BY <2>1, <2>4 DEF FilesInv, ReleaseHasFile
  <2>. QED  BY <2>5, <2>6, <2>7, <2>8 DEF FilesInv
<1>9. ASSUME NEW o \in Operators, CreateUploaded(o) PROVE FilesInv'
  <2>. DEFINE x == operator[o]
  <2>1. x.pc = "uploaded" /\ x.id \in Releases /\ UNCHANGED <<apks, given>> /\ UploadIsPrivate(o)
    BY <1>9 DEF CreateUploaded, RecordsOK, OperatorOK, FilesInv
  <2>2. CASE OrderDone(o) /\ UNCHANGED <<release, borrowed>>
    BY <1>17, <2>1, <2>2 DEF OrderDone
  <2>3. CASE ThenInvalidate(o) /\ release' = [release EXCEPT ![x.id] = x.row] /\ Borrows(x.row.apk)
    <3>1. \A p \in Operators : p # o /\ operator[p].pc = "uploaded" => operator[p].row.apk # x.row.apk
      BY <2>1 DEF UploadIsPrivate
    <3>2. operator' = [operator EXCEPT ![o] = [pc |-> "invalidate"]]
      BY <2>3 DEF ThenInvalidate
    <3>. DEFINE row == x.row
    <3>. HIDE DEF row
    <3>3. row = x.row
      BY DEF row
    <3>. QED  BY ZenonT(30), <2>1, <2>3, <3>1, <3>2, <3>3, FilesRow
  <2>. QED  BY <1>9, <2>2, <2>3 DEF CreateUploaded
<1>10. ASSUME NEW o \in Operators, InvalidateDeleted(o) PROVE FilesInv'
  <2>. DEFINE x == operator[o]
              y == [x EXCEPT !.pc = "count"]
  <2>1. /\ x.pc = "deleted" /\ DOMAIN x = {"pc", "apk", "list", "all"}
        /\ UNCHANGED <<release, apks, given, borrowed>> /\ operator' = [operator EXCEPT ![o] = y]
    BY <1>10 DEF InvalidateDeleted, RecordsOK, OperatorOK, Deleting
  <2>2. y.pc = "count" /\ y.apk = x.apk /\ y.list = x.list
    BY <2>1
  <2>. HIDE DEF y
  <2>3. \A k : Mentions(y, k) => Mentions(x, k)
    BY <2>1, <2>2 DEF Mentions, Deleting
  <2>. QED  BY <1>2, <2>1, <2>2, <2>3, FilesMove
<1>11. ASSUME NEW o \in Operators, CountUsers(o) PROVE FilesInv'
  <2>. DEFINE x == operator[o]
              y == [x EXCEPT !.pc = "unused"]
              z == [x EXCEPT !.pc = "next"]
  <2>1. /\ x.pc = "count" /\ DOMAIN x = {"pc", "apk", "list", "all"}
        /\ UNCHANGED <<release, apks, given, borrowed>>
    BY <1>11 DEF CountUsers, RecordsOK, OperatorOK, Deleting
  <2>2. /\ y.pc = "unused" /\ y.apk = x.apk /\ y.list = x.list
        /\ z.pc = "next" /\ z.list = x.list
    BY <2>1
  <2>3. \/ operator' = [operator EXCEPT ![o] = y] /\ \A r \in LiveRows : release[r].apk # x.apk
        \/ operator' = [operator EXCEPT ![o] = z]
        \/ operator' = [operator EXCEPT ![o] = AtRest]
    BY <1>11 DEF CountUsers
  <2>. HIDE DEF y, z
  <2>4. \A k : (Mentions(y, k) => Mentions(x, k)) /\ (Mentions(z, k) => Mentions(x, k))
    BY <2>1, <2>2 DEF Mentions, Deleting
  <2>5. LiveRows' = LiveRows
    BY <2>1 DEF LiveRows
  <2>6. CASE operator' = [operator EXCEPT ![o] = y] /\ \A r \in LiveRows : release[r].apk # x.apk
    BY <1>2, <2>1, <2>2, <2>4, <2>5, <2>6, FilesMove
  <2>7. CASE operator' = [operator EXCEPT ![o] = z]
    BY <1>2, <2>1, <2>2, <2>4, <2>7, FilesMove
  <2>8. CASE operator' = [operator EXCEPT ![o] = AtRest]
    BY <1>17, <2>1, <2>8
  <2>. QED  BY <2>3, <2>6, <2>7, <2>8
<1>12. ASSUME NEW o \in Operators, DeleteApk(o) PROVE FilesInv'
  <2>. DEFINE x == operator[o]
              z == [x EXCEPT !.pc = "next"]
  <2>1. /\ x.pc = "unused" /\ DOMAIN x = {"pc", "apk", "list", "all"}
        /\ UNCHANGED <<release, given, borrowed>> /\ apks' \in {apks, apks \ {x.apk}}
    BY <1>12 DEF DeleteApk, RecordsOK, OperatorOK, Deleting
  <2>2. z.pc = "next" /\ z.list = x.list
    BY <2>1
  <2>3. \/ operator' = [operator EXCEPT ![o] = z]
        \/ operator' = [operator EXCEPT ![o] = AtRest]
    BY <1>12 DEF DeleteApk
  <2>. HIDE DEF z
  <2>4. \A k : Mentions(z, k) => Mentions(x, k)
    BY <2>1, <2>2 DEF Mentions, Deleting
  <2>5. CASE operator' = [operator EXCEPT ![o] = z]
    BY <1>2, <2>1, <2>2, <2>4, <2>5, FilesMove
  <2>6. CASE operator' = [operator EXCEPT ![o] = AtRest]
    BY <1>17, <2>1, <2>6
  <2>. QED  BY <2>3, <2>5, <2>6
<1>13. ASSUME NEW o \in Operators, NEW r \in Releases, DeleteRelease(o, r) PROVE FilesInv'
  <2>. DEFINE x == [pc |-> "deleted", apk |-> release[r].apk, list |-> {}, all |-> FALSE]
  <2>1. /\ r \in LiveRows /\ operator' = [operator EXCEPT ![o] = x]
        /\ release' = [release EXCEPT ![r] = NoRelease] /\ UNCHANGED <<apks, given, borrowed>>
    BY <1>13 DEF DeleteRelease, Order
  <2>2. x.pc = "deleted" /\ \A k : Mentions(x, k) => k = release[r].apk
    BY DEF Mentions
  <2>. HIDE DEF x
  <2>. QED  BY <1>3, <2>1, <2>2, FilesMove
<1>14. ASSUME NEW o \in Operators, NEW keep \in 1..2, ReadOldRows(o, keep) PROVE FilesInv'
  <2>. DEFINE old == {y \in LiveRows : Cardinality(Newer(y)) >= keep}
              S == {<<r, release[r].apk>> : r \in old}
              x == [pc |-> "next", apk |-> NoRelease, all |-> TRUE, list |-> S]
  <2>1. operator' = [operator EXCEPT ![o] = x] /\ UNCHANGED <<release, apks, given, borrowed>>
    BY <1>14 DEF ReadOldRows, Order
  <2>2. \A e \in S : \E r \in LiveRows : release[r].apk = e[2]
    OBVIOUS
  <2>. HIDE DEF S
  <2>3. x.pc = "next" /\ \A k : Mentions(x, k) => \E e \in S : e[2] = k
    BY DEF Mentions
  <2>. HIDE DEF x
  <2>4. \A k : Mentions(x, k) => \E r \in LiveRows : release[r].apk = k
    BY <2>2, <2>3
  <2>. QED  BY <1>2, <2>1, <2>3, <2>4, FilesMove
<1>15. ASSUME NEW o \in Operators, DeleteOldRow(o) PROVE FilesInv'
  <2>. DEFINE x == operator[o]
              y(e) == [x EXCEPT !.pc = "count", !.apk = e[2], !.list = @ \ {e}]
  <2>1. /\ x.pc = "next" /\ DOMAIN x = {"pc", "apk", "list", "all"}
        /\ UNCHANGED <<apks, given, borrowed>>
    BY <1>15 DEF DeleteOldRow, RecordsOK, OperatorOK, Deleting
  <2>2. PICK e \in x.list :
          \/ operator' = [operator EXCEPT ![o] = y(e)] /\ release' = [release EXCEPT ![e[1]] = NoRelease]
          \/ operator' = [operator EXCEPT ![o] = AtRest] /\ release' = release
    BY <1>15 DEF DeleteOldRow, OrderDone
  <2>3. y(e).pc = "count" /\ y(e).apk = e[2] /\ y(e).list \subseteq x.list
    BY <2>1
  <2>. HIDE DEF y
  <2>4. \A k : Mentions(y(e), k) => Mentions(x, k)
    BY <2>1, <2>3 DEF Mentions, Deleting
  <2>5. CASE operator' = [operator EXCEPT ![o] = y(e)] /\ release' = [release EXCEPT ![e[1]] = NoRelease]
    BY <1>3, <2>1, <2>3, <2>4, <2>5, FilesMove
  <2>6. CASE operator' = [operator EXCEPT ![o] = AtRest] /\ release' = release
    BY <1>17, <2>1, <2>6
  <2>. QED  BY <2>2, <2>5, <2>6
<1>16. ASSUME \/ \E l \in Loads : StartLoad(l) \/ QueryLatest(l) \/ FinishLoad(l) \/ FailLoad(l)
              \/ ExpireCache \/ UNCHANGED releases
       PROVE  UNCHANGED <<release, apks, given, operator, borrowed>>
  BY <1>16 DEF StartLoad, QueryLatest, FinishLoad, FailLoad, ExpireCache, releases
<1>. QED
  BY <1>1, <1>5, <1>6, <1>7, <1>8, <1>9, <1>10, <1>11, <1>12, <1>13, <1>14, <1>15, <1>16
     DEF ReleasesNext

-----------------------------------------------------------------------------
\* Whatever the requests of administrators, checks and queries at once: the
\* cache holds the latest active release and every release has its file, but
\* for the races the two parts name.
THEOREM ReleasesServed == ReleasesSpec => []ReleasesAreServed
<1>. DEFINE Inv == RecordsOK /\ CacheInv /\ FilesInv
<1>1. ReleasesInit => Inv
  <2>. SUFFICES ASSUME ReleasesInit PROVE Inv
    OBVIOUS
  <2>1. RecordsOK
    BY DEF ReleasesInit, RecordsOK, OperatorOK, AtRest, Resting, Deleting
  <2>2. CacheInv
    BY DEF ReleasesInit, CacheInv, CacheHolds, LoadHolds, Resting
  <2>3. \A o \in Operators : operator[o].pc = "rest"
    BY DEF ReleasesInit, AtRest
  <2>4. FilesInv
    BY <2>3 DEF ReleasesInit, FilesInv, KeysGiven, UploadIsPrivate, UnusedIsFree, ReleaseHasFile,
                LiveRows, Mentions, Deleting
  <2>. QED  BY <2>1, <2>2, <2>4
<1>2. Inv /\ [ReleasesNext]_releases => Inv'
  BY RecordsStep, CacheStep, FilesStep
<1>3. Inv => ReleasesAreServed
  BY DEF ReleasesAreServed, CacheIsCurrent, CacheInv, CacheHolds, Outdated, FilesInv
<1>. QED  BY <1>1, <1>2, <1>3, PTL DEF ReleasesSpec

-----------------------------------------------------------------------------
(* OtaUpdates: the files and numbers of updates, and what phones run.        *)

\* Bounded numbers have a largest one.
LEMMA HighestIs ==
  ASSUME NEW N \in Nat, NEW S, S \subseteq Nat, \A n \in S : n <= N
  PROVE  /\ Highest(S) \in Nat /\ \A n \in S : n <= Highest(S)
         /\ S # {} => Highest(S) \in S
<1>1. CASE S = {}  BY <1>1 DEF Highest
<1>2. CASE S # {}
  <2>1. PICK T : T = {N - n : n \in S}  OBVIOUS
  <2>2. T \subseteq Nat /\ T # {}
    <3>1. \A n \in S : N - n \in Nat /\ N - n \in T  BY <2>1
    <3>. QED  BY <1>2, <2>1, <3>1
  <2>3. PICK m \in T : \A k \in T : ~(<<k, m>> \in OpToRel(<, Nat))
    BY <2>2, WFMin, NatLessThanWellFounded, Zenon
  <2>4. PICK top \in S : m = N - top  BY <2>1
  <2>5. ASSUME NEW n \in S PROVE n <= top
    <3>1. N - n \in T /\ N - n \in Nat /\ m \in Nat  BY <2>1, <2>2
    <3>2. ~(N - n < m)  BY <2>3, <3>1, Zenon DEF OpToRel
    <3>3. n \in Nat /\ top \in Nat  OBVIOUS
    <3>. QED  BY <2>4, <3>2, <3>3
  <2>6. PICK high \in S : high = Highest(S) /\ \A n \in S : n <= high
    <3>1. \E n \in S : \A k \in S : k <= n  BY <2>5
    <3>2. Highest(S) = CHOOSE n \in S : \A k \in S : k <= n  BY <1>2 DEF Highest
    <3>. QED  BY <3>1, <3>2
  <2>. QED  BY <2>6
<1>. QED  BY <1>1, <1>2

OtaRows == [active : BOOLEAN, rollout : Rollouts, seq : Nat, at : Nat]
Publishing == [pc : {"publish"}, id : Updates, active : BOOLEAN, rollout : Rollouts, seq : Nat]
Cleaning == [pc : {"files", "rows"}, left : SUBSET Updates, all : SUBSET Updates, rows : BOOLEAN]

RowsOK ==
  /\ RowIds \subseteq Updates /\ \A u \in RowIds : ota[u] \in OtaRows
  /\ \E n \in Nat : \A u \in RowIds : ota[u].seq <= n /\ ota[u].at <= n

PublisherOK(x) == x = Ready \/ x \in Publishing \/ x \in Cleaning

\* A cleanup that still deletes files has an active update among them only
\* when that was made active since; a number read is another update's only
\* when a caller chose it or two publications overlapped.
RequestsOK ==
  /\ DOMAIN publisher = Publishers /\ \A p \in Publishers : PublisherOK(publisher[p])
  /\ \A p \in Publishers : publisher[p].pc = "files" => publisher[p].left \cap ActiveIds \subseteq revived
  /\ ~rivalled =>
       /\ \A p, q \in Publishers : publisher[p].pc = "publish" /\ publisher[q].pc = "publish" => p = q
       /\ \A p \in Publishers : publisher[p].pc = "publish" =>
            \A u \in RowIds : ota[u].seq = publisher[p].seq => MayMeet(chosen, u, publisher[p].id)

\* A phone for which nothing changed runs what it would be sent.
SettledOn(ph) == Selected(ph) = NoUpdate \/ Selected(ph) = running[ph] \/ Selected(ph) \notin stored

OtaInv ==
  /\ RowsOK /\ RequestsOK /\ DOMAIN running = Phones
  /\ ActiveUpdateHasFiles /\ NumbersDiffer
  /\ \A ph \in Identified \ news : SettledOn(ph)

\* What is selected is an active update.
LEMMA SelectedIs ==
  ASSUME RowsOK, NEW ph
  PROVE  Selected(ph) = NoUpdate \/ Selected(ph) \in ActiveIds
<1>1. PICK S : S = {u \in ActiveIds : Includes(Asker(ph), u)}  OBVIOUS
<1>2. Selected(ph) = IF S = {} THEN NoUpdate ELSE CHOOSE u \in S : \A v \in S : ota[v].at <= ota[u].at
  BY <1>1 DEF Selected
<1>3. CASE S # {}
  <2>1. PICK N \in Nat : \A u \in RowIds : ota[u].at <= N  BY DEF RowsOK
  <2>2. PICK A : A = {ota[u].at : u \in S}  OBVIOUS
  <2>3. S \subseteq RowIds /\ S \subseteq ActiveIds  BY <1>1 DEF ActiveIds
  <2>4. A \subseteq Nat /\ A # {} /\ \A n \in A : n <= N  BY <1>3, <2>1, <2>2, <2>3 DEF RowsOK, OtaRows
  <2>5. Highest(A) \in A /\ \A n \in A : n <= Highest(A)  BY <2>4, HighestIs
  <2>6. PICK u \in S : ota[u].at = Highest(A)  BY <2>2, <2>5
  <2>7. \E w \in S : \A v \in S : ota[v].at <= ota[w].at  BY <2>2, <2>5, <2>6
  <2>. QED  BY <1>2, <1>3, <2>3, <2>7
<1>. QED  BY <1>2, <1>3

\* A phone's selection follows from the rows.
LEMMA SelectedStays ==
  ASSUME NEW ph \in Identified, UNCHANGED <<bucket, ota>>
  PROVE  Selected(ph)' = Selected(ph)
<1>1. Asker(ph) = ph /\ Asker(ph)' = ph  BY DEF Asker
<1>2. ActiveIds' = ActiveIds  BY DEF ActiveIds, RowIds
<1>3. PICK S : S = {u \in ActiveIds : Includes(Asker(ph), u)}  OBVIOUS
<1>4. S = {u \in ActiveIds : Includes(Asker(ph), u)}'
  <2>1. \A u : Includes(Asker(ph), u)' = Includes(Asker(ph), u)  BY <1>1 DEF Includes
  <2>. QED  BY <1>1, <1>2, <1>3, <2>1
<1>5. Selected(ph) = IF S = {} THEN NoUpdate ELSE CHOOSE u \in S : \A v \in S : ota[v].at <= ota[u].at
  BY <1>3 DEF Selected
<1>6. Selected(ph)' = IF S = {} THEN NoUpdate ELSE CHOOSE u \in S : \A v \in S : ota'[v].at <= ota'[u].at
  BY <1>4 DEF Selected
<1>. QED  BY <1>5, <1>6

\* A row is written, whether it was there or not.
Writes(u, row) ==
  /\ u \in Updates /\ row \in OtaRows
  /\ ota' = [v \in RowIds \cup {u} |-> IF v = u THEN row ELSE ota[v]]
  /\ Tell /\ Revives(u, row.active) /\ UNCHANGED <<stored, running, rivalled, chosen>>
  /\ ~rivalled => \A v \in RowIds : ota[v].seq = row.seq => MayMeet(chosen, v, u)

LEMMA RowWritten ==
  ASSUME OtaInv, NEW u, NEW row, Writes(u, row),
         DOMAIN publisher' = Publishers,
         \A p \in Publishers : publisher'[p] = publisher[p] \/ publisher'[p] = Ready,
         ~rivalled => \A p \in Publishers :
           publisher'[p].pc = "publish" /\ publisher[p].seq = row.seq => MayMeet(chosen, u, publisher[p].id)
  PROVE  OtaInv'
<1>1. /\ RowIds' = RowIds \cup {u} /\ ota'[u] = row
      /\ \A v \in RowIds : v # u => ota'[v] = ota[v]
  BY DEF Writes, RowIds
<1>2. u \in Updates /\ row \in OtaRows /\ RowIds \subseteq Updates
      /\ \A v \in RowIds : ota[v] \in OtaRows
  BY DEF Writes, OtaInv, RowsOK
<1>3. RowsOK'
  <2>1. PICK n \in Nat : \A v \in RowIds : ota[v].seq <= n /\ ota[v].at <= n
    BY DEF OtaInv, RowsOK
  <2>2. row.seq \in Nat /\ row.at \in Nat  BY <1>2 DEF OtaRows
  <2>3. PICK m \in Nat : m = n + row.seq + row.at  BY <2>2
  <2>4. \A v \in RowIds : ota[v].seq \in Nat /\ ota[v].at \in Nat  BY <1>2 DEF OtaRows
  <2>5. \A v \in RowIds \cup {u} : ota'[v].seq <= m /\ ota'[v].at <= m
    BY <1>1, <2>1, <2>2, <2>3, <2>4
  <2>6. \A v \in RowIds \cup {u} : ota'[v] \in OtaRows  BY <1>1, <1>2
  <2>. QED  BY <1>1, <1>2, <2>5, <2>6 DEF RowsOK
<1>4. ActiveIds' \subseteq ActiveIds \cup (IF row.active THEN {u} ELSE {})
  BY <1>1 DEF ActiveIds
<1>5. /\ revived \subseteq revived'
      /\ row.active /\ (u \in Doomed \/ u \notin stored) => u \in revived'
  BY DEF Writes, Revives
<1>6. ActiveUpdateHasFiles'
  BY <1>4, <1>5 DEF Writes, OtaInv, ActiveUpdateHasFiles
<1>7. NumbersDiffer'
  <2>1. SUFFICES ASSUME ~rivalled' PROVE \A v, w \in RowIds' : ota'[v].seq = ota'[w].seq => MayMeet(chosen, v, w)
    BY DEF NumbersDiffer, MayMeet, Writes
  <2>2. ~rivalled /\ \A v \in RowIds : ota[v].seq = row.seq => MayMeet(chosen, v, u)  BY <2>1 DEF Writes
  <2>3. \A v, w \in RowIds : ota[v].seq = ota[w].seq => MayMeet(chosen, v, w)  BY <2>2 DEF OtaInv, NumbersDiffer
  <2>4. MayMeet(chosen, u, u) /\ \A v : MayMeet(chosen, v, u) => MayMeet(chosen, u, v)  BY DEF MayMeet
  <2>. QED  BY <1>1, <2>2, <2>3, <2>4
<1>8. RequestsOK'
  <2>1. \A p \in Publishers : PublisherOK(publisher'[p])
    BY DEF OtaInv, RequestsOK, PublisherOK
  <2>2. ASSUME NEW p \in Publishers, publisher'[p].pc = "files"
        PROVE  publisher'[p].left \cap ActiveIds' \subseteq revived'
    <3>1. publisher'[p] = publisher[p]  BY <2>2 DEF Ready
    <3>2. publisher[p].left \subseteq Doomed  BY <2>2, <3>1 DEF Doomed
    <3>3. publisher[p].left \cap ActiveIds \subseteq revived
      BY <2>2, <3>1 DEF OtaInv, RequestsOK
    <3>. QED  BY <1>4, <1>5, <3>1, <3>2, <3>3
  <2>3. \A p \in Publishers : publisher'[p].pc = "publish" => publisher'[p] = publisher[p]
    BY DEF Ready
  <2>4. ASSUME ~rivalled'
        PROVE  /\ \A p, q \in Publishers : publisher'[p].pc = "publish" /\ publisher'[q].pc = "publish" => p = q
               /\ \A p \in Publishers : publisher'[p].pc = "publish" =>
                    \A v \in RowIds' : ota'[v].seq = publisher'[p].seq => MayMeet(chosen', v, publisher'[p].id)
    <3>1. ~rivalled /\ chosen' = chosen  BY <2>4 DEF Writes
    <3>2. /\ \A p, q \in Publishers : publisher[p].pc = "publish" /\ publisher[q].pc = "publish" => p = q
          /\ \A p \in Publishers : publisher[p].pc = "publish" =>
               \A v \in RowIds : ota[v].seq = publisher[p].seq => MayMeet(chosen, v, publisher[p].id)
      BY <3>1 DEF OtaInv, RequestsOK
    <3>3. ASSUME NEW p \in Publishers, publisher'[p].pc = "publish",
                 NEW v \in RowIds', ota'[v].seq = publisher'[p].seq
          PROVE  MayMeet(chosen', v, publisher'[p].id)
      <4>1. publisher'[p] = publisher[p] /\ publisher[p].pc = "publish"  BY <2>3, <3>3
      <4>2. CASE v = u
        <5>1. MayMeet(chosen, u, publisher[p].id)  BY <1>1, <3>1, <3>3, <4>1, <4>2
        <5>. QED  BY <3>1, <4>1, <4>2, <5>1 DEF MayMeet
      <4>3. CASE v # u
        <5>1. MayMeet(chosen, v, publisher[p].id)  BY <1>1, <3>2, <3>3, <4>1, <4>3
        <5>. QED  BY <3>1, <4>1, <5>1 DEF MayMeet
      <4>. QED  BY <4>2, <4>3
    <3>. QED  BY <2>3, <3>2, <3>3
  <2>. QED  BY <2>1, <2>2, <2>4 DEF RequestsOK
<1>9. DOMAIN running' = Phones /\ news' = Phones  BY DEF Writes, Tell, OtaInv
<1>. QED  BY <1>3, <1>6, <1>7, <1>8, <1>9, OtaAssumption DEF OtaInv

LEMMA OtherRequests ==
  ASSUME OtaInv, NEW p \in Publishers, NEW x, publisher' = [publisher EXCEPT ![p] = x]
  PROVE  /\ DOMAIN publisher' = Publishers /\ publisher'[p] = x
         /\ \A q \in Publishers : q # p => publisher'[q] = publisher[q]
         /\ PublisherOK(publisher[p])
BY DEF OtaInv, RequestsOK

LEMMA ReadSequenceStep ==
  ASSUME OtaInv, NEW p \in Publishers, NEW u \in Updates, NEW a \in BOOLEAN, NEW r \in Rollouts,
         NEW asked \in AskedNumbers, ReadSequence(p, u, a, r, asked)
  PROVE  OtaInv'
<1>1. PICK n : n = NextSequence(u, asked)  OBVIOUS
<1>2. PICK x : x = [pc |-> "publish", id |-> u, active |-> a, rollout |-> r, seq |-> n]  OBVIOUS
<1>3. publisher' = [publisher EXCEPT ![p] = x] /\ UNCHANGED <<bucket, ota, running, news, revived>>
  BY <1>1, <1>2 DEF ReadSequence, Serve
<1>4. stored \subseteq stored' /\ \A v \in RowIds : v \in stored' => v \in stored
  BY DEF ReadSequence
<1>5. rivalled' = (rivalled \/ \E q \in Publishers \ {p} : publisher[q].pc = "publish")
  BY DEF ReadSequence
<1>14. chosen \subseteq chosen' /\ (asked # 0 => u \in chosen')  BY DEF ReadSequence
<1>6. n \in Nat /\ (~rivalled => \A v \in RowIds : ota[v].seq = n => MayMeet(chosen', v, u))
  <2>0. CASE asked # 0
    <3>1. n \in Nat  BY <1>1, <2>0, OtaAssumption DEF NextSequence
    <3>2. \A v : MayMeet(chosen', v, u)  BY <1>14, <2>0 DEF MayMeet
    <3>. QED  BY <3>1, <3>2
  <2>1. CASE asked = 0 /\ u \in RowIds
    <3>1. n = ota[u].seq  BY <1>1, <2>1 DEF NextSequence
    <3>2. n \in Nat  BY <2>1, <3>1 DEF OtaInv, RowsOK, OtaRows
    <3>3. ~rivalled => \A v \in RowIds : ota[v].seq = n => MayMeet(chosen, v, u)
      BY <2>1, <3>1 DEF OtaInv, NumbersDiffer
    <3>. QED  BY <1>14, <3>2, <3>3 DEF MayMeet
  <2>2. CASE asked = 0 /\ u \notin RowIds
    <3>1. PICK S : S = {ota[v].seq : v \in RowIds}  OBVIOUS
    <3>2. n = 1 + Highest(S)  BY <1>1, <2>2, <3>1 DEF NextSequence
    <3>3. PICK N \in Nat : \A v \in RowIds : ota[v].seq <= N  BY DEF OtaInv, RowsOK
    <3>4. S \subseteq Nat /\ \A k \in S : k <= N  BY <3>1, <3>3 DEF OtaInv, RowsOK, OtaRows
    <3>5. Highest(S) \in Nat /\ \A k \in S : k <= Highest(S)  BY <3>4, HighestIs
    <3>6. \A v \in RowIds : ota[v].seq \in S  BY <3>1
    <3>7. n \notin S  BY <3>2, <3>4, <3>5
    <3>. QED  BY <3>2, <3>5, <3>6, <3>7
  <2>. QED  BY <2>0, <2>1, <2>2
<1>7. /\ DOMAIN publisher' = Publishers /\ publisher'[p] = x
      /\ \A q \in Publishers : q # p => publisher'[q] = publisher[q]
  BY <1>3, OtherRequests
<1>8. RowIds' = RowIds /\ ActiveIds' = ActiveIds  BY <1>3 DEF RowIds, ActiveIds
<1>9. RowsOK'  BY <1>3, <1>8 DEF OtaInv, RowsOK
<1>10. RequestsOK'
  <2>1. x \in Publishing /\ x.pc = "publish" /\ x.seq = n /\ x.id = u  BY <1>2, <1>6 DEF Publishing
  <2>2. \A q \in Publishers : PublisherOK(publisher'[q])
    BY <1>7, <2>1 DEF OtaInv, RequestsOK, PublisherOK
  <2>3. \A q \in Publishers : publisher'[q].pc = "files" => publisher'[q].left \cap ActiveIds' \subseteq revived'
    BY <1>3, <1>7, <1>8, <2>1 DEF OtaInv, RequestsOK
  <2>4. ~rivalled' =>
          /\ \A q, o \in Publishers : publisher'[q].pc = "publish" /\ publisher'[o].pc = "publish" => q = o
          /\ \A q \in Publishers : publisher'[q].pc = "publish" =>
               \A v \in RowIds' : ota'[v].seq = publisher'[q].seq => MayMeet(chosen', v, publisher'[q].id)
    <3>1. SUFFICES ASSUME ~rivalled'
          PROVE  /\ \A q, o \in Publishers : publisher'[q].pc = "publish" /\ publisher'[o].pc = "publish" => q = o
                 /\ \A q \in Publishers : publisher'[q].pc = "publish" =>
                      \A v \in RowIds : ota[v].seq = publisher'[q].seq => MayMeet(chosen', v, publisher'[q].id)
      BY <1>3, <1>8
    <3>2. ~rivalled /\ \A q \in Publishers : publisher'[q].pc = "publish" => q = p
      BY <1>5, <1>7, <3>1
    <3>3. \A v \in RowIds : ota[v].seq = x.seq => MayMeet(chosen', v, x.id)  BY <1>6, <2>1, <3>2
    <3>. QED  BY <1>7, <3>2, <3>3
  <2>. QED  BY <1>7, <2>2, <2>3, <2>4 DEF RequestsOK
<1>11. ActiveUpdateHasFiles' /\ NumbersDiffer'
  BY <1>3, <1>4, <1>5, <1>8, <1>14 DEF OtaInv, ActiveUpdateHasFiles, NumbersDiffer, MayMeet
<1>12. \A ph \in Identified \ news' : SettledOn(ph)'
  <2>1. ASSUME NEW ph \in Identified \ news PROVE SettledOn(ph)'
    <3>1. SettledOn(ph)  BY <2>1 DEF OtaInv
    <3>2. Selected(ph)' = Selected(ph)  BY <1>3, <2>1, SelectedStays
    <3>3. Selected(ph) = NoUpdate \/ Selected(ph) \in RowIds  BY SelectedIs DEF OtaInv, ActiveIds
    <3>. QED  BY <1>3, <1>4, <3>1, <3>2, <3>3 DEF SettledOn
  <2>. QED  BY <1>3, <2>1
<1>13. DOMAIN running' = Phones  BY <1>3 DEF OtaInv
<1>. QED  BY <1>9, <1>10, <1>11, <1>12, <1>13 DEF OtaInv

LEMMA PublishStep ==
  ASSUME OtaInv, NEW p \in Publishers, PublishOta(p)
  PROVE  OtaInv'
<1>1. PICK x : x = publisher[p]  OBVIOUS
<1>2. x \in Publishing /\ x.pc = "publish"
  <2>1. x.pc = "publish"  BY <1>1 DEF PublishOta
  <2>2. PublisherOK(x)  BY <1>1 DEF OtaInv, RequestsOK
  <2>. QED  BY <2>1, <2>2 DEF PublisherOK, Ready, Cleaning
<1>3. PICK S : S = {ota[v].at : v \in RowIds}  OBVIOUS
<1>4. PICK at \in Nat : at = IF x.id \in RowIds THEN ota[x.id].at ELSE 1 + Highest(S)
  <2>1. PICK N \in Nat : \A v \in RowIds : ota[v].at <= N  BY DEF OtaInv, RowsOK
  <2>2. S \subseteq Nat /\ \A k \in S : k <= N  BY <1>3, <2>1 DEF OtaInv, RowsOK, OtaRows
  <2>3. Highest(S) \in Nat  BY <2>2, HighestIs
  <2>4. x.id \in RowIds => ota[x.id].at \in Nat  BY DEF OtaInv, RowsOK, OtaRows
  <2>. QED  BY <2>3, <2>4
<1>5. PICK row : row = [active |-> x.active, rollout |-> x.rollout, seq |-> x.seq, at |-> at]  OBVIOUS
<1>6. row \in OtaRows /\ row.active = x.active /\ row.seq = x.seq /\ x.id \in Updates
  BY <1>2, <1>5 DEF OtaRows, Publishing
<1>7. /\ publisher' = [publisher EXCEPT ![p] = Ready]
      /\ Tell /\ Revives(x.id, x.active) /\ UNCHANGED <<stored, running, rivalled, chosen>>
      /\ ota' = [v \in RowIds \cup {x.id} |-> IF v = x.id THEN row ELSE ota[v]]
  BY <1>1, <1>3, <1>4, <1>5 DEF PublishOta, Served
<1>8. ~rivalled => \A v \in RowIds : ota[v].seq = x.seq => MayMeet(chosen, v, x.id)
  BY <1>1, <1>2 DEF OtaInv, RequestsOK
<1>9. Writes(x.id, row)  BY <1>6, <1>7, <1>8 DEF Writes
<1>10. /\ DOMAIN publisher' = Publishers /\ publisher'[p] = Ready
       /\ \A q \in Publishers : q # p => publisher'[q] = publisher[q]
  BY <1>7, OtherRequests
<1>11. ~rivalled => \A q \in Publishers : publisher'[q].pc # "publish"
  BY <1>1, <1>2, <1>10 DEF OtaInv, RequestsOK, Ready
<1>. QED  BY <1>9, <1>10, <1>11, RowWritten

LEMMA EditStep ==
  ASSUME OtaInv, NEW u \in Updates, NEW a \in BOOLEAN, NEW r \in Rollouts, EditOta(u, a, r)
  PROVE  OtaInv'
<1>1. u \in RowIds /\ ota[u] \in OtaRows  BY DEF EditOta, OtaInv, RowsOK
<1>2. PICK row : row = [ota[u] EXCEPT !.active = a, !.rollout = r]  OBVIOUS
<1>3. row \in OtaRows /\ row.active = a /\ row.seq = ota[u].seq  BY <1>1, <1>2 DEF OtaRows
<1>4. ota' = [v \in RowIds \cup {u} |-> IF v = u THEN row ELSE ota[v]]
  <2>1. ota' = [ota EXCEPT ![u] = row]  BY <1>1, <1>2 DEF EditOta, RowIds
  <2>. QED  BY <1>1, <2>1 DEF RowIds
<1>5. ~rivalled => \A v \in RowIds : ota[v].seq = row.seq => MayMeet(chosen, v, u)
  BY <1>1, <1>3 DEF OtaInv, NumbersDiffer
<1>6. Tell /\ Revives(u, row.active) /\ UNCHANGED <<stored, running, rivalled, chosen, publisher>>
  BY <1>3 DEF EditOta
<1>7. Writes(u, row)  BY <1>3, <1>4, <1>5, <1>6 DEF Writes
<1>8. ~rivalled => \A p \in Publishers :
        publisher'[p].pc = "publish" /\ publisher[p].seq = row.seq => MayMeet(chosen, u, publisher[p].id)
  BY <1>1, <1>3, <1>6 DEF OtaInv, RequestsOK
<1>9. DOMAIN publisher' = Publishers /\ \A p \in Publishers : publisher'[p] = publisher[p]
  BY <1>6 DEF OtaInv, RequestsOK
<1>. QED  BY <1>7, <1>8, <1>9, RowWritten

\* A cleanup goes on: files leave, rows stay.
LEMMA CleanupKeeps ==
  ASSUME OtaInv, NEW p \in Publishers, NEW x, publisher' = [publisher EXCEPT ![p] = x],
         UNCHANGED <<bucket, ota, running, news, revived, rivalled, chosen>>,
         stored' \subseteq stored, ActiveUpdateHasFiles',
         PublisherOK(x), x.pc # "publish",
         x.pc = "files" => x.left \cap ActiveIds \subseteq revived
  PROVE  OtaInv'
<1>1. /\ DOMAIN publisher' = Publishers /\ publisher'[p] = x
      /\ \A q \in Publishers : q # p => publisher'[q] = publisher[q]
  BY OtherRequests
<1>2. RowIds' = RowIds /\ ActiveIds' = ActiveIds  BY DEF RowIds, ActiveIds
<1>3. RowsOK' /\ NumbersDiffer' /\ DOMAIN running' = Phones
  BY <1>2 DEF OtaInv, RowsOK, NumbersDiffer
<1>4. RequestsOK'
  <2>1. \A q \in Publishers : PublisherOK(publisher'[q])  BY <1>1 DEF OtaInv, RequestsOK
  <2>2. \A q \in Publishers : publisher'[q].pc = "files" => publisher'[q].left \cap ActiveIds' \subseteq revived'
    BY <1>1, <1>2 DEF OtaInv, RequestsOK
  <2>3. ~rivalled' =>
          /\ \A q, o \in Publishers : publisher'[q].pc = "publish" /\ publisher'[o].pc = "publish" => q = o
          /\ \A q \in Publishers : publisher'[q].pc = "publish" =>
               \A v \in RowIds' : ota'[v].seq = publisher'[q].seq => MayMeet(chosen', v, publisher'[q].id)
    BY <1>1, <1>2 DEF OtaInv, RequestsOK
  <2>. QED  BY <1>1, <2>1, <2>2, <2>3 DEF RequestsOK
<1>5. \A ph \in Identified \ news' : SettledOn(ph)'
  <2>1. \A ph \in Identified : Selected(ph)' = Selected(ph)  BY SelectedStays
  <2>. QED  BY <2>1 DEF OtaInv, SettledOn
<1>. QED  BY <1>3, <1>4, <1>5 DEF OtaInv

LEMMA ReadCleanupStep ==
  ASSUME OtaInv, NEW p \in Publishers, NEW keep, NEW rows \in BOOLEAN, ReadCleanup(p, keep, rows)
  PROVE  OtaInv'
<1>1. PICK T : T = CleanupRows(keep)  OBVIOUS
<1>2. T \subseteq RowIds \ ActiveIds /\ T \subseteq Updates
  BY <1>1 DEF CleanupRows, Older, OtaInv, RowsOK
<1>3. PICK x : x = [pc |-> "files", left |-> T, all |-> T, rows |-> rows]  OBVIOUS
<1>4. publisher' = [publisher EXCEPT ![p] = x]
      /\ UNCHANGED <<bucket, ota, stored, running, news, revived, rivalled, chosen>>
  BY <1>1, <1>3 DEF ReadCleanup, Serve
<1>5. PublisherOK(x) /\ x.pc # "publish" /\ x.left \cap ActiveIds \subseteq revived
  BY <1>2, <1>3 DEF PublisherOK, Cleaning
<1>6. ActiveUpdateHasFiles'  BY <1>4 DEF OtaInv, ActiveUpdateHasFiles, ActiveIds, RowIds
<1>. QED  BY <1>4, <1>5, <1>6, CleanupKeeps

LEMMA DeleteFilesStep ==
  ASSUME OtaInv, NEW p \in Publishers, DeleteFiles(p)
  PROVE  OtaInv'
<1>1. PICK x : x = publisher[p]  OBVIOUS
<1>2. x.pc = "files" /\ x \in Cleaning /\ x.left \cap ActiveIds \subseteq revived
  <2>1. x.pc = "files"  BY <1>1 DEF DeleteFiles
  <2>2. PublisherOK(x)  BY <1>1 DEF OtaInv, RequestsOK
  <2>3. x \in Cleaning  BY <2>1, <2>2 DEF PublisherOK, Ready, Publishing
  <2>. QED  BY <1>1, <2>1, <2>3 DEF OtaInv, RequestsOK
<1>3. PICK u \in x.left, deleted \in BOOLEAN :
        /\ stored' = IF deleted THEN stored \ {u} ELSE stored
        /\ publisher' = [publisher EXCEPT ![p] =
             IF x.left # {u} THEN [x EXCEPT !.left = @ \ {u}, !.rows = @ /\ deleted]
             ELSE IF x.rows /\ deleted THEN [x EXCEPT !.pc = "rows", !.left = x.all] ELSE Ready]
  BY <1>1, Zenon DEF DeleteFiles
<1>4. PICK y : y = IF x.left # {u} THEN [x EXCEPT !.left = @ \ {u}, !.rows = @ /\ deleted]
                   ELSE IF x.rows /\ deleted THEN [x EXCEPT !.pc = "rows", !.left = x.all] ELSE Ready
  OBVIOUS
<1>5. PublisherOK(y) /\ y.pc # "publish" /\ (y.pc = "files" => y.left \cap ActiveIds \subseteq revived)
  <2>1. CASE x.left # {u}
    <3>1. PICK more : more = (x.rows /\ deleted)  OBVIOUS
    <3>2. more \in BOOLEAN  BY <3>1
    <3>3. y = [x EXCEPT !.left = x.left \ {u}, !.rows = more]  BY <1>4, <2>1, <3>1
    <3>4. y \in Cleaning /\ y.pc = "files" /\ y.left = x.left \ {u}  BY <1>2, <3>2, <3>3 DEF Cleaning
    <3>. QED  BY <1>2, <3>4 DEF PublisherOK
  <2>2. CASE x.left = {u} /\ x.rows /\ deleted
    <3>1. y = [x EXCEPT !.pc = "rows", !.left = x.all]  BY <1>4, <2>2
    <3>2. y \in Cleaning /\ y.pc = "rows"  BY <1>2, <3>1 DEF Cleaning
    <3>. QED  BY <3>2 DEF PublisherOK
  <2>3. CASE x.left = {u} /\ ~(x.rows /\ deleted)
    <3>1. y = Ready  BY <1>4, <2>3
    <3>. QED  BY <3>1 DEF PublisherOK, Ready
  <2>. QED  BY <2>1, <2>2, <2>3
<1>6. publisher' = [publisher EXCEPT ![p] = y]  BY <1>3, <1>4
<1>7. UNCHANGED <<bucket, ota, running, news, revived, rivalled, chosen>>  BY DEF DeleteFiles
<1>8. stored' \subseteq stored /\ stored \ {u} \subseteq stored'  BY <1>3
<1>9. ActiveUpdateHasFiles'
  <2>1. ActiveIds' = ActiveIds  BY <1>7 DEF ActiveIds, RowIds
  <2>2. u \in ActiveIds => u \in revived  BY <1>2, <1>3
  <2>. QED  BY <1>7, <1>8, <2>1, <2>2 DEF OtaInv, ActiveUpdateHasFiles
<1>. QED  BY <1>5, <1>6, <1>7, <1>8, <1>9, CleanupKeeps

LEMMA DeleteRowsStep ==
  ASSUME OtaInv, NEW p \in Publishers, DeleteRows(p)
  PROVE  OtaInv'
<1>1. PICK gone : gone = publisher[p].all  OBVIOUS
<1>2. /\ publisher' = [publisher EXCEPT ![p] = Ready] /\ ota' = [u \in RowIds \ gone |-> ota[u]]
      /\ news' = Phones /\ UNCHANGED <<stored, running, revived, rivalled, chosen>>
  BY <1>1 DEF DeleteRows, Served, Tell
<1>3. /\ DOMAIN publisher' = Publishers /\ publisher'[p] = Ready
      /\ \A q \in Publishers : q # p => publisher'[q] = publisher[q]
  BY <1>2, OtherRequests
<1>4. RowIds' \subseteq RowIds /\ \A u \in RowIds' : ota'[u] = ota[u]  BY <1>2 DEF RowIds
<1>5. ActiveIds' \subseteq ActiveIds  BY <1>4 DEF ActiveIds
<1>6. RowsOK'  BY <1>4 DEF OtaInv, RowsOK
<1>7. RequestsOK'
  <2>1. \A q \in Publishers : PublisherOK(publisher'[q])
    BY <1>3 DEF OtaInv, RequestsOK, PublisherOK
  <2>2. \A q \in Publishers : publisher'[q].pc = "files" => publisher'[q].left \cap ActiveIds' \subseteq revived'
    BY <1>2, <1>3, <1>5 DEF OtaInv, RequestsOK, Ready
  <2>3. ~rivalled' =>
          /\ \A q, o \in Publishers : publisher'[q].pc = "publish" /\ publisher'[o].pc = "publish" => q = o
          /\ \A q \in Publishers : publisher'[q].pc = "publish" =>
               \A v \in RowIds' : ota'[v].seq = publisher'[q].seq => MayMeet(chosen', v, publisher'[q].id)
    <3>1. SUFFICES ASSUME ~rivalled
          PROVE  /\ \A q, o \in Publishers : publisher'[q].pc = "publish" /\ publisher'[o].pc = "publish" => q = o
                 /\ \A q \in Publishers : publisher'[q].pc = "publish" =>
                      \A v \in RowIds' : ota'[v].seq = publisher'[q].seq => MayMeet(chosen, v, publisher'[q].id)
      BY <1>2
    <3>2. \A q \in Publishers : publisher'[q].pc = "publish" => publisher'[q] = publisher[q]
      BY <1>3 DEF Ready
    <3>3. /\ \A q, o \in Publishers : publisher[q].pc = "publish" /\ publisher[o].pc = "publish" => q = o
          /\ \A q \in Publishers : publisher[q].pc = "publish" =>
               \A v \in RowIds : ota[v].seq = publisher[q].seq => MayMeet(chosen, v, publisher[q].id)
      BY <3>1 DEF OtaInv, RequestsOK
    <3>. QED  BY <1>4, <3>2, <3>3
  <2>. QED  BY <1>3, <2>1, <2>2, <2>3 DEF RequestsOK
<1>8. ActiveUpdateHasFiles' /\ NumbersDiffer'
  <2>1. ActiveUpdateHasFiles'  BY <1>2, <1>5 DEF OtaInv, ActiveUpdateHasFiles
  <2>2. rivalled \/ \A u, v \in RowIds : ota[u].seq = ota[v].seq => MayMeet(chosen, u, v)
    BY DEF OtaInv, NumbersDiffer
  <2>3. rivalled' = rivalled /\ chosen' = chosen  BY <1>2
  <2>4. NumbersDiffer'  BY <1>4, <2>2, <2>3 DEF NumbersDiffer
  <2>. QED  BY <2>1, <2>4
<1>9. DOMAIN running' = Phones  BY <1>2 DEF OtaInv
<1>10. Identified \ news' = {}  BY <1>2, OtaAssumption
<1>. QED  BY <1>6, <1>7, <1>8, <1>9, <1>10 DEF OtaInv

LEMMA CheckStep ==
  ASSUME OtaInv, NEW ph \in Phones, Check(ph)
  PROVE  OtaInv' /\ \A o \in Identified : running'[o] # running[o] => o \in news
<1>1. PICK u : u = Selected(ph)  OBVIOUS
<1>2. /\ running' = IF u = NoUpdate \/ u \notin stored THEN running ELSE [running EXCEPT ![ph] = u]
      /\ news' = news \ {ph}
      /\ UNCHANGED <<bucket, ota, stored, publisher, revived, rivalled, chosen>>
  BY <1>1 DEF Check
<1>3. RowIds' = RowIds /\ ActiveIds' = ActiveIds  BY <1>2 DEF RowIds, ActiveIds
<1>4. RowsOK' /\ NumbersDiffer' /\ ActiveUpdateHasFiles' /\ RequestsOK'
  BY <1>2, <1>3 DEF OtaInv, RowsOK, NumbersDiffer, ActiveUpdateHasFiles, RequestsOK, PublisherOK
<1>5. DOMAIN running' = Phones /\ \A o \in Phones : o # ph => running'[o] = running[o]
  BY <1>2 DEF OtaInv
<1>6. u = NoUpdate \/ u \notin stored \/ running'[ph] = u  BY <1>2 DEF OtaInv
<1>7. ASSUME NEW o \in Identified \ news' PROVE SettledOn(o)'
  <2>1. Selected(o)' = Selected(o)  BY <1>2, SelectedStays
  <2>2. CASE o = ph  BY <1>1, <1>2, <1>6, <2>1, <2>2 DEF SettledOn
  <2>3. CASE o # ph
    <3>1. SettledOn(o)  BY <1>2, <1>7, <2>3 DEF OtaInv
    <3>2. running'[o] = running[o]  BY <1>5, <2>3, OtaAssumption
    <3>. QED  BY <1>2, <2>1, <3>1, <3>2 DEF SettledOn
  <2>. QED  BY <2>2, <2>3
<1>8. ASSUME NEW o \in Identified, running'[o] # running[o] PROVE o \in news
  <2>1. o = ph  BY <1>5, <1>8, OtaAssumption
  <2>2. u # NoUpdate /\ u \in stored /\ running[ph] # u  BY <1>2, <1>6, <1>8, <2>1
  <2>. QED  BY <1>1, <2>1, <2>2 DEF OtaInv, SettledOn
<1>. QED  BY <1>4, <1>5, <1>7, <1>8 DEF OtaInv

LEMMA OtaInvStep ==
  ASSUME OtaInv, [OtaNext]_otas
  PROVE  OtaInv' /\ \A ph \in Identified : running'[ph] # running[ph] => ph \in news
<1>1. ASSUME NEW p \in Publishers, NEW u \in Updates, NEW a \in BOOLEAN, NEW r \in Rollouts,
             NEW n \in AskedNumbers, ReadSequence(p, u, a, r, n)
      PROVE  OtaInv' /\ running' = running
  BY <1>1, ReadSequenceStep DEF ReadSequence
<1>2. ASSUME NEW p \in Publishers, PublishOta(p) \/ DeleteFiles(p) \/ DeleteRows(p)
      PROVE  OtaInv' /\ running' = running
  <2>1. OtaInv'  BY <1>2, PublishStep, DeleteFilesStep, DeleteRowsStep
  <2>. QED  BY <1>2, <2>1 DEF PublishOta, DeleteFiles, DeleteRows
<1>3. ASSUME NEW p \in Publishers, NEW keep, NEW rows \in BOOLEAN, ReadCleanup(p, keep, rows)
      PROVE  OtaInv' /\ running' = running
  BY <1>3, ReadCleanupStep DEF ReadCleanup
<1>4. ASSUME NEW u \in Updates, NEW a \in BOOLEAN, NEW r \in Rollouts, EditOta(u, a, r)
      PROVE  OtaInv' /\ running' = running
  BY <1>4, EditStep DEF EditOta
<1>5. CASE UNCHANGED otas
  <2>1. UNCHANGED <<bucket, ota, stored, running, publisher, news, revived, rivalled, chosen>>
    BY <1>5 DEF otas
  <2>2. RowIds' = RowIds /\ ActiveIds' = ActiveIds  BY <2>1 DEF RowIds, ActiveIds
  <2>3. RowsOK' /\ NumbersDiffer' /\ ActiveUpdateHasFiles' /\ RequestsOK'
    BY <2>1, <2>2 DEF OtaInv, RowsOK, NumbersDiffer, ActiveUpdateHasFiles, RequestsOK, PublisherOK
  <2>4. \A ph \in Identified : Selected(ph)' = Selected(ph)  BY <2>1, SelectedStays
  <2>. QED  BY <2>1, <2>3, <2>4 DEF OtaInv, SettledOn
<1>. QED  BY <1>1, <1>2, <1>3, <1>4, <1>5, CheckStep DEF OtaNext

LEMMA OtaInvStart == OtaInit => OtaInv
<1> SUFFICES ASSUME OtaInit PROVE OtaInv  OBVIOUS
<1>1. ota = <<>> /\ stored = {} /\ revived = {} /\ rivalled = FALSE /\ DOMAIN running = Phones
  BY DEF OtaInit
<1>2. publisher = [p \in Publishers |-> Ready]  BY DEF OtaInit
<1>3. RowIds = {} /\ ActiveIds = {}
  <2>1. RowIds = {}  BY <1>1 DEF RowIds
  <2>. QED  BY <2>1 DEF ActiveIds
<1>4. RowsOK /\ NumbersDiffer /\ ActiveUpdateHasFiles
  BY <1>3 DEF RowsOK, NumbersDiffer, ActiveUpdateHasFiles
<1>5. RequestsOK  BY <1>2, <1>3 DEF RequestsOK, PublisherOK, Ready
<1>6. \A ph : Selected(ph) = NoUpdate
  <2>1. \A ph : Selected(ph) = NoUpdate \/ Selected(ph) \in ActiveIds  BY <1>4, SelectedIs
  <2>. QED  BY <1>3, <2>1
<1>. QED  BY <1>1, <1>4, <1>5, <1>6 DEF OtaInv, SettledOn

\* An active update has its files, and an update that the server numbered a
\* number of its own, whatever cleanups, publications and edits interleave; the
\* exceptions are an update made active while its files went, a number that a
\* caller chose, and publications that overlap (routes/ota.ts).
THEOREM ActiveUpdatesServed == OtaSpec => []ActiveUpdatesAreServed
<1>1. OtaInv /\ [OtaNext]_otas => OtaInv'  BY OtaInvStep
<1>2. OtaInv => ActiveUpdatesAreServed  BY DEF OtaInv, ActiveUpdatesAreServed
<1>. QED  BY <1>1, <1>2, OtaInvStart, PTL DEF OtaSpec

\* A phone that sends its id changes its update only after a change of the
\* rows, for any hash and any rollouts (shouldIncludeUpdate).
THEOREM PhonesSettle == OtaSpec => PhoneSettles
<1>1. OtaInv /\ [OtaNext]_otas => OtaInv'  BY OtaInvStep
<1>2. OtaInv /\ [OtaNext]_otas =>
        [\A ph \in Identified : running'[ph] # running[ph] => ph \in news]_otas
  BY OtaInvStep
<1>. QED  BY <1>1, <1>2, OtaInvStart, PTL DEF OtaSpec, PhoneSettles

-----------------------------------------------------------------------------
(* The catalogue (OnecSync, CatalogFeed).                                    *)

LEMMA EntitiesAre ==
  Entities = {"nomenclature", "organizations", "warehouses", "counterparties", "contracts",
              "agreements", "product-prices", "special-prices", "stock"}
BY DEF Entities, RECONCILE_ORDER

LEMMA Tables ==
  /\ TablesOf["nomenclature"] = {"group", "product"} /\ TablesOf["organizations"] = {"organization"}
  /\ TablesOf["warehouses"] = {"warehouse"} /\ TablesOf["counterparties"] = {"counterparty"}
  /\ TablesOf["contracts"] = {"contract"} /\ TablesOf["agreements"] = {"agreement", "priceType"}
  /\ TablesOf["product-prices"] = {"productPrice"} /\ TablesOf["special-prices"] = {"specialPrice"}
  /\ TablesOf["stock"] = {"stock"}
BY EntitiesAre DEF TablesOf

\* What a promote carries from entity to entity.
IsPromote(p) == p = [db |-> p.db, catalog |-> p.catalog, blocked |-> p.blocked]
GuidsOf(I) == {i.guid : i \in I}
Keyed(I) == \A i, j \in I : i.guid = j.guid => i = j
IsRow(row) == row = Row(row.ver, row.refs, row.active)
RowsTyped(d) == \A g \in DOMAIN d : IsRow(d[g])

LEMMA UpsertIs ==
  ASSUME NEW p, IsPromote(p), NEW I, Keyed(I)
  PROVE  LET q == Upsert(p, I) IN
         /\ IsPromote(q) /\ q.catalog = p.catalog /\ q.blocked = p.blocked
         /\ DOMAIN q.db = GuidsOf(I) \cup DOMAIN p.db
         /\ \A i \in I : q.db[i.guid].ver = i.ver /\ q.db[i.guid].active = i.active
         /\ RowsTyped(p.db) => RowsTyped(q.db)
         /\ \A g \in DOMAIN p.db \ GuidsOf(I) : q.db[g] = p.db[g]
<1>1. PICK item : item = [g \in GuidsOf(I) |-> CHOOSE i \in I : i.guid = g]  OBVIOUS
<1>2. \A i \in I : i.guid \in GuidsOf(I) /\ item[i.guid] = i
  BY <1>1 DEF GuidsOf, Keyed
<1>3. PICK kept : kept = [g \in GuidsOf(I) |->
         IF TableOf(g) = "counterparty" /\ g \in DOMAIN p.db THEN p.db[g].refs ELSE {}]
  OBVIOUS
<1>4. PICK new : new = [g \in GuidsOf(I) |-> Row(item[g].ver, item[g].needs \cup item[g].late \cup kept[g],
                                                item[g].active)]
  OBVIOUS
<1>5. Upsert(p, I) = [p EXCEPT !.db = Over(new, @)]
  <2>1. PICK raw : raw =
          [g \in GuidsOf(I) |->
             Row((CHOOSE i \in I : i.guid = g).ver,
                 (CHOOSE i \in I : i.guid = g).needs \cup (CHOOSE i \in I : i.guid = g).late
                   \cup (IF TableOf(g) = "counterparty" /\ g \in DOMAIN p.db THEN p.db[g].refs ELSE {}),
                 (CHOOSE i \in I : i.guid = g).active)]
    OBVIOUS
  <2>2. Upsert(p, I) = [p EXCEPT !.db = Over(raw, @)]
    BY <2>1, Zenon DEF Upsert, GuidsOf
  <2>3. ASSUME NEW g \in GuidsOf(I) PROVE raw[g] = new[g]
    <3>1. item[g] = CHOOSE i \in I : i.guid = g  BY <1>1
    <3>2. kept[g] = IF TableOf(g) = "counterparty" /\ g \in DOMAIN p.db THEN p.db[g].refs ELSE {}
      BY <1>3
    <3>3. new[g] = Row(item[g].ver, item[g].needs \cup item[g].late \cup kept[g], item[g].active)
      BY <1>4
    <3>4. raw[g] = Row((CHOOSE i \in I : i.guid = g).ver,
                 (CHOOSE i \in I : i.guid = g).needs \cup (CHOOSE i \in I : i.guid = g).late
                   \cup (IF TableOf(g) = "counterparty" /\ g \in DOMAIN p.db THEN p.db[g].refs ELSE {}),
                 (CHOOSE i \in I : i.guid = g).active)
      BY <2>1, Zenon
    <3>. QED  BY <3>1, <3>2, <3>3, <3>4, Zenon
  <2>4. raw = new  BY <1>4, <2>1, <2>3
  <2>. QED  BY <2>2, <2>4
<1>6. PICK d : d = Over(new, p.db)  OBVIOUS
<1>7. /\ DOMAIN d = GuidsOf(I) \cup DOMAIN p.db
      /\ \A g \in GuidsOf(I) : d[g] = new[g]
      /\ \A g \in DOMAIN p.db \ GuidsOf(I) : d[g] = p.db[g]
  BY <1>4, <1>6 DEF Over
<1>8. Upsert(p, I) = [p EXCEPT !.db = d]  BY <1>5, <1>6
<1>9. Upsert(p, I) = [db |-> d, catalog |-> p.catalog, blocked |-> p.blocked]
  BY <1>8 DEF IsPromote
<1>10. \A i \in I : d[i.guid].ver = i.ver /\ d[i.guid].active = i.active
  BY <1>2, <1>4, <1>7 DEF Row
<1>11. RowsTyped(p.db) => RowsTyped(d)
  <2>1. \A g \in GuidsOf(I) : IsRow(new[g])  BY <1>4 DEF IsRow, Row
  <2>. QED  BY <1>7, <2>1 DEF RowsTyped
<1>. QED  BY <1>7, <1>9, <1>10, <1>11 DEF IsPromote

\* What a promote of the items I does: rows are written as the items say, or
\* the items are blocked.
SameRow(a, b) == a.ver = b.ver /\ a.active = b.active
WrittenBy(row, g, I) == \E i \in I : i.guid = g /\ row.ver = i.ver /\ row.active = i.active
Effect(p, q, I) ==
  /\ IsPromote(q) /\ p.blocked \subseteq q.blocked /\ q.blocked \subseteq p.blocked \cup GuidsOf(I)
  /\ DOMAIN p.db \subseteq DOMAIN q.db /\ (RowsTyped(p.db) => RowsTyped(q.db))
  /\ \A i \in I : i.guid \in q.blocked \/ (i.guid \in DOMAIN q.db /\ q.db[i.guid].ver = i.ver)
  /\ \A g \in DOMAIN q.db :
       \/ g \in DOMAIN p.db /\ SameRow(q.db[g], p.db[g])
       \/ WrittenBy(q.db[g], g, I)
       \/ \E i \in I : g \in i.creates

LEMMA BlockIs ==
  ASSUME NEW p, IsPromote(p), NEW I
  PROVE  LET q == Block(p, I) IN
         IsPromote(q) /\ q.db = p.db /\ q.catalog = p.catalog /\ q.blocked = p.blocked \cup GuidsOf(I)
<1>1. PICK b : b = p.blocked \cup GuidsOf(I)  OBVIOUS
<1>2. Block(p, I) = [p EXCEPT !.blocked = b]  BY <1>1 DEF Block, GuidsOf
<1>3. Block(p, I) = [db |-> p.db, catalog |-> p.catalog, blocked |-> b]  BY <1>2 DEF IsPromote
<1>. QED  BY <1>1, <1>3 DEF IsPromote

\* Some of the items are written, the others blocked.
LEMMA SomeWritten ==
  ASSUME NEW p, IsPromote(p), NEW I, Keyed(I), NEW found, found \subseteq I
  PROVE  LET q == Block(Upsert(p, found), I \ found) IN
         /\ Effect(p, q, I) /\ q.catalog = p.catalog /\ q.blocked = p.blocked \cup GuidsOf(I \ found)
         /\ GuidsOf(found) \subseteq DOMAIN q.db
         /\ \A g \in DOMAIN q.db : (g \in DOMAIN p.db /\ SameRow(q.db[g], p.db[g])) \/ WrittenBy(q.db[g], g, found)
<1>1. PICK u : u = Upsert(p, found)  OBVIOUS
<1>2. Keyed(found)  BY DEF Keyed
<1>3. /\ IsPromote(u) /\ u.catalog = p.catalog /\ u.blocked = p.blocked
      /\ DOMAIN u.db = GuidsOf(found) \cup DOMAIN p.db
      /\ \A i \in found : u.db[i.guid].ver = i.ver /\ u.db[i.guid].active = i.active
      /\ RowsTyped(p.db) => RowsTyped(u.db)
      /\ \A g \in DOMAIN p.db \ GuidsOf(found) : u.db[g] = p.db[g]
  BY <1>1, <1>2, UpsertIs
<1>4. PICK q : q = Block(u, I \ found)  OBVIOUS
<1>5. IsPromote(q) /\ q.db = u.db /\ q.catalog = p.catalog /\ q.blocked = p.blocked \cup GuidsOf(I \ found)
  BY <1>3, <1>4, BlockIs
<1>6. \A g \in DOMAIN q.db : (g \in DOMAIN p.db /\ SameRow(q.db[g], p.db[g])) \/ WrittenBy(q.db[g], g, found)
  <2>1. TAKE g \in DOMAIN q.db
  <2>2. CASE g \in GuidsOf(found)
    <3>1. PICK i \in found : i.guid = g  BY <2>2 DEF GuidsOf
    <3>. QED  BY <1>3, <1>5, <3>1 DEF WrittenBy
  <2>3. CASE g \notin GuidsOf(found)  BY <1>3, <1>5, <2>3 DEF SameRow
  <2>. QED  BY <2>2, <2>3
<1>7. \A i \in I : i.guid \in q.blocked \/ (i.guid \in DOMAIN q.db /\ q.db[i.guid].ver = i.ver)
  BY <1>3, <1>5 DEF GuidsOf
<1>8. q.blocked \subseteq p.blocked \cup GuidsOf(I) /\ GuidsOf(found) \subseteq DOMAIN q.db
  BY <1>3, <1>5 DEF GuidsOf
<1>9. \A g : WrittenBy(q.db[g], g, found) => WrittenBy(q.db[g], g, I)  BY DEF WrittenBy
<1>10. Effect(p, q, I)  BY <1>3, <1>5, <1>6, <1>7, <1>8, <1>9 DEF Effect
<1>. QED  BY <1>1, <1>4, <1>5, <1>6, <1>8, <1>10

LEMMA WhereFoundIs ==
  ASSUME NEW p, IsPromote(p), NEW I, Keyed(I)
  PROVE  LET q == ApplyWhereFound(p, I)
             found == {i \in I : Has(p.db, i.needs)}
         IN
         /\ Effect(p, q, I) /\ q.catalog = p.catalog
         /\ (\A i \in I : i.needs \subseteq DOMAIN p.db) => q.blocked = p.blocked /\ GuidsOf(I) \subseteq DOMAIN q.db
         /\ \A g \in DOMAIN q.db : (g \in DOMAIN p.db /\ SameRow(q.db[g], p.db[g])) \/ WrittenBy(q.db[g], g, found)
<1>1. PICK found : found = {i \in I : Has(p.db, i.needs)}  OBVIOUS
<1>2. PICK q : q = Block(Upsert(p, found), I \ found)  OBVIOUS
<1>3. q = ApplyWhereFound(p, I)  BY <1>1, <1>2 DEF ApplyWhereFound
<1>4. /\ Effect(p, q, I) /\ q.catalog = p.catalog /\ q.blocked = p.blocked \cup GuidsOf(I \ found)
      /\ GuidsOf(found) \subseteq DOMAIN q.db
      /\ \A g \in DOMAIN q.db : (g \in DOMAIN p.db /\ SameRow(q.db[g], p.db[g])) \/ WrittenBy(q.db[g], g, found)
  BY <1>1, <1>2, SomeWritten
<1>5. ASSUME \A i \in I : i.needs \subseteq DOMAIN p.db
      PROVE  q.blocked = p.blocked /\ GuidsOf(I) \subseteq DOMAIN q.db
  <2>1. found = I  BY <1>1, <1>5 DEF Has
  <2>2. GuidsOf(I \ found) = {}  BY <2>1 DEF GuidsOf
  <2>. QED  BY <1>4, <2>1, <2>2
<1>. QED  BY <1>1, <1>3, <1>4, <1>5

\* Groups without a circle of parents are all resolved.
NoCircle(S) == \A T \in SUBSET S \ {{}} : \E i \in T : \A j \in T : j.guid \notin i.needs

LEMMA GroupsAre ==
  ASSUME NEW p, IsPromote(p), NEW I, Keyed(I)
  PROVE  LET q == ApplyGroups(p, I) IN
         /\ Effect(p, q, I) /\ q.catalog = p.catalog
         /\ (\A i \in I : i.needs \subseteq DOMAIN p.db \cup GuidsOf(I)) /\ NoCircle(I)
              => q.blocked = p.blocked /\ GuidsOf(I) \subseteq DOMAIN q.db
         /\ \A g \in DOMAIN q.db : (g \in DOMAIN p.db /\ SameRow(q.db[g], p.db[g])) \/ WrittenBy(q.db[g], g, I)
<1>1. PICK resolved : resolved =
        {i \in I : \A S \in SUBSET I :
           (\A k \in I : k.needs \subseteq DOMAIN p.db \cup {j.guid : j \in S} => k \in S) => i \in S}
  OBVIOUS
<1>2. PICK q : q = Block(Upsert(p, resolved), I \ resolved)  OBVIOUS
<1>3. q = ApplyGroups(p, I)  BY <1>1, <1>2, Zenon DEF ApplyGroups
<1>4. resolved \subseteq I  BY <1>1
<1>5. /\ Effect(p, q, I) /\ q.catalog = p.catalog /\ q.blocked = p.blocked \cup GuidsOf(I \ resolved)
      /\ GuidsOf(resolved) \subseteq DOMAIN q.db
      /\ \A g \in DOMAIN q.db :
           (g \in DOMAIN p.db /\ SameRow(q.db[g], p.db[g])) \/ WrittenBy(q.db[g], g, resolved)
  BY <1>2, <1>4, SomeWritten
<1>6. \A g : WrittenBy(q.db[g], g, resolved) => WrittenBy(q.db[g], g, I)  BY <1>4 DEF WrittenBy
<1>7. ASSUME \A i \in I : i.needs \subseteq DOMAIN p.db \cup GuidsOf(I), NoCircle(I)
      PROVE  q.blocked = p.blocked /\ GuidsOf(I) \subseteq DOMAIN q.db
  <2>1. ASSUME NEW i \in I, NEW S \in SUBSET I,
               \A k \in I : k.needs \subseteq DOMAIN p.db \cup {j.guid : j \in S} => k \in S
        PROVE  i \in S
    <3>1. SUFFICES ASSUME I \ S # {} PROVE FALSE  OBVIOUS
    <3>2. PICK k \in I \ S : \A j \in I \ S : j.guid \notin k.needs  BY <1>7, <3>1 DEF NoCircle
    <3>3. ASSUME NEW g \in k.needs, g \notin DOMAIN p.db PROVE g \in {j.guid : j \in S}
      <4>1. PICK j \in I : j.guid = g  BY <1>7, <3>3 DEF GuidsOf
      <4>2. j \in S  BY <3>2, <3>3, <4>1
      <4>. QED  BY <4>1, <4>2
    <3>4. k \in S  BY <2>1, <3>3
    <3>. QED  BY <3>2, <3>4
  <2>2. resolved = I  BY <1>1, <2>1
  <2>3. GuidsOf(I \ resolved) = {}  BY <2>2 DEF GuidsOf
  <2>. QED  BY <1>5, <2>2, <2>3
<1>. QED  BY <1>3, <1>5, <1>6, <1>7

\* Two promotes after each other.
Distinct(I, J) == \A i \in I, j \in J : i.guid # j.guid /\ i.guid \notin j.creates

LEMMA EffectsJoin ==
  ASSUME NEW p, NEW q, NEW r, NEW I, NEW J, Effect(p, q, I), Effect(q, r, J), Distinct(I, J)
  PROVE  Effect(p, r, I \cup J)
<1>1. \A i \in I : i.guid \notin GuidsOf(J)  BY DEF Distinct, GuidsOf
<1>2. GuidsOf(I \cup J) = GuidsOf(I) \cup GuidsOf(J)  BY DEF GuidsOf
<1>3. /\ IsPromote(r) /\ p.blocked \subseteq r.blocked /\ r.blocked \subseteq p.blocked \cup GuidsOf(I \cup J)
      /\ DOMAIN p.db \subseteq DOMAIN r.db /\ (RowsTyped(p.db) => RowsTyped(r.db))
  BY <1>2 DEF Effect
<1>4. \A i \in J : i.guid \in r.blocked \/ (i.guid \in DOMAIN r.db /\ r.db[i.guid].ver = i.ver)
  BY DEF Effect
<1>5. ASSUME NEW i \in I, i.guid \notin r.blocked
      PROVE  i.guid \in DOMAIN r.db /\ r.db[i.guid].ver = i.ver
  <2>1. i.guid \in DOMAIN q.db /\ q.db[i.guid].ver = i.ver  BY <1>5 DEF Effect
  <2>2. i.guid \in DOMAIN r.db  BY <2>1 DEF Effect
  <2>3. ~WrittenBy(r.db[i.guid], i.guid, J) /\ ~\E j \in J : i.guid \in j.creates
    BY DEF Distinct, WrittenBy
  <2>4. SameRow(r.db[i.guid], q.db[i.guid])  BY <2>2, <2>3 DEF Effect
  <2>. QED  BY <2>1, <2>2, <2>4 DEF SameRow
<1>6. ASSUME NEW g \in DOMAIN r.db
      PROVE  \/ g \in DOMAIN p.db /\ SameRow(r.db[g], p.db[g])
             \/ WrittenBy(r.db[g], g, I \cup J)
             \/ \E i \in I \cup J : g \in i.creates
  <2>1. CASE WrittenBy(r.db[g], g, J) \/ \E j \in J : g \in j.creates
    BY <2>1 DEF WrittenBy
  <2>2. CASE g \in DOMAIN q.db /\ SameRow(r.db[g], q.db[g])
    <3>1. \/ g \in DOMAIN p.db /\ SameRow(q.db[g], p.db[g])
          \/ WrittenBy(q.db[g], g, I)
          \/ \E i \in I : g \in i.creates
      BY <2>2 DEF Effect
    <3>2. CASE g \in DOMAIN p.db /\ SameRow(q.db[g], p.db[g])  BY <2>2, <3>2 DEF SameRow
    <3>3. CASE WrittenBy(q.db[g], g, I)  BY <2>2, <3>3 DEF SameRow, WrittenBy
    <3>. QED  BY <3>1, <3>2, <3>3
  <2>. QED  BY <2>1, <2>2 DEF Effect
<1>. QED  BY <1>3, <1>4, <1>5, <1>6 DEF Effect

\* The rows of products are what they were.
SameProducts(d, e) ==
  \A g \in DOMAIN d \cup DOMAIN e : TableOf(g) = "product" =>
    g \in DOMAIN d /\ g \in DOMAIN e /\ SameRow(d[g], e[g])

LEMMA TableOfItem ==
  ASSUME NEW i \in Items
  PROVE  TableOf(i.guid) = i.table
<1>1. PICK j \in Items : j.guid = i.guid /\ j = CHOOSE k \in Items : k.guid = i.guid  OBVIOUS
<1>2. TableOf(i.guid) = j.table  BY <1>1 DEF TableOf
<1>. QED  BY <1>1, <1>2, CatalogueAssumption

LEMMA EntityOfTable ==
  ASSUME NEW i \in Items
  PROVE  /\ i.table \in {"group", "product"} <=> i.entity = "nomenclature"
         /\ i.table = "organization" <=> i.entity = "organizations"
         /\ i.table = "warehouse" <=> i.entity = "warehouses"
         /\ i.table = "counterparty" <=> i.entity = "counterparties"
         /\ i.table = "contract" <=> i.entity = "contracts"
         /\ i.table = "agreement" <=> i.entity = "agreements"
         /\ i.table = "productPrice" <=> i.entity = "product-prices"
         /\ i.table = "specialPrice" <=> i.entity = "special-prices"
         /\ i.table = "stock" <=> i.entity = "stock"
<1>1. i.entity \in Entities /\ i.table \in TablesOf[i.entity] \ {"priceType"}  BY CatalogueAssumption
<1>. QED  BY <1>1, Tables, EntitiesAre

LEMMA OtherEffect ==
  ASSUME NEW p, NEW q, NEW I, I \subseteq Items, Effect(p, q, I), \A i \in I : i.table # "product"
  PROVE  SameProducts(p.db, q.db)
<1>1. ASSUME NEW g \in DOMAIN q.db, TableOf(g) = "product"
      PROVE  g \in DOMAIN p.db /\ SameRow(q.db[g], p.db[g])
  <2>1. ~WrittenBy(q.db[g], g, I)  BY <1>1, TableOfItem DEF WrittenBy
  <2>2. \E j \in Items : j.guid = g  BY <1>1 DEF TableOf
  <2>3. ~\E i \in I : g \in i.creates  BY <2>2, CatalogueAssumption
  <2>. QED  BY <2>1, <2>3 DEF Effect
<1>. QED  BY <1>1 DEF SameProducts, Effect, SameRow

LEMMA SameProductsJoin ==
  ASSUME NEW d, NEW e, NEW f, SameProducts(d, e), SameProducts(e, f)
  PROVE  SameProducts(d, f)
BY DEF SameProducts, SameRow

\* What the steps for the entities do.
Groups(I) == {i \in I : i.table = "group"}
CanApply(p, I) ==
  /\ \A i \in I : i.needs \cup i.late \subseteq DOMAIN p.db \cup GuidsOf(Groups(I))
  /\ NoCircle(Groups(I))
Wrote(p, q, I) ==
  q.blocked = p.blocked /\ \A i \in I : i.guid \in DOMAIN q.db /\ i.creates \subseteq DOMAIN q.db

LEMMA NomenclatureIs ==
  ASSUME NEW p, IsPromote(p), NEW I, I \subseteq Items, Keyed(I), \A i \in I : i.entity = "nomenclature"
  PROVE  LET q == applyStagedNomenclature(p, I) IN
         /\ Effect(p, q, I)
         /\ CanApply(p, I) => Wrote(p, q, I)
         /\ \E found \in SUBSET {i \in I : i.table = "product"} :
              /\ q.catalog = RecordChanges(p.catalog, p.db, found)
              /\ \A g \in DOMAIN q.db : TableOf(g) = "product" =>
                   (g \in DOMAIN p.db /\ SameRow(q.db[g], p.db[g])) \/ WrittenBy(q.db[g], g, found)
<1>1. PICK G : G = {i \in I : i.table = "group"}  OBVIOUS
<1>2. PICK P : P = {i \in I : i.table = "product"}  OBVIOUS
<1>3. I = G \cup P /\ G \subseteq Items /\ P \subseteq Items
  BY <1>1, <1>2, EntityOfTable
<1>4. Keyed(G) /\ Keyed(P)  BY <1>3 DEF Keyed
<1>5. Distinct(G, P)  BY <1>1, <1>2, CatalogueAssumption DEF Distinct
<1>6. PICK u : u = ApplyGroups(p, G)  OBVIOUS
<1>7. /\ Effect(p, u, G) /\ u.catalog = p.catalog
      /\ (\A i \in G : i.needs \subseteq DOMAIN p.db \cup GuidsOf(G)) /\ NoCircle(G)
              => u.blocked = p.blocked /\ GuidsOf(G) \subseteq DOMAIN u.db
  BY <1>4, <1>6, GroupsAre
<1>8. IsPromote(u) /\ DOMAIN p.db \subseteq DOMAIN u.db  BY <1>7 DEF Effect
<1>9. PICK v : v = ApplyWhereFound(u, P)  OBVIOUS
<1>10. PICK found : found = {i \in P : Has(u.db, i.needs)}  OBVIOUS
<1>11. /\ Effect(u, v, P) /\ v.catalog = u.catalog
       /\ (\A i \in P : i.needs \subseteq DOMAIN u.db) => v.blocked = u.blocked /\ GuidsOf(P) \subseteq DOMAIN v.db
       /\ \A g \in DOMAIN v.db : (g \in DOMAIN u.db /\ SameRow(v.db[g], u.db[g])) \/ WrittenBy(v.db[g], g, found)
  BY <1>4, <1>8, <1>9, <1>10, WhereFoundIs
<1>12. Effect(p, v, I)  BY <1>3, <1>5, <1>7, <1>11, EffectsJoin
<1>13. PICK c : c = RecordChanges(p.catalog, p.db, found)  OBVIOUS
<1>14. PICK q : q = [v EXCEPT !.catalog = c]  OBVIOUS
<1>15. q = applyStagedNomenclature(p, I)
  BY <1>1, <1>2, <1>6, <1>9, <1>10, <1>13, <1>14, Zenon DEF applyStagedNomenclature
<1>16. IsPromote(q) /\ q.db = v.db /\ q.blocked = v.blocked /\ q.catalog = c
  <2>1. v = [db |-> v.db, catalog |-> v.catalog, blocked |-> v.blocked]
    BY <1>12 DEF Effect, IsPromote
  <2>2. q = [db |-> v.db, catalog |-> c, blocked |-> v.blocked]  BY <1>14, <2>1
  <2>. QED  BY <2>2 DEF IsPromote
<1>17. Effect(p, q, I)  BY <1>12, <1>16 DEF Effect
<1>18. ASSUME CanApply(p, I) PROVE Wrote(p, q, I)
  <2>1. \A i \in I : i.needs \subseteq DOMAIN p.db \cup GuidsOf(G)  BY <1>1, <1>18 DEF CanApply, Groups
  <2>2. u.blocked = p.blocked /\ GuidsOf(G) \subseteq DOMAIN u.db
    BY <1>1, <1>3, <1>7, <1>18, <2>1 DEF CanApply, Groups
  <2>3. v.blocked = p.blocked /\ GuidsOf(P) \subseteq DOMAIN v.db
    BY <1>3, <1>8, <1>11, <2>1, <2>2
  <2>4. \A i \in I : i.guid \in DOMAIN q.db
    <3>1. DOMAIN u.db \subseteq DOMAIN v.db  BY <1>11 DEF Effect
    <3>. QED  BY <1>3, <1>16, <2>2, <2>3, <3>1 DEF GuidsOf
  <2>5. \A i \in I : i.creates = {}
    <3>1. \A i \in I : i.table # "agreement"  BY EntityOfTable
    <3>. QED  BY <3>1, CatalogueAssumption
  <2>. QED  BY <1>16, <2>3, <2>4, <2>5 DEF Wrote
<1>19. ASSUME NEW g \in DOMAIN q.db, TableOf(g) = "product"
       PROVE  (g \in DOMAIN p.db /\ SameRow(q.db[g], p.db[g])) \/ WrittenBy(q.db[g], g, found)
  <2>1. SameProducts(p.db, u.db)  BY <1>1, <1>3, <1>7, OtherEffect
  <2>2. CASE WrittenBy(v.db[g], g, found)  BY <1>16, <2>2
  <2>3. CASE g \in DOMAIN u.db /\ SameRow(v.db[g], u.db[g])
    BY <1>16, <1>19, <2>1, <2>3 DEF SameProducts, SameRow
  <2>. QED  BY <1>11, <1>16, <1>19, <2>2, <2>3
<1>20. found \in SUBSET {i \in I : i.table = "product"}  BY <1>2, <1>10
<1>. QED  BY <1>13, <1>15, <1>16, <1>17, <1>18, <1>19, <1>20

LEMMA AgreementsAre ==
  ASSUME NEW p, IsPromote(p), NEW I, I \subseteq Items, Keyed(I)
  PROVE  LET q == applyStagedAgreements(p, I) IN
         /\ Effect(p, q, I) /\ q.catalog = p.catalog
         /\ (\A i \in I : i.needs \cup i.late \subseteq DOMAIN p.db) => Wrote(p, q, I)
<1>1. PICK early : early = {i \in I : Has(p.db, i.needs)}  OBVIOUS
<1>2. PICK types : types = UNION {i.creates : i \in early}  OBVIOUS
<1>3. PICK d : d = Over([t \in types |-> Row(1, {}, TRUE)], p.db)  OBVIOUS
<1>4. /\ DOMAIN d = types \cup DOMAIN p.db /\ (RowsTyped(p.db) => RowsTyped(d))
      /\ \A g \in DOMAIN p.db \ types : d[g] = p.db[g]
  BY <1>3 DEF Over, RowsTyped, IsRow, Row
<1>5. PICK u : u = [p EXCEPT !.db = d]  OBVIOUS
<1>6. u = [db |-> d, catalog |-> p.catalog, blocked |-> p.blocked]  BY <1>5 DEF IsPromote
<1>7. IsPromote(u) /\ u.db = d /\ u.catalog = p.catalog /\ u.blocked = p.blocked
  BY <1>6 DEF IsPromote
<1>8. PICK found : found = {i \in early : Has(u.db, i.late)}  OBVIOUS
<1>9. PICK q : q = Block(Upsert(u, found), I \ found)  OBVIOUS
<1>10. q = applyStagedAgreements(p, I)
  BY <1>1, <1>2, <1>3, <1>5, <1>8, <1>9 DEF applyStagedAgreements
<1>11. /\ Effect(u, q, I) /\ q.catalog = u.catalog /\ q.blocked = u.blocked \cup GuidsOf(I \ found)
       /\ GuidsOf(found) \subseteq DOMAIN q.db
  <2>1. found \subseteq I  BY <1>1, <1>8
  <2>. QED  BY <1>7, <1>9, <2>1, SomeWritten
<1>12. \A t \in types : \E i \in I : t \in i.creates  BY <1>1, <1>2
<1>13. ASSUME NEW g \in DOMAIN q.db
       PROVE  \/ g \in DOMAIN p.db /\ SameRow(q.db[g], p.db[g])
              \/ WrittenBy(q.db[g], g, I)
              \/ \E i \in I : g \in i.creates
  <2>1. CASE g \in DOMAIN u.db /\ SameRow(q.db[g], u.db[g])
    BY <1>4, <1>7, <1>12, <2>1
  <2>. QED  BY <1>11, <2>1 DEF Effect
<1>14. Effect(p, q, I)  BY <1>4, <1>7, <1>11, <1>13 DEF Effect
<1>15. ASSUME \A i \in I : i.needs \cup i.late \subseteq DOMAIN p.db PROVE Wrote(p, q, I)
  <2>1. early = I  BY <1>1, <1>15 DEF Has
  <2>2. found = I  BY <1>4, <1>7, <1>8, <1>15, <2>1 DEF Has
  <2>3. q.blocked = p.blocked  BY <1>7, <1>11, <2>2 DEF GuidsOf
  <2>4. \A i \in I : i.creates \subseteq DOMAIN q.db
    <3>1. types \subseteq DOMAIN q.db  BY <1>4, <1>7, <1>11 DEF Effect
    <3>. QED  BY <1>2, <2>1, <3>1
  <2>. QED  BY <1>11, <2>2, <2>3, <2>4 DEF Wrote, GuidsOf
<1>. QED  BY <1>7, <1>10, <1>11, <1>14, <1>15

\* An entity without references, or with references only.
LEMMA UpsertEffect ==
  ASSUME NEW p, IsPromote(p), NEW I, Keyed(I)
  PROVE  LET q == Upsert(p, I) IN
         Effect(p, q, I) /\ q.catalog = p.catalog /\ q.blocked = p.blocked /\ GuidsOf(I) \subseteq DOMAIN q.db
<1>1. PICK q : q = Upsert(p, I)  OBVIOUS
<1>2. /\ IsPromote(q) /\ q.catalog = p.catalog /\ q.blocked = p.blocked
      /\ DOMAIN q.db = GuidsOf(I) \cup DOMAIN p.db
      /\ \A i \in I : q.db[i.guid].ver = i.ver /\ q.db[i.guid].active = i.active
      /\ RowsTyped(p.db) => RowsTyped(q.db)
      /\ \A g \in DOMAIN p.db \ GuidsOf(I) : q.db[g] = p.db[g]
  BY <1>1, UpsertIs
<1>3. ASSUME NEW g \in DOMAIN q.db
      PROVE  (g \in DOMAIN p.db /\ SameRow(q.db[g], p.db[g])) \/ WrittenBy(q.db[g], g, I)
  <2>1. CASE g \in GuidsOf(I)
    <3>1. PICK i \in I : i.guid = g  BY <2>1 DEF GuidsOf
    <3>. QED  BY <1>2, <3>1 DEF WrittenBy
  <2>2. CASE g \notin GuidsOf(I)  BY <1>2, <2>2 DEF SameRow
  <2>. QED  BY <2>1, <2>2
<1>4. \A i \in I : i.guid \in DOMAIN q.db  BY <1>2 DEF GuidsOf
<1>5. Effect(p, q, I)  BY <1>2, <1>3, <1>4 DEF Effect
<1>. QED  BY <1>1, <1>2, <1>5

LEMMA EntityIs ==
  ASSUME NEW p, IsPromote(p), NEW e \in Entities,
         NEW I, I \subseteq Items, Keyed(I), \A i \in I : i.entity = e
  PROVE  LET q == ApplyEntity(p, e, I) IN
         /\ Effect(p, q, I)
         /\ CanApply(p, I) => Wrote(p, q, I)
         /\ e # "nomenclature" => q.catalog = p.catalog /\ SameProducts(p.db, q.db)
<1>1. PICK q : q = ApplyEntity(p, e, I)  OBVIOUS
<1>2. CASE e = "nomenclature"
  <2>1. q = applyStagedNomenclature(p, I)  BY <1>1, <1>2 DEF ApplyEntity
  <2>. QED  BY <1>1, <1>2, <2>1, NomenclatureIs
<1>3. CASE e # "nomenclature"
  <2>1. \A i \in I : i.table # "product" /\ i.table # "group"  BY <1>3, EntityOfTable
  <2>2. CanApply(p, I) => \A i \in I : i.needs \cup i.late \subseteq DOMAIN p.db
    <3>1. GuidsOf(Groups(I)) = {}  BY <2>1 DEF Groups, GuidsOf
    <3>. QED  BY <3>1 DEF CanApply
  <2>3. CASE e = "agreements"
    <3>1. q = applyStagedAgreements(p, I)  BY <1>1, <2>3 DEF ApplyEntity
    <3>2. /\ Effect(p, q, I) /\ q.catalog = p.catalog
          /\ (\A i \in I : i.needs \cup i.late \subseteq DOMAIN p.db) => Wrote(p, q, I)
      BY <3>1, AgreementsAre
    <3>3. SameProducts(p.db, q.db)  BY <2>1, <3>2, OtherEffect
    <3>. QED  BY <1>1, <2>2, <3>2, <3>3
  <2>4. CASE e # "agreements"
    <3>1. \A i \in I : i.creates = {}
      <4>1. \A i \in I : i.table # "agreement"  BY <2>4, EntityOfTable
      <4>. QED  BY <4>1, CatalogueAssumption
    <3>2. CASE e \in {"organizations", "warehouses", "counterparties"}
      <4>1. q = Upsert(p, I)
        BY <1>1, <3>2
        DEF ApplyEntity, applyStagedOrganizations, applyStagedWarehouses, applyStagedCounterparties
      <4>2. Effect(p, q, I) /\ q.catalog = p.catalog /\ q.blocked = p.blocked /\ GuidsOf(I) \subseteq DOMAIN q.db
        BY <4>1, UpsertEffect
      <4>3. Wrote(p, q, I)  BY <3>1, <4>2 DEF Wrote, GuidsOf
      <4>4. SameProducts(p.db, q.db)  BY <2>1, <4>2, OtherEffect
      <4>. QED  BY <1>1, <4>2, <4>3, <4>4
    <3>3. CASE e \in {"contracts", "product-prices", "special-prices", "stock"}
      <4>1. q = ApplyWhereFound(p, I)
        BY <1>1, <3>3
        DEF ApplyEntity, applyStagedContracts, applyStagedProductPrices, applyStagedSpecialPrices, applyStagedStock
      <4>2. /\ Effect(p, q, I) /\ q.catalog = p.catalog
            /\ (\A i \in I : i.needs \subseteq DOMAIN p.db) => q.blocked = p.blocked /\ GuidsOf(I) \subseteq DOMAIN q.db
        BY <4>1, WhereFoundIs
      <4>3. CanApply(p, I) => Wrote(p, q, I)  BY <2>2, <3>1, <4>2 DEF Wrote, GuidsOf
      <4>4. SameProducts(p.db, q.db)  BY <2>1, <4>2, OtherEffect
      <4>. QED  BY <1>1, <4>2, <4>3, <4>4
    <3>. QED  BY <1>3, <2>4, <3>2, <3>3, EntitiesAre
  <2>. QED  BY <2>3, <2>4
<1>. QED  BY <1>2, <1>3

\* A promote goes from entity to entity: f[i] is what it has after the i-th.
StepOf(p, s, done, i) ==
  IF RECONCILE_ORDER[i] \in done THEN ApplyEntity(p, RECONCILE_ORDER[i], Staged(s, RECONCILE_ORDER[i])) ELSE p
Steps(f, p, s, done) == f[0] = p /\ \A i \in 1..9 : f[i] = StepOf(f[i - 1], s, done, i)

LEMMA StepsAre ==
  ASSUME NEW p, NEW s, NEW done
  PROVE  \E f : /\ DOMAIN f = 0..9 /\ Steps(f, p, s, done)
                /\ \A E : ApplyAll(p, s, E, done) =
                     IF "counterparties" \in E /\ done = E
                     THEN applyCounterpartyDefaultLinks(f[9], Staged(s, "counterparties")) ELSE f[9]
<1>1. PICK q1 : q1 = StepOf(p, s, done, 1)  OBVIOUS
<1>2. PICK q2 : q2 = StepOf(q1, s, done, 2)  OBVIOUS
<1>3. PICK q3 : q3 = StepOf(q2, s, done, 3)  OBVIOUS
<1>4. PICK q4 : q4 = StepOf(q3, s, done, 4)  OBVIOUS
<1>5. PICK q5 : q5 = StepOf(q4, s, done, 5)  OBVIOUS
<1>6. PICK q6 : q6 = StepOf(q5, s, done, 6)  OBVIOUS
<1>7. PICK q7 : q7 = StepOf(q6, s, done, 7)  OBVIOUS
<1>8. PICK q8 : q8 = StepOf(q7, s, done, 8)  OBVIOUS
<1>9. PICK q9 : q9 = StepOf(q8, s, done, 9)  OBVIOUS
<1>10. PICK f : f = [i \in 0..9 |-> IF i = 0 THEN p ELSE <<q1, q2, q3, q4, q5, q6, q7, q8, q9>>[i]]  OBVIOUS
<1>11. /\ f[0] = p /\ f[1] = q1 /\ f[2] = q2 /\ f[3] = q3 /\ f[4] = q4 /\ f[5] = q5
       /\ f[6] = q6 /\ f[7] = q7 /\ f[8] = q8 /\ f[9] = q9
  BY <1>10
<1>12. ASSUME NEW i \in 1..9 PROVE f[i] = StepOf(f[i - 1], s, done, i)
  <2>1. i = 1 \/ i = 2 \/ i = 3 \/ i = 4 \/ i = 5 \/ i = 6 \/ i = 7 \/ i = 8 \/ i = 9  OBVIOUS
  <2>. QED  BY <1>1, <1>2, <1>3, <1>4, <1>5, <1>6, <1>7, <1>8, <1>9, <1>11, <2>1
<1>13. Len(RECONCILE_ORDER) = 9  BY DEF RECONCILE_ORDER
<1>14. PICK apply : apply = CHOOSE h : h = [i \in 0..Len(RECONCILE_ORDER) |->
          IF i = 0 THEN p
          ELSE IF RECONCILE_ORDER[i] \in done
               THEN ApplyEntity(h[i - 1], RECONCILE_ORDER[i], Staged(s, RECONCILE_ORDER[i]))
               ELSE h[i - 1]]
  OBVIOUS
<1>15. f = [i \in 0..9 |->
          IF i = 0 THEN p
          ELSE IF RECONCILE_ORDER[i] \in done
               THEN ApplyEntity(f[i - 1], RECONCILE_ORDER[i], Staged(s, RECONCILE_ORDER[i]))
               ELSE f[i - 1]]
  <2>1. \A i \in 0..9 : i = 0 \/ i \in 1..9  OBVIOUS
  <2>2. \A i \in 0..9 : f[i] =
          IF i = 0 THEN p
          ELSE IF RECONCILE_ORDER[i] \in done
               THEN ApplyEntity(f[i - 1], RECONCILE_ORDER[i], Staged(s, RECONCILE_ORDER[i]))
               ELSE f[i - 1]
    BY <1>11, <1>12, <2>1 DEF StepOf
  <2>. QED  BY <1>10, <2>2
<1>16. apply = [i \in 0..9 |->
          IF i = 0 THEN p
          ELSE IF RECONCILE_ORDER[i] \in done
               THEN ApplyEntity(apply[i - 1], RECONCILE_ORDER[i], Staged(s, RECONCILE_ORDER[i]))
               ELSE apply[i - 1]]
  BY <1>13, <1>14, <1>15
<1>17. Steps(apply, p, s, done)
  <2>1. apply[0] = p  BY <1>16
  <2>2. ASSUME NEW i \in 1..9 PROVE apply[i] = StepOf(apply[i - 1], s, done, i)
    <3>1. i \in 0..9 /\ i # 0  OBVIOUS
    <3>2. apply[i] =
          IF i = 0 THEN p
          ELSE IF RECONCILE_ORDER[i] \in done
               THEN ApplyEntity(apply[i - 1], RECONCILE_ORDER[i], Staged(s, RECONCILE_ORDER[i]))
               ELSE apply[i - 1]
      BY <1>16, <3>1, Zenon
    <3>. QED  BY <3>1, <3>2, Zenon DEF StepOf
  <2>. QED  BY <2>1, <2>2 DEF Steps
<1>18. ASSUME NEW E
       PROVE  ApplyAll(p, s, E, done) =
                IF "counterparties" \in E /\ done = E
                THEN applyCounterpartyDefaultLinks(apply[9], Staged(s, "counterparties")) ELSE apply[9]
  BY <1>13, <1>14 DEF ApplyAll
<1>19. DOMAIN apply = 0..9  BY <1>16
<1>. QED  BY <1>17, <1>18, <1>19

LEMMA LinksAre ==
  ASSUME NEW p, IsPromote(p), NEW I, Keyed(I), GuidsOf(I) \subseteq DOMAIN p.db
  PROVE  LET q == applyCounterpartyDefaultLinks(p, I) IN
         /\ IsPromote(q) /\ q.catalog = p.catalog /\ DOMAIN q.db = DOMAIN p.db
         /\ q.blocked = p.blocked \cup GuidsOf({i \in I : ~Has(p.db, i.links)})
         /\ RowsTyped(p.db) => RowsTyped(q.db) /\ \A g \in DOMAIN p.db : SameRow(q.db[g], p.db[g])
         /\ RowsTyped(p.db) => \A i \in I : Has(p.db, i.links) => q.db[i.guid].refs = i.links
<1>1. PICK found : found = {i \in I : Has(p.db, i.links)}  OBVIOUS
<1>2. PICK new : new = [g \in {i.guid : i \in found} |->
                          [p.db[g] EXCEPT !.refs = (CHOOSE i \in found : i.guid = g).links]]
  OBVIOUS
<1>3. PICK d : d = Over(new, p.db)  OBVIOUS
<1>4. PICK u : u = [p EXCEPT !.db = d]  OBVIOUS
<1>5. u = [p EXCEPT !.db = Over(new, @)]  BY <1>3, <1>4
<1>6. applyCounterpartyDefaultLinks(p, I) = Block(u, I \ found)
  BY <1>1, <1>2, <1>5, Zenon DEF applyCounterpartyDefaultLinks
<1>7. u = [db |-> d, catalog |-> p.catalog, blocked |-> p.blocked]  BY <1>4 DEF IsPromote
<1>8. IsPromote(u) /\ u.db = d /\ u.catalog = p.catalog /\ u.blocked = p.blocked
  BY <1>7 DEF IsPromote
<1>9. PICK q : q = Block(u, I \ found)  OBVIOUS
<1>10. IsPromote(q) /\ q.db = d /\ q.catalog = p.catalog /\ q.blocked = p.blocked \cup GuidsOf(I \ found)
  BY <1>8, <1>9, BlockIs
<1>11. DOMAIN new = GuidsOf(found)  BY <1>2 DEF GuidsOf
<1>12. GuidsOf(found) \subseteq DOMAIN p.db  BY <1>1 DEF GuidsOf
<1>13. /\ DOMAIN d = DOMAIN p.db
       /\ \A g \in DOMAIN p.db : d[g] = IF g \in GuidsOf(found) THEN new[g] ELSE p.db[g]
  BY <1>3, <1>11, <1>12 DEF Over
<1>14. ASSUME RowsTyped(p.db), NEW i \in found
       PROVE  /\ i.guid \in DOMAIN p.db /\ IsRow(new[i.guid]) /\ SameRow(new[i.guid], p.db[i.guid])
              /\ new[i.guid].refs = i.links
  <2>1. i.guid \in GuidsOf(found) /\ i.guid \in DOMAIN p.db  BY <1>12 DEF GuidsOf
  <2>2. (CHOOSE k \in found : k.guid = i.guid) = i  BY <1>1 DEF Keyed
  <2>3. new[i.guid] = [p.db[i.guid] EXCEPT !.refs = i.links]
    BY <1>2, <1>11, <2>1, <2>2
  <2>4. PICK row : row = p.db[i.guid]  OBVIOUS
  <2>5. row = [ver |-> row.ver, refs |-> row.refs, active |-> row.active]
    BY <1>14, <2>1, <2>4 DEF RowsTyped, IsRow, Row
  <2>6. new[i.guid] = [ver |-> row.ver, refs |-> i.links, active |-> row.active]
    BY <2>3, <2>4, <2>5
  <2>. QED  BY <2>1, <2>4, <2>6 DEF IsRow, Row, SameRow
<1>15. RowsTyped(p.db) => RowsTyped(d) /\ \A g \in DOMAIN p.db : SameRow(d[g], p.db[g])
  <2>1. \A g \in GuidsOf(found) : \E i \in found : i.guid = g  BY DEF GuidsOf
  <2>. QED  BY <1>13, <1>14, <2>1 DEF RowsTyped, SameRow
<1>16. RowsTyped(p.db) => \A i \in found : d[i.guid].refs = i.links
  BY <1>13, <1>14 DEF GuidsOf
<1>17. I \ found = {i \in I : ~Has(p.db, i.links)}  BY <1>1
<1>. QED  BY <1>1, <1>6, <1>9, <1>10, <1>13, <1>15, <1>16, <1>17

\* What is staged are items, each under its guid.
Statuses == {"PENDING", "BLOCKED", "RESOLVED"}
StagesOK ==
  /\ DOMAIN stage = Sessions /\ \A s \in Sessions : IsFiniteSet(DOMAIN stage[s])
  /\ \A s \in Sessions : \A g \in DOMAIN stage[s] :
       stage[s][g] \in [item : Items, status : Statuses] /\ stage[s][g].item.guid = g

\* The image of a finite set.
LEMMA ImageIsFinite ==
  ASSUME NEW S, IsFiniteSet(S), NEW f, DOMAIN f = S, NEW T, T = {f[x] : x \in S}
  PROVE  IsFiniteSet(T)
<1>1. PICK h : h = [x \in S |-> f[x]]  OBVIOUS
<1>2. h \in Surjection(S, T)  BY <1>1 DEF Surjection
<1>. QED  BY <1>2, FS_Surjection

LEMMA StagedAreFinite ==
  ASSUME StagesOK, NEW s \in Sessions, NEW e
  PROVE  IsFiniteSet(Staged(s, e))
<1>1. PICK S : S = {h \in DOMAIN stage[s] : stage[s][h].item.entity = e}  OBVIOUS
<1>2. PICK f : f = [g \in S |-> stage[s][g].item]  OBVIOUS
<1>3. IsFiniteSet(S)  BY <1>1, FS_Subset DEF StagesOK
<1>4. Staged(s, e) = {f[x] : x \in S}  BY <1>1, <1>2 DEF Staged
<1>. QED  BY <1>2, <1>3, <1>4, ImageIsFinite

LEMMA StagedAre ==
  ASSUME StagesOK, NEW s \in Sessions, NEW e
  PROVE  /\ Staged(s, e) \subseteq Items /\ Keyed(Staged(s, e))
         /\ \A i \in Staged(s, e) : i.entity = e /\ i.guid \in DOMAIN stage[s] /\ stage[s][i.guid].item = i
         /\ \A g \in DOMAIN stage[s] : stage[s][g].item.entity = e => stage[s][g].item \in Staged(s, e)
BY DEF StagesOK, Staged, Keyed

\* The order of the entities follows the references between tables.
LEMMA InOrder ==
  ASSUME NEW i \in Items, NEW j \in Items, NEW k \in 1..9, i.entity = RECONCILE_ORDER[k],
         \/ j.table \in NamedTables[i.table]
         \/ i.table = "agreement" /\ j.table \in {"contract", "warehouse"}
         \/ i.table \in {"productPrice", "specialPrice"} /\ j.table = "agreement"
  PROVE  (j.table = "group" /\ j.entity = i.entity) \/ \E m \in 1..(k - 1) : j.entity = RECONCILE_ORDER[m]
<1>1. k = 1 \/ k = 2 \/ k = 3 \/ k = 4 \/ k = 5 \/ k = 6 \/ k = 7 \/ k = 8 \/ k = 9  OBVIOUS
<1>2. /\ RECONCILE_ORDER[1] = "nomenclature" /\ RECONCILE_ORDER[2] = "organizations"
      /\ RECONCILE_ORDER[3] = "warehouses" /\ RECONCILE_ORDER[4] = "counterparties"
      /\ RECONCILE_ORDER[5] = "contracts" /\ RECONCILE_ORDER[6] = "agreements"
      /\ RECONCILE_ORDER[7] = "product-prices" /\ RECONCILE_ORDER[8] = "special-prices"
      /\ RECONCILE_ORDER[9] = "stock"
  BY DEF RECONCILE_ORDER
<1>3. CASE i.table \in {"group", "product"}
  <2>1. j.table = "group"  BY <1>3 DEF NamedTables
  <2>2. j.entity = i.entity  BY <1>3, <2>1, EntityOfTable
  <2>. QED  BY <2>1, <2>2
<1>4. CASE i.table \in {"organization", "warehouse", "counterparty"}
  BY <1>4 DEF NamedTables
<1>5. CASE i.table = "contract"
  <2>1. k = 5  BY <1>1, <1>2, <1>5, EntityOfTable
  <2>2. j.table \in {"counterparty", "organization"}  BY <1>5 DEF NamedTables
  <2>3. j.entity = RECONCILE_ORDER[4] \/ j.entity = RECONCILE_ORDER[2]  BY <1>2, <2>2, EntityOfTable
  <2>. QED  BY <2>1, <2>3
<1>6. CASE i.table = "agreement"
  <2>1. k = 6  BY <1>1, <1>2, <1>6, EntityOfTable
  <2>2. j.table \in {"counterparty", "organization", "contract", "warehouse"}  BY <1>6 DEF NamedTables
  <2>3. \/ j.entity = RECONCILE_ORDER[4] \/ j.entity = RECONCILE_ORDER[2]
        \/ j.entity = RECONCILE_ORDER[5] \/ j.entity = RECONCILE_ORDER[3]
    BY <1>2, <2>2, EntityOfTable
  <2>. QED  BY <2>1, <2>3
<1>7. CASE i.table = "productPrice"
  <2>1. k = 7  BY <1>1, <1>2, <1>7, EntityOfTable
  <2>2. j.table \in {"product", "agreement"}  BY <1>7 DEF NamedTables
  <2>3. j.entity = RECONCILE_ORDER[1] \/ j.entity = RECONCILE_ORDER[6]  BY <1>2, <2>2, EntityOfTable
  <2>. QED  BY <2>1, <2>3
<1>8. CASE i.table = "specialPrice"
  <2>1. k = 8  BY <1>1, <1>2, <1>8, EntityOfTable
  <2>2. j.table \in {"product", "counterparty", "agreement"}  BY <1>8 DEF NamedTables
  <2>3. j.entity = RECONCILE_ORDER[1] \/ j.entity = RECONCILE_ORDER[4] \/ j.entity = RECONCILE_ORDER[6]
    BY <1>2, <2>2, EntityOfTable
  <2>. QED  BY <2>1, <2>3
<1>9. CASE i.table = "stock"
  <2>1. k = 9  BY <1>1, <1>2, <1>9, EntityOfTable
  <2>2. j.table \in {"product", "warehouse", "organization"}  BY <1>9 DEF NamedTables
  <2>3. j.entity = RECONCILE_ORDER[1] \/ j.entity = RECONCILE_ORDER[3] \/ j.entity = RECONCILE_ORDER[2]
    BY <1>2, <2>2, EntityOfTable
  <2>. QED  BY <2>1, <2>3
<1>10. i.table \in {"group", "product", "organization", "warehouse", "counterparty", "contract",
                   "agreement", "productPrice", "specialPrice", "stock"}
  BY <1>1, <1>2, EntityOfTable
<1>. QED  BY <1>3, <1>4, <1>5, <1>6, <1>7, <1>8, <1>9, <1>10

\* While a closed session is promoted, what it has brought so far is there.
Brought(f, k, I) ==
  IsPromote(f[k]) /\
  \A j \in I : (\E m \in 1..k : j.entity = RECONCILE_ORDER[m]) => {j.guid} \cup j.creates \subseteq DOMAIN f[k].db

LEMMA ClosedIsReady ==
  ASSUME StagesOK, NEW s \in Sessions, NEW E,
         NEW mine, mine = {stage[s][g].item : g \in ToStage(s, E)}, IsClosed(mine),
         NEW f, NEW k \in 1..9, RECONCILE_ORDER[k] \in E, Brought(f, k - 1, mine)
  PROVE  CanApply(f[k - 1], Staged(s, RECONCILE_ORDER[k]))
<1>1. PICK e : e = RECONCILE_ORDER[k]  OBVIOUS
<1>2. PICK I : I = Staged(s, e)  OBVIOUS
<1>3. PICK d : d = f[k - 1].db  OBVIOUS
<1>4. /\ I \subseteq Items /\ \A i \in I : i.entity = e /\ i.guid \in DOMAIN stage[s] /\ stage[s][i.guid].item = i
  BY <1>2, StagedAre
<1>5. mine \subseteq Items /\ \A j \in mine : j.entity = e => j \in I
  BY <1>2 DEF StagesOK, ToStage, Staged
<1>6. I \subseteq mine  BY <1>1, <1>4 DEF ToStage
<1>7. ASSUME NEW i \in I, NEW g \in i.needs \cup i.late PROVE g \in DOMAIN d \cup GuidsOf(Groups(I))
  <2>1. PICK j \in mine : g \in {j.guid} \cup j.creates  BY <1>6, <1>7 DEF IsClosed
  <2>2. i \in Items /\ j \in Items /\ i.entity = RECONCILE_ORDER[k]  BY <1>1, <1>4, <1>5, <2>1
  <2>3. \/ j.table \in NamedTables[i.table]
        \/ i.table = "agreement" /\ j.table \in {"contract", "warehouse"}
        \/ i.table \in {"productPrice", "specialPrice"} /\ j.table = "agreement"
    <3>1. CASE g = j.guid /\ g \in i.needs  BY <2>2, <3>1, CatalogueAssumption
    <3>2. CASE g = j.guid /\ g \in i.late  BY <2>2, <3>2, CatalogueAssumption
    <3>3. CASE g \in j.creates
      <4>1. j.table = "agreement" /\ j.creates \cap i.late = {}
        BY <2>2, <3>3, CatalogueAssumption
      <4>2. j.creates \cap i.needs # {}  BY <1>7, <3>3, <4>1
      <4>3. i.table \in {"productPrice", "specialPrice"}  BY <2>2, <4>2, CatalogueAssumption
      <4>. QED  BY <4>1, <4>3
    <3>. QED  BY <1>7, <2>1, <3>1, <3>2, <3>3
  <2>4. CASE \E m \in 1..(k - 1) : j.entity = RECONCILE_ORDER[m]
    BY <1>3, <2>1, <2>4 DEF Brought
  <2>5. CASE j.table = "group" /\ j.entity = i.entity
    <3>1. j \in Groups(I)  BY <1>4, <1>5, <2>5 DEF Groups
    <3>2. j.creates = {}  BY <2>2, <2>5, CatalogueAssumption
    <3>. QED  BY <2>1, <3>1, <3>2 DEF GuidsOf
  <2>. QED  BY <2>2, <2>3, <2>4, <2>5, InOrder
<1>8. NoCircle(Groups(I))
  <2>1. Groups(I) \subseteq {i \in mine : i.table = "group"}  BY <1>6 DEF Groups
  <2>. QED  BY <2>1 DEF NoCircle, IsClosed
<1>. QED  BY <1>1, <1>2, <1>3, <1>7, <1>8 DEF CanApply

LEMMA ClosedIsNotBlocked ==
  ASSUME StagesOK, NEW s \in Sessions, NEW E, E \subseteq Entities,
         IsClosed({stage[s][g].item : g \in ToStage(s, E)}), NEW p, IsPromote(p)
  PROVE  ApplyAll(p, s, E, E).blocked = p.blocked
<1>1. PICK mine : mine = {stage[s][g].item : g \in ToStage(s, E)}  OBVIOUS
<1>2. PICK f : /\ DOMAIN f = 0..9 /\ Steps(f, p, s, E)
               /\ ApplyAll(p, s, E, E) =
                    IF "counterparties" \in E
                    THEN applyCounterpartyDefaultLinks(f[9], Staged(s, "counterparties")) ELSE f[9]
  BY StepsAre
<1>3. \A j \in mine : \E g \in DOMAIN stage[s] : j = stage[s][g].item /\ j \in Items /\ j.entity \in E
  BY <1>1 DEF ToStage, StagesOK
<1>4. ASSUME NEW k \in 1..9, Brought(f, k - 1, mine), f[k - 1].blocked = p.blocked
      PROVE  Brought(f, k, mine) /\ f[k].blocked = p.blocked
  <2>1. f[k] = StepOf(f[k - 1], s, E, k)  BY <1>2 DEF Steps
  <2>2. \A m \in 1..k : m \in 1..(k - 1) \/ m = k  OBVIOUS
  <2>3. CASE RECONCILE_ORDER[k] \notin E
    <3>1. f[k] = f[k - 1]  BY <2>1, <2>3 DEF StepOf
    <3>. QED  BY <1>3, <1>4, <2>2, <2>3, <3>1 DEF Brought
  <2>4. CASE RECONCILE_ORDER[k] \in E
    <3>1. PICK I : I = Staged(s, RECONCILE_ORDER[k])  OBVIOUS
    <3>2. f[k] = ApplyEntity(f[k - 1], RECONCILE_ORDER[k], I)  BY <2>1, <2>4, <3>1 DEF StepOf
    <3>3. CanApply(f[k - 1], I)  BY <1>1, <1>4, <2>4, <3>1, ClosedIsReady
    <3>4. I \subseteq Items /\ Keyed(I) /\ \A i \in I : i.entity = RECONCILE_ORDER[k]
      BY <3>1, StagedAre
    <3>5. Effect(f[k - 1], f[k], I) /\ Wrote(f[k - 1], f[k], I)
      BY <1>4, <2>4, <3>2, <3>3, <3>4, EntityIs DEF Brought
    <3>6. \A j \in mine : j.entity = RECONCILE_ORDER[k] => j \in I
      BY <1>3, <3>1, StagedAre
    <3>7. \A j \in I : {j.guid} \cup j.creates \subseteq DOMAIN f[k].db  BY <3>5 DEF Wrote
    <3>8. IsPromote(f[k]) /\ DOMAIN f[k - 1].db \subseteq DOMAIN f[k].db  BY <3>5 DEF Effect
    <3>9. Brought(f, k, mine)  BY <1>4, <2>2, <3>6, <3>7, <3>8 DEF Brought
    <3>. QED  BY <1>4, <3>5, <3>9 DEF Wrote
  <2>. QED  BY <2>3, <2>4
<1>5. Brought(f, 0, mine) /\ f[0].blocked = p.blocked  BY <1>2 DEF Steps, Brought
<1>6. Brought(f, 3, mine) /\ f[3].blocked = p.blocked
  <2>1. Brought(f, 1, mine) /\ f[1].blocked = p.blocked  BY <1>4, <1>5
  <2>2. Brought(f, 2, mine) /\ f[2].blocked = p.blocked  BY <1>4, <2>1
  <2>. QED  BY <1>4, <2>2
<1>7. Brought(f, 6, mine) /\ f[6].blocked = p.blocked
  <2>1. Brought(f, 4, mine) /\ f[4].blocked = p.blocked  BY <1>4, <1>6
  <2>2. Brought(f, 5, mine) /\ f[5].blocked = p.blocked  BY <1>4, <2>1
  <2>. QED  BY <1>4, <2>2
<1>8. Brought(f, 9, mine) /\ f[9].blocked = p.blocked
  <2>1. Brought(f, 7, mine) /\ f[7].blocked = p.blocked  BY <1>4, <1>7
  <2>2. Brought(f, 8, mine) /\ f[8].blocked = p.blocked  BY <1>4, <2>1
  <2>. QED  BY <1>4, <2>2
<1>9. \A j \in mine : {j.guid} \cup j.creates \subseteq DOMAIN f[9].db
  <2>1. \A e \in Entities : \E m \in 1..9 : e = RECONCILE_ORDER[m]
    BY DEF Entities, RECONCILE_ORDER
  <2>. QED  BY <1>3, <1>8, <2>1 DEF Brought
<1>10. CASE "counterparties" \in E
  <2>1. PICK I : I = Staged(s, "counterparties")  OBVIOUS
  <2>2. I \subseteq mine /\ Keyed(I)
    <3>1. \A i \in I : i.entity = "counterparties" /\ i.guid \in DOMAIN stage[s] /\ stage[s][i.guid].item = i
      BY <2>1, StagedAre
    <3>2. Keyed(I)  BY <2>1, StagedAre
    <3>. QED  BY <1>1, <1>10, <3>1, <3>2 DEF ToStage
  <2>3. GuidsOf(I) \subseteq DOMAIN f[9].db  BY <1>9, <2>2 DEF GuidsOf
  <2>4. \A i \in I : i.links \subseteq DOMAIN f[9].db
    <3>1. \A i \in mine : i.links \subseteq UNION {{j.guid} \cup j.creates : j \in mine}
      BY <1>1 DEF IsClosed
    <3>2. UNION {{j.guid} \cup j.creates : j \in mine} \subseteq DOMAIN f[9].db  BY <1>9
    <3>. QED  BY <2>2, <3>1, <3>2
  <2>5. GuidsOf({i \in I : ~Has(f[9].db, i.links)}) = {}  BY <2>4 DEF GuidsOf, Has
  <2>6. applyCounterpartyDefaultLinks(f[9], I).blocked = f[9].blocked
    <3>1. PICK u : u = f[9]  OBVIOUS
    <3>2. PICK q : q = applyCounterpartyDefaultLinks(u, I)  OBVIOUS
    <3>3. IsPromote(u) /\ GuidsOf(I) \subseteq DOMAIN u.db  BY <1>8, <2>3, <3>1 DEF Brought
    <3>4. q.blocked = u.blocked \cup GuidsOf({i \in I : ~Has(u.db, i.links)})
      BY <2>2, <3>2, <3>3, LinksAre
    <3>. QED  BY <2>5, <3>1, <3>2, <3>4
  <2>. QED  BY <1>2, <1>8, <1>10, <2>1, <2>6
<1>11. CASE "counterparties" \notin E  BY <1>2, <1>8, <1>11
<1>. QED  BY <1>10, <1>11

RequestOK(x) ==
  /\ x.pc = "stage" => x.s \in Sessions /\ x.batch \in Batches
  /\ x.pc = "promote" => x.s \in Sessions /\ x.entities \subseteq Entities
  /\ x.pc = "settle" => x.s \in Sessions
SyncTypes == StagesOK /\ DOMAIN request = Requests /\ \A r \in Requests : RequestOK(request[r])

\* A step of one request.
LEMMA OneRequest ==
  ASSUME SyncTypes, NEW r \in Requests, NEW x, RequestOK(x), request' = [request EXCEPT ![r] = x], StagesOK'
  PROVE  SyncTypes'
BY DEF SyncTypes

LEMMA IdleIsOK == RequestOK(Idle)
BY DEF Idle, RequestOK

LEMMA StageBatchTypes ==
  ASSUME SyncTypes, NEW r \in Requests, NEW e, StageBatch(r, e)
  PROVE  SyncTypes'
<1>1. PICK x : x = request[r]  OBVIOUS
<1>2. x.pc = "stage" /\ x.s \in Sessions /\ x.batch \in Batches /\ x.batch.items \subseteq Items
  BY <1>1, CatalogueAssumption DEF StageBatch, SyncTypes, RequestOK
<1>3. PICK rows : rows = [g \in {i.guid : i \in x.batch.items} |->
          [item |-> CHOOSE i \in x.batch.items : i.guid = g, status |-> "PENDING"]]
  OBVIOUS
<1>4. stage' = [stage EXCEPT ![x.s] = Over(rows, @)]
  BY <1>1, <1>3, Zenon DEF StageBatch
<1>5. \A g \in DOMAIN rows : rows[g] \in [item : Items, status : Statuses] /\ rows[g].item.guid = g
  BY <1>2, <1>3 DEF Statuses
<1>6. StagesOK'
  <2>1. PICK old : old = stage[x.s]  OBVIOUS
  <2>2. PICK new : new = Over(rows, old)  OBVIOUS
  <2>3. \A g \in DOMAIN new : new[g] \in [item : Items, status : Statuses] /\ new[g].item.guid = g
    BY <1>2, <1>5, <2>1, <2>2 DEF Over, SyncTypes, StagesOK
  <2>4. stage' = [stage EXCEPT ![x.s] = new]  BY <1>4, <2>1, <2>2
  <2>5. IsFiniteSet(DOMAIN rows)
    <3>1. PICK f : f = [i \in x.batch.items |-> i.guid]  OBVIOUS
    <3>2. DOMAIN rows = {f[i] : i \in x.batch.items}  BY <1>3, <3>1
    <3>3. IsFiniteSet(x.batch.items)  BY <1>2, CatalogueAssumption
    <3>4. PICK T : T = {f[i] : i \in x.batch.items}  OBVIOUS
    <3>5. DOMAIN f = x.batch.items  BY <3>1
    <3>6. IsFiniteSet(T)  BY <3>3, <3>4, <3>5, ImageIsFinite
    <3>. QED  BY <3>2, <3>4, <3>6
  <2>6. IsFiniteSet(DOMAIN new)
    <3>1. DOMAIN new = DOMAIN rows \cup DOMAIN old  BY <2>2 DEF Over
    <3>2. IsFiniteSet(DOMAIN old)  BY <1>2, <2>1 DEF SyncTypes, StagesOK
    <3>. QED  BY <2>5, <3>1, <3>2, FS_Union
  <2>. QED  BY <2>3, <2>4, <2>6 DEF SyncTypes, StagesOK
<1>7. PICK y : y = IF x.implicit THEN [pc |-> "complete", s |-> x.s] ELSE Idle  OBVIOUS
<1>8. RequestOK(y)  BY <1>7, IdleIsOK DEF RequestOK
<1>9. request' = [request EXCEPT ![r] = y]  BY <1>1, <1>7 DEF StageBatch
<1>. QED  BY <1>6, <1>8, <1>9, OneRequest

LEMMA SettleTypes ==
  ASSUME SyncTypes, NEW r \in Requests, Settle(r)
  PROVE  SyncTypes'
<1>1. PICK x : x = request[r]  OBVIOUS
<1>2. x.pc = "settle" /\ x.s \in Sessions  BY <1>1 DEF Settle, SyncTypes, RequestOK
<1>3. PICK old : old = stage[x.s]  OBVIOUS
<1>5. PICK new : new = [g \in DOMAIN old |-> [item |-> old[g].item, status |->
          CASE g \in x.blocked -> "BLOCKED" [] g \in x.resolved -> "RESOLVED" [] OTHER -> old[g].status]]
  OBVIOUS
<1>6. stage' = [stage EXCEPT ![x.s] = new]
  BY <1>1, <1>3, <1>5, Zenon DEF Settle
<1>7. ASSUME NEW g \in DOMAIN old
      PROVE  new[g] \in [item : Items, status : Statuses] /\ new[g].item.guid = g
  <2>1. old[g] \in [item : Items, status : Statuses] /\ old[g].item.guid = g
    BY <1>2, <1>3 DEF SyncTypes, StagesOK
  <2>2. PICK v : v = CASE g \in x.blocked -> "BLOCKED" [] g \in x.resolved -> "RESOLVED" [] OTHER -> old[g].status
    OBVIOUS
  <2>3. v \in Statuses  BY <2>1, <2>2 DEF Statuses
  <2>4. new[g] = [item |-> old[g].item, status |-> v]  BY <1>5, <2>2
  <2>. QED  BY <2>1, <2>3, <2>4
<1>8. DOMAIN new = DOMAIN old  BY <1>5
<1>9. StagesOK'
  <2>1. DOMAIN stage' = Sessions /\ \A s \in Sessions : stage'[s] = IF s = x.s THEN new ELSE stage[s]
    BY <1>6 DEF SyncTypes, StagesOK
  <2>2. IsFiniteSet(DOMAIN new)  BY <1>2, <1>3, <1>8 DEF SyncTypes, StagesOK
  <2>. QED  BY <1>7, <1>8, <2>1, <2>2 DEF SyncTypes, StagesOK
<1>10. request' = [request EXCEPT ![r] = Idle]  BY DEF Settle
<1>. QED  BY <1>9, <1>10, IdleIsOK, OneRequest

LEMMA SyncTypesStep == SyncTypes /\ [FeedNext]_<<sync, feed>> => SyncTypes'
<1>1. SUFFICES ASSUME SyncTypes, [FeedNext]_<<sync, feed>> PROVE SyncTypes'  OBVIOUS
<1>. USE <1>1
<1>2. ASSUME UNCHANGED <<stage, request>> PROVE SyncTypes'
  BY <1>2 DEF SyncTypes, StagesOK
<1>3. ASSUME stage' = stage PROVE StagesOK'  BY <1>3 DEF SyncTypes, StagesOK
<1>4. ASSUME NEW s \in Sessions, NEW replace, NEW selected, startOnecSyncSession(s, replace, selected)
      PROVE  SyncTypes'
  BY <1>2, <1>4 DEF startOnecSyncSession
<1>5. ASSUME NEW r \in Requests, NEW s \in Sessions, NEW b \in Batches, TouchSession(r, s, b) \/ ImplicitSession(r, s, b)
      PROVE  SyncTypes'
  <2>1. PICK implicit : request' = [request EXCEPT ![r] = [pc |-> "stage", s |-> s, batch |-> b, implicit |-> implicit]]
    BY <1>5 DEF TouchSession, ImplicitSession, Begin
  <2>2. RequestOK([pc |-> "stage", s |-> s, batch |-> b, implicit |-> implicit])  BY DEF RequestOK
  <2>3. stage' = stage  BY <1>5 DEF TouchSession, ImplicitSession
  <2>. QED  BY <1>3, <2>1, <2>2, <2>3, OneRequest
<1>6. ASSUME NEW r \in Requests,
             \/ stageNomenclatureBatch(r) \/ stageWarehousesBatch(r) \/ stageOrganizationsBatch(r)
             \/ stageCounterpartiesBatch(r) \/ stageContractsBatch(r) \/ stageAgreementsBatch(r)
             \/ stageProductPricesBatch(r) \/ stageSpecialPricesBatch(r) \/ stageStockBatch(r)
      PROVE  SyncTypes'
  <2>1. \E e \in Entities : StageBatch(r, e)
    BY <1>6, EntitiesAre
    DEF stageNomenclatureBatch, stageWarehousesBatch, stageOrganizationsBatch, stageCounterpartiesBatch,
        stageContractsBatch, stageAgreementsBatch, stageProductPricesBatch, stageSpecialPricesBatch, stageStockBatch
  <2>. QED  BY <2>1, StageBatchTypes
<1>7. ASSUME NEW r \in Requests, NEW s \in Sessions, StartCompletion(r, s) PROVE SyncTypes'
  <2>1. PICK y : y = [pc |-> "promote", s |-> s, replace |-> session[s].replace,
                      entities |-> ToPromote(session[s].selected)]
    OBVIOUS
  <2>2. RequestOK(y)  BY <2>1 DEF RequestOK, ToPromote
  <2>3. request' = [request EXCEPT ![r] = y] /\ stage' = stage  BY <1>7, <2>1 DEF StartCompletion
  <2>. QED  BY <1>3, <2>2, <2>3, OneRequest
<1>8. ASSUME NEW r \in Requests, NEW n, Promote(r) \/ PromoteExpires(r, n) PROVE SyncTypes'
  <2>1. request[r].s \in Sessions  BY <1>8 DEF Promote, PromoteExpires, SyncTypes, RequestOK
  <2>2. PICK resolved, blocked, notes : request' = [request EXCEPT ![r] = Settling(request[r], resolved, blocked, notes)]
    <3>1. CASE Promote(r)
      <4>1. PICK p : p = PromoteTo(request[r], request[r].entities)  OBVIOUS
      <4>2. PICK applied : applied = (~Held(request[r]) /\ ~Refused(request[r], p))  OBVIOUS
      <4>3. request' = [request EXCEPT ![r] =
             IF Held(request[r]) THEN Settling(request[r], {}, {}, TRUE)
             ELSE Settling(request[r], ToStage(request[r].s, request[r].entities) \ p.blocked, p.blocked, ~applied)]
        BY <3>1, <4>1, <4>2, Zenon DEF Promote
      <4>. QED  BY <4>3
    <3>2. CASE PromoteExpires(r, n)  BY <3>2, Zenon DEF PromoteExpires
    <3>. QED  BY <1>8, <3>1, <3>2
  <2>3. RequestOK(Settling(request[r], resolved, blocked, notes))  BY <2>1 DEF RequestOK, Settling
  <2>4. stage' = stage  BY <1>8 DEF Promote, PromoteExpires
  <2>. QED  BY <1>3, <2>2, <2>3, <2>4, OneRequest
<1>9. ASSUME NEW r \in Requests, Settle(r) PROVE SyncTypes'  BY <1>9, SettleTypes
<1>10. ASSUME NEW e \in Entities, clearOnecEntity(e) PROVE SyncTypes'
  BY <1>2, <1>10 DEF clearOnecEntity
<1>11. CASE SyncCrash
  <2>1. request' = [r \in Requests |-> Idle] /\ stage' = stage  BY <1>11 DEF SyncCrash
  <2>. QED  BY <1>3, <2>1, IdleIsOK DEF SyncTypes
<1>12. CASE SyncNext
  BY <1>4, <1>5, <1>6, <1>7, <1>8, <1>9, <1>10, <1>11, <1>12 DEF SyncNext
<1>13. ASSUME NEW kind, ReadState(kind) PROVE SyncTypes'
  BY <1>2, <1>13 DEF ReadState, sync
<1>14. CASE getCatalogSnapshot \/ getCatalogChanges
  BY <1>2, <1>14 DEF getCatalogSnapshot, getCatalogChanges, sync
<1>15. ASSUME NEW n, pruneCatalogChanges(n) PROVE SyncTypes'  BY <1>2, <1>15 DEF pruneCatalogChanges
<1>16. CASE updateMinAvailableRevision  BY <1>2, <1>16 DEF updateMinAvailableRevision
<1>17. CASE UNCHANGED <<sync, feed>>  BY <1>2, <1>17 DEF sync
<1>. QED  BY <1>12, <1>13, <1>14, <1>15, <1>16, <1>17 DEF FeedNext

LEMMA SyncTypesInit == FeedInit => SyncTypes
BY IdleIsOK, FS_EmptySet DEF FeedInit, SyncInit, SyncTypes, StagesOK

LEMMA SyncTypesImply == SyncTypes => ClosedSessionIsNotBlocked
<1>1. SUFFICES ASSUME SyncTypes, NEW r \in Requests, request[r].pc = "promote",
                      IsClosed({stage[request[r].s][g].item : g \in ToStage(request[r].s, request[r].entities)})
               PROVE  PromoteTo(request[r], request[r].entities).blocked = {}
  BY DEF ClosedSessionIsNotBlocked
<1>2. PICK x : x = request[r]  OBVIOUS
<1>3. StagesOK /\ x.s \in Sessions /\ x.entities \subseteq Entities  BY <1>1, <1>2 DEF SyncTypes, RequestOK
<1>4. PICK d, c : PromoteTo(x, x.entities) = ApplyAll([db |-> d, catalog |-> c, blocked |-> {}], x.s, x.entities, x.entities)
  BY DEF PromoteTo
<1>5. PICK p : p = [db |-> d, catalog |-> c, blocked |-> {}]  OBVIOUS
<1>6. IsPromote(p) /\ p.blocked = {}  BY <1>5 DEF IsPromote
<1>7. ApplyAll(p, x.s, x.entities, x.entities).blocked = p.blocked
  BY <1>1, <1>2, <1>3, <1>6, ClosedIsNotBlocked
<1>. QED  BY <1>2, <1>4, <1>5, <1>6, <1>7

\* A session whose items name only rows it brings itself is never blocked, for any items and
\* batches, whatever was in the catalogue, what the session replaces and which requests overlap
\* (completeOnecSyncSession, RECONCILE_ORDER in onec.sync.ts).
THEOREM ClosedSessionsPass == FeedSpec => []ClosedSessionIsNotBlocked
BY SyncTypesInit, SyncTypesStep, SyncTypesImply, PTL DEF FeedSpec

-----------------------------------------------------------------------------
(* What a client of the catalogue may rely on.                               *)

Products == {i.guid : i \in {j \in Items : j.table = "product"}}

IsChange(x) == x = [revision |-> x.revision, guid |-> x.guid] /\ x.revision \in Nat /\ x.guid \in Products
CatalogOK(c) ==
  /\ c = [epoch |-> c.epoch, revision |-> c.revision, min |-> c.min, changes |-> c.changes, next |-> c.next]
  /\ c.epoch \in Nat /\ c.revision \in Nat /\ c.min \in Nat /\ c.next \in Nat
  /\ (\E T : c.changes \in Seq(T)) /\ \A n \in DOMAIN c.changes : IsChange(c.changes[n])
  /\ c.min =< c.revision /\ c.revision < c.next
  /\ \A n \in DOMAIN c.changes : c.min =< c.changes[n].revision /\ c.changes[n].revision =< c.revision
  /\ \A m, n \in DOMAIN c.changes : m < n => c.changes[m].revision < c.changes[n].revision

\* The changes of c and newer ones.
Grown(c, q) ==
  /\ CatalogOK(q) /\ q.epoch = c.epoch /\ q.min = c.min /\ c.revision =< q.revision
  /\ DOMAIN c.changes \subseteq DOMAIN q.changes
  /\ \A n \in DOMAIN c.changes : q.changes[n] = c.changes[n]
  /\ \A n \in DOMAIN q.changes \ DOMAIN c.changes : c.revision < q.changes[n].revision
Announced(q, g, after) == \E n \in DOMAIN q.changes : q.changes[n].guid = g /\ after < q.changes[n].revision

LEMMA OrderExists ==
  ASSUME NEW S, IsFiniteSet(S)
  PROVE  /\ Cardinality(S) \in Nat
         /\ \E h \in [1..Cardinality(S) -> GuidsOf(S)] : \A i \in S : \E k \in 1..Cardinality(S) : h[k] = i.guid
<1>. DEFINE n == Cardinality(S)
<1>1. n \in Nat /\ \E b : b \in Bijection(1..n, S)  BY FS_CardinalityType DEF ExistsBijection
<1>2. PICK b : b \in Bijection(1..n, S)  BY <1>1
<1>3. b \in [1..n -> S] /\ \A x \in S : \E k \in 1..n : b[k] = x  BY <1>2 DEF Bijection, Surjection
<1>4. PICK h : h = [k \in 1..n |-> b[k].guid]  OBVIOUS
<1>5. h \in [1..n -> GuidsOf(S)] /\ \A i \in S : \E k \in 1..n : h[k] = i.guid  BY <1>3, <1>4 DEF GuidsOf
<1>. QED  BY <1>1, <1>5

Continues(m, all, old, base, n, order) ==
  /\ m \in Nat /\ all = old \o [x \in 1..n |-> [revision |-> base + x - 1, guid |-> order[x]]]
  /\ DOMAIN old = 1..m /\ DOMAIN all = 1..(m + n) /\ \E T : all \in Seq(T)
  /\ \A k \in 1..m : all[k] = old[k]
  /\ \A k \in 1..(m + n) : k > m =>
       IsChange(all[k]) /\ all[k].revision = base + (k - m) - 1 /\ all[k].guid = order[k - m]

LEMMA Appended ==
  ASSUME NEW base \in Nat, NEW n \in Nat, NEW order \in [1..n -> Products], NEW old,
         \A k \in DOMAIN old : IsChange(old[k]), \E T : old \in Seq(T)
  PROVE  \E m, all : Continues(m, all, old, base, n, order)
<1>1. PICK new : new = [x \in 1..n |-> [revision |-> base + x - 1, guid |-> order[x]]]  OBVIOUS
<1>2. PICK R : old \in Seq(R)  OBVIOUS
<1>3. PICK T : T = R \cup {new[k] : k \in 1..n}  OBVIOUS
<1>4. new \in [1..n -> T]  BY <1>1, <1>3
<1>5. new \in Seq(T) /\ Len(new) = n  BY <1>4
<1>6. old \in Seq(T)
  <2>1. R \subseteq T  BY <1>3
  <2>2. old \in [1..Len(old) -> R] /\ Len(old) \in Nat  BY <1>2
  <2>3. old \in [1..Len(old) -> T]  BY <2>1, <2>2
  <2>. QED  BY <2>2, <2>3
<1>7. PICK m \in Nat : m = Len(old)  BY <1>6
<1>8. PICK all : all = old \o new  OBVIOUS
<1>9. all \in Seq(T) /\ Len(all) = m + n
  <2>1. all \in Seq(T)  BY <1>5, <1>6, <1>8
  <2>2. Len(old \o new) = Len(old) + Len(new)  BY <1>5, <1>6
  <2>. QED  BY <1>5, <1>7, <1>8, <2>1, <2>2
<1>10. DOMAIN old = 1..m  BY <1>6, <1>7
<1>11. DOMAIN all = 1..(m + n)  BY <1>9
<1>12. \A k \in 1..m : all[k] = old[k]  BY <1>5, <1>6, <1>7, <1>8
<1>13. ASSUME NEW k \in 1..(m + n), k > m
       PROVE  IsChange(all[k]) /\ all[k].revision = base + (k - m) - 1 /\ all[k].guid = order[k - m]
  <2>1. PICK x \in 1..n : x = k - m  BY <1>13
  <2>2. all[k] = new[x]  BY <1>5, <1>6, <1>7, <1>8, <1>13, <2>1
  <2>3. new[x] = [revision |-> base + x - 1, guid |-> order[x]]  BY <1>1
  <2>4. base + x - 1 \in Nat /\ order[x] \in Products  BY <2>1
  <2>. QED  BY <2>1, <2>2, <2>3, <2>4 DEF IsChange
<1>. QED  BY <1>1, <1>7, <1>8, <1>9, <1>10, <1>11, <1>12, <1>13 DEF Continues

LEMMA RevisionsGrow ==
  ASSUME NEW m \in Nat, NEW n \in Nat \ {0}, NEW low \in Nat, NEW high \in Nat, NEW base \in Nat,
         low =< high, high < base, NEW rev,
         \A k \in 1..m : rev[k] \in Nat /\ low =< rev[k] /\ rev[k] =< high,
         \A k, l \in 1..m : k < l => rev[k] < rev[l],
         \A k \in 1..(m + n) : k > m => rev[k] = base + (k - m) - 1
  PROVE  /\ base + n - 1 \in Nat /\ base + n \in Nat /\ low =< base + n - 1 /\ base + n - 1 < base + n
         /\ high =< base + n - 1
         /\ \A k \in 1..(m + n) :
              /\ low =< rev[k] /\ rev[k] =< base + n - 1 /\ (k > m => high < rev[k])
              /\ \A l \in 1..(m + n) : k < l => rev[k] < rev[l]
<1>1. ASSUME NEW k \in 1..(m + n)
      PROVE  rev[k] \in Nat /\ low =< rev[k] /\ rev[k] =< base + n - 1 /\ (k > m => high < rev[k]) /\ (k =< m => rev[k] =< high)
  <2>1. CASE k \in 1..m
    <3>1. PICK e \in Nat : e = rev[k] /\ low =< e /\ e =< high  BY <2>1
    <3>. QED  BY <2>1, <3>1
  <2>2. CASE k > m
    <3>1. PICK e \in Nat : e = rev[k] /\ e = base + (k - m) - 1
      <4>1. base + (k - m) - 1 \in Nat  BY <2>2
      <4>. QED  BY <2>2, <4>1
    <3>. QED  BY <2>2, <3>1
  <2>. QED  BY <2>1, <2>2
<1>2. ASSUME NEW k \in 1..(m + n), NEW l \in 1..(m + n), k < l PROVE rev[k] < rev[l]
  <2>1. PICK e \in Nat, h \in Nat : e = rev[k] /\ h = rev[l]  BY <1>1
  <2>2. CASE l =< m
    <3>1. k \in 1..m /\ l \in 1..m  BY <1>2, <2>2
    <3>. QED  BY <1>2, <3>1
  <2>3. CASE k =< m /\ l > m
    <3>1. e =< high /\ high < h  BY <1>1, <2>1, <2>3
    <3>. QED  BY <2>1, <3>1
  <2>4. CASE k > m
    <3>1. e = base + (k - m) - 1 /\ h = base + (l - m) - 1
      BY <1>2, <2>1, <2>4
    <3>. QED  BY <1>2, <2>1, <3>1
  <2>. QED  BY <2>2, <2>3, <2>4
<1>3. base + n - 1 \in Nat /\ base + n \in Nat /\ low =< base + n - 1 /\ base + n - 1 < base + n /\ high =< base + n - 1
  OBVIOUS
<1>. QED  BY <1>1, <1>2, <1>3

LEMMA RecordChangesAre ==
  ASSUME NEW c, CatalogOK(c), NEW d, NEW I, IsFiniteSet(I), I \subseteq {i \in Items : i.table = "product"}
  PROVE  LET q == RecordChanges(c, d, I) IN
         /\ Grown(c, q)
         /\ \A i \in I : i.guid \notin DOMAIN d \/ d[i.guid].ver # i.ver => Announced(q, i.guid, c.revision)
<1>1. PICK S : S = {i \in I : i.guid \notin DOMAIN d \/ d[i.guid].ver # i.ver}  OBVIOUS
<1>2. IsFiniteSet(S)  BY <1>1, FS_Subset
<1>3. GuidsOf(S) \subseteq Products  BY <1>1 DEF Products, GuidsOf
<1>4. PICK n \in Nat : n = Cardinality(S)  BY <1>2, OrderExists
<1>5. PICK order : order = CHOOSE h \in [1..n -> GuidsOf(S)] : \A i \in S : \E k \in 1..n : h[k] = i.guid  OBVIOUS
<1>6. order \in [1..n -> Products] /\ \A i \in S : \E k \in 1..n : order[k] = i.guid
  <2>1. \E h \in [1..n -> GuidsOf(S)] : \A i \in S : \E k \in 1..n : h[k] = i.guid
    BY <1>2, <1>4, OrderExists
  <2>2. order \in [1..n -> GuidsOf(S)] /\ \A i \in S : \E k \in 1..n : order[k] = i.guid
    BY <1>5, <2>1, Zenon
  <2>. QED  BY <1>3, <2>2
<1>7. PICK q : q = RecordChanges(c, d, I)  OBVIOUS
<1>8. CASE n = 0
  <2>1. q = c  BY <1>1, <1>4, <1>7, <1>8 DEF RecordChanges
  <2>2. S = {}  BY <1>2, <1>4, <1>8, FS_EmptySet
  <2>3. Grown(c, q)  BY <2>1 DEF Grown, CatalogOK
  <2>. QED  BY <1>1, <1>7, <2>2, <2>3
<1>9. CASE n # 0
  <2>1. /\ c.epoch \in Nat /\ c.revision \in Nat /\ c.min \in Nat /\ c.next \in Nat /\ c.min =< c.revision /\ c.revision < c.next
        /\ (\E T : c.changes \in Seq(T)) /\ \A k \in DOMAIN c.changes : IsChange(c.changes[k])
        /\ \A k \in DOMAIN c.changes : c.min =< c.changes[k].revision /\ c.changes[k].revision =< c.revision
        /\ \A k, l \in DOMAIN c.changes : k < l => c.changes[k].revision < c.changes[l].revision
    BY DEF CatalogOK
  <2>20. PICK m, all : Continues(m, all, c.changes, c.next, n, order)
    <3>1. PICK base, old : base \in Nat /\ base = c.next /\ old = c.changes  BY <2>1
    <3>2. (\E T : old \in Seq(T)) /\ \A k \in DOMAIN old : IsChange(old[k])  BY <2>1, <3>1
    <3>3. \E m, all : Continues(m, all, old, base, n, order)
      BY <1>6, <3>1, <3>2, Appended
    <3>. QED  BY <3>1, <3>3
  <2>2. /\ m \in Nat /\ all = c.changes \o [x \in 1..n |-> [revision |-> c.next + x - 1, guid |-> order[x]]]
        /\ DOMAIN c.changes = 1..m /\ DOMAIN all = 1..(m + n) /\ \E T : all \in Seq(T)
        /\ \A k \in 1..m : all[k] = c.changes[k]
        /\ \A k \in 1..(m + n) : k > m =>
                IsChange(all[k]) /\ all[k].revision = c.next + (k - m) - 1 /\ all[k].guid = order[k - m]
    BY <2>20 DEF Continues
  <2>21. \A k \in 1..m : all[k] = c.changes[k]  BY <2>20, Zenon DEF Continues
  <2>22. \A k \in 1..(m + n) : k > m => all[k].revision = c.next + (k - m) - 1
    BY <2>20, Zenon DEF Continues
  <2>3. q = [c EXCEPT !.next = @ + n, !.revision = c.next + n - 1, !.changes = all]
    <3>1. q = [c EXCEPT !.next = @ + n, !.revision = c.next + n - 1,
                 !.changes = @ \o [x \in 1..n |-> [revision |-> c.next + x - 1, guid |-> order[x]]]]
      BY <1>1, <1>4, <1>5, <1>7, <1>9, Zenon DEF RecordChanges, GuidsOf
    <3>. QED  BY <2>2, <3>1
  <2>4. q = [epoch |-> c.epoch, revision |-> c.next + n - 1, min |-> c.min, changes |-> all, next |-> c.next + n]
    BY <2>3 DEF CatalogOK
  <2>5. PICK rev : rev = [k \in DOMAIN all |-> all[k].revision]  OBVIOUS
  <2>6. /\ c.next + n - 1 \in Nat /\ c.next + n \in Nat /\ c.min =< c.next + n - 1 /\ c.next + n - 1 < c.next + n
        /\ c.revision =< c.next + n - 1
        /\ \A k \in 1..(m + n) :
              /\ c.min =< rev[k] /\ rev[k] =< c.next + n - 1 /\ (k > m => c.revision < rev[k])
              /\ \A l \in 1..(m + n) : k < l => rev[k] < rev[l]
    <3>0. m \in Nat /\ n \in Nat /\ DOMAIN all = 1..(m + n) /\ DOMAIN c.changes = 1..m  BY <2>2
    <3>1. \A k \in 1..m : rev[k] = c.changes[k].revision /\ rev[k] \in Nat
      <4>1. m \in Nat /\ n \in Nat  BY <3>0
      <4>2. \A k \in 1..m : k \in DOMAIN all
        <5>1. \A k \in 1..m : k \in 1..(m + n)  BY <4>1
        <5>. QED  BY <3>0, <5>1, Zenon
      <4>4. \A k \in 1..m : c.changes[k].revision \in Nat  BY <2>1, <3>0 DEF IsChange
      <4>. QED  BY <2>5, <2>21, <4>2, <4>4
    <3>2. \A k \in 1..m : rev[k] \in Nat /\ c.min =< rev[k] /\ rev[k] =< c.revision  BY <2>1, <2>2, <3>1
    <3>3. \A k, l \in 1..m : k < l => rev[k] < rev[l]
      <4>1. \A k, l \in 1..m : k < l => c.changes[k].revision < c.changes[l].revision  BY <2>1, <3>0, Zenon
      <4>. QED  BY <3>1, <4>1, Zenon
    <3>4. ASSUME NEW k \in 1..(m + n), k > m PROVE rev[k] = c.next + (k - m) - 1
      <4>1. k \in DOMAIN all  BY <3>0, Zenon
      <4>2. all[k].revision = c.next + (k - m) - 1  BY <2>22, <3>4, Zenon
      <4>. QED  BY <2>5, <4>1, <4>2
    <3>5. n \in Nat \ {0} /\ m \in Nat  BY <1>9, <2>2
    <3>6. /\ c.revision \in Nat /\ c.min \in Nat /\ c.next \in Nat
          /\ c.min =< c.revision /\ c.revision < c.next
      BY <2>1, Zenon
    <3>. QED  BY <3>2, <3>3, <3>4, <3>5, <3>6, RevisionsGrow
  <2>7. \A k \in 1..(m + n) : IsChange(all[k]) /\ rev[k] = all[k].revision
    <3>1. \A k \in 1..(m + n) : k > m \/ k \in 1..m  BY <2>2
    <3>. QED  BY <2>1, <2>2, <2>5, <3>1
  <2>8. Grown(c, q)
    <3>1. CatalogOK(q)
      <4>1. /\ q.epoch = c.epoch /\ q.revision = c.next + n - 1 /\ q.min = c.min /\ q.changes = all /\ q.next = c.next + n
            /\ q = [epoch |-> q.epoch, revision |-> q.revision, min |-> q.min, changes |-> q.changes, next |-> q.next]
        BY <2>4
      <4>2. \A k \in DOMAIN all : c.min =< all[k].revision /\ all[k].revision =< c.next + n - 1
        BY <2>2, <2>6, <2>7
      <4>3. \A k, l \in DOMAIN all : k < l => all[k].revision < all[l].revision
        <5>1. ASSUME NEW k \in 1..(m + n), NEW l \in 1..(m + n), k < l PROVE rev[k] < rev[l]  BY <2>6, <5>1
        <5>2. \A k \in 1..(m + n) : rev[k] = all[k].revision  BY <2>7
        <5>3. DOMAIN all = 1..(m + n)  BY <2>2
        <5>. QED  BY <5>1, <5>2, <5>3
      <4>4. \A k \in DOMAIN all : IsChange(all[k])  BY <2>2, <2>7
      <4>5. \E T : all \in Seq(T)  BY <2>2
      <4>6. /\ q.epoch \in Nat /\ q.revision \in Nat /\ q.min \in Nat /\ q.next \in Nat
            /\ q.min =< q.revision /\ q.revision < q.next
        BY <2>1, <2>6, <4>1
      <4>7. \A k \in DOMAIN q.changes : q.min =< q.changes[k].revision /\ q.changes[k].revision =< q.revision
        BY <4>1, <4>2
      <4>8. \A k, l \in DOMAIN q.changes : k < l => q.changes[k].revision < q.changes[l].revision
        BY <4>1, <4>3
      <4>9. (\E T : q.changes \in Seq(T)) /\ \A k \in DOMAIN q.changes : IsChange(q.changes[k])
        BY <4>1, <4>4, <4>5
      <4>. QED  BY <4>1, <4>6, <4>7, <4>8, <4>9, Zenon DEF CatalogOK
    <3>2. (\A k \in (1..(m + n)) \ (1..m) : k > m) /\ 1..m \subseteq 1..(m + n)  BY <2>2
    <3>. QED  BY <2>2, <2>4, <2>6, <2>7, <3>1, <3>2 DEF Grown
  <2>9. ASSUME NEW i \in S PROVE Announced(q, i.guid, c.revision)
    <3>1. PICK k \in 1..n : order[k] = i.guid  BY <1>6
    <3>2. m + k \in 1..(m + n) /\ m + k > m /\ (m + k) - m = k  BY <2>2
    <3>3. all[m + k].guid = i.guid /\ c.revision < all[m + k].revision
      BY <2>2, <2>6, <2>7, <3>1, <3>2
    <3>. QED  BY <2>2, <2>4, <3>2, <3>3 DEF Announced
  <2>. QED  BY <1>1, <1>7, <2>8, <2>9
<1>. QED  BY <1>8, <1>9

\* A product's row is inactive or as one of the items says.
ProductRows(d) ==
  \A g \in DOMAIN d : TableOf(g) = "product" =>
    \/ d[g].ver = 0 /\ d[g].active = FALSE
    \/ \E i \in Items : i.guid = g /\ d[g].ver = i.ver /\ d[g].active = i.active
Sound(p) == IsPromote(p) /\ RowsTyped(p.db) /\ ProductRows(p.db) /\ CatalogOK(p.catalog)

\* Every product that is not what it was has been announced.
SameAt(d, e, g) == (g \in DOMAIN d <=> g \in DOMAIN e) /\ (g \in DOMAIN d => SameRow(d[g], e[g]))
Told(d, c, e, k) ==
  /\ Grown(c, k)
  /\ \A g \in Products : SameAt(d, e, g) \/ Announced(k, g, c.revision)
Moved(p, q) == Sound(p) => Sound(q) /\ Told(p.db, p.catalog, q.db, q.catalog)

LEMMA ProductsAre == \A g : g \in Products <=> TableOf(g) = "product"
<1>1. ASSUME NEW g, TableOf(g) = "product" PROVE g \in Products
  <2>1. \E i \in Items : i.guid = g  BY <1>1 DEF TableOf
  <2>. QED  BY <1>1, <2>1, TableOfItem DEF Products
<1>2. ASSUME NEW g \in Products PROVE TableOf(g) = "product"
  BY TableOfItem DEF Products
<1>. QED  BY <1>1, <1>2

LEMMA GrownRefl == \A c : CatalogOK(c) => Grown(c, c)
BY DEF Grown, CatalogOK

LEMMA GrownJoin ==
  ASSUME NEW c, NEW k, NEW l, CatalogOK(c), Grown(c, k), Grown(k, l)
  PROVE  /\ Grown(c, l)
         /\ \A g : Announced(k, g, c.revision) \/ Announced(l, g, k.revision) => Announced(l, g, c.revision)
<1>1. c.revision \in Nat /\ k.revision \in Nat /\ l.revision \in Nat /\ c.revision =< k.revision /\ k.revision =< l.revision
  BY DEF Grown, CatalogOK
<1>2. \A n \in DOMAIN l.changes : l.changes[n].revision \in Nat  BY DEF Grown, CatalogOK, IsChange
<1>3. ASSUME NEW n \in DOMAIN l.changes, k.revision < l.changes[n].revision PROVE c.revision < l.changes[n].revision
  BY <1>1, <1>2, <1>3
<1>4. ASSUME NEW n \in DOMAIN l.changes \ DOMAIN c.changes PROVE c.revision < l.changes[n].revision
  <2>1. CASE n \in DOMAIN k.changes  BY <1>4, <2>1 DEF Grown
  <2>2. CASE n \notin DOMAIN k.changes  BY <1>3, <1>4, <2>2 DEF Grown
  <2>. QED  BY <2>1, <2>2
<1>5. Grown(c, l)
  <2>1. CatalogOK(l) /\ l.epoch = c.epoch /\ l.min = c.min /\ c.revision =< l.revision
    BY <1>1 DEF Grown
  <2>2. DOMAIN c.changes \subseteq DOMAIN l.changes /\ \A n \in DOMAIN c.changes : l.changes[n] = c.changes[n]
    BY DEF Grown
  <2>. QED  BY <1>4, <2>1, <2>2 DEF Grown
<1>6. ASSUME NEW g, Announced(k, g, c.revision) PROVE Announced(l, g, c.revision)
  BY <1>6 DEF Announced, Grown
<1>7. ASSUME NEW g, Announced(l, g, k.revision) PROVE Announced(l, g, c.revision)
  BY <1>3, <1>7 DEF Announced
<1>. QED  BY <1>5, <1>6, <1>7

LEMMA MovedRefl == \A p : Moved(p, p)
BY GrownRefl DEF Moved, Sound, Told, SameAt, SameRow

LEMMA MovedJoin ==
  ASSUME NEW p, NEW q, NEW r, Moved(p, q), Moved(q, r)
  PROVE  Moved(p, r)
<1>1. SUFFICES ASSUME Sound(p) PROVE Sound(r) /\ Told(p.db, p.catalog, r.db, r.catalog)  BY DEF Moved
<1>2. Sound(q) /\ Told(p.db, p.catalog, q.db, q.catalog)  BY <1>1 DEF Moved
<1>3. Sound(r) /\ Told(q.db, q.catalog, r.db, r.catalog)  BY <1>2 DEF Moved
<1>4. /\ Grown(p.catalog, r.catalog)
      /\ \A g : Announced(q.catalog, g, p.catalog.revision) \/ Announced(r.catalog, g, q.catalog.revision)
                  => Announced(r.catalog, g, p.catalog.revision)
  <2>1. CatalogOK(p.catalog) /\ Grown(p.catalog, q.catalog) /\ Grown(q.catalog, r.catalog)
    BY <1>1, <1>2, <1>3 DEF Sound, Told
  <2>. QED  BY <2>1, GrownJoin
<1>5. \A g : SameAt(p.db, q.db, g) /\ SameAt(q.db, r.db, g) => SameAt(p.db, r.db, g)
  BY DEF SameAt, SameRow
<1>. QED  BY <1>2, <1>3, <1>4, <1>5 DEF Told

\* A step that leaves the products and the changes alone.
LEMMA SameProductsMove ==
  ASSUME NEW p, NEW q, IsPromote(q), RowsTyped(p.db) => RowsTyped(q.db), q.catalog = p.catalog,
         SameProducts(p.db, q.db)
  PROVE  Moved(p, q)
<1>1. SUFFICES ASSUME Sound(p) PROVE Sound(q) /\ Told(p.db, p.catalog, q.db, q.catalog)  BY DEF Moved
<1>2. ProductRows(q.db)  BY <1>1 DEF Sound, ProductRows, SameProducts, SameRow
<1>3. \A g \in Products : SameAt(p.db, q.db, g)
  BY ProductsAre DEF SameProducts, SameAt, SameRow
<1>. QED  BY <1>1, <1>2, <1>3, GrownRefl DEF Sound, Told

LEMMA SameVersion ==
  ASSUME NEW i \in Items, NEW j \in Items, i.guid = j.guid, i.ver = j.ver
  PROVE  i.active = j.active
BY CatalogueAssumption

LEMMA NomenclatureMoves ==
  ASSUME NEW p, NEW I, IsPromote(p), I \subseteq Items, Keyed(I), \A i \in I : i.entity = "nomenclature", IsFiniteSet(I)
  PROVE  Moved(p, applyStagedNomenclature(p, I))
<1>1. SUFFICES ASSUME Sound(p)
               PROVE  LET q == applyStagedNomenclature(p, I) IN
                      Sound(q) /\ Told(p.db, p.catalog, q.db, q.catalog)
  BY DEF Moved
<1>2. PICK q : q = applyStagedNomenclature(p, I)  OBVIOUS
<1>3. PICK found \in SUBSET {i \in I : i.table = "product"} :
         /\ Effect(p, q, I) /\ q.catalog = RecordChanges(p.catalog, p.db, found)
         /\ \A g \in DOMAIN q.db : TableOf(g) = "product" =>
              (g \in DOMAIN p.db /\ SameRow(q.db[g], p.db[g])) \/ WrittenBy(q.db[g], g, found)
  BY <1>2, NomenclatureIs
<1>4. IsFiniteSet(found) /\ found \subseteq {i \in Items : i.table = "product"}
  BY <1>3, FS_Subset
<1>5. /\ Grown(p.catalog, q.catalog)
      /\ \A i \in found : i.guid \notin DOMAIN p.db \/ p.db[i.guid].ver # i.ver
                            => Announced(q.catalog, i.guid, p.catalog.revision)
  BY <1>1, <1>3, <1>4, RecordChangesAre DEF Sound
<1>6. ProductRows(q.db)
  <2>1. ASSUME NEW g \in DOMAIN q.db, TableOf(g) = "product"
        PROVE  \/ q.db[g].ver = 0 /\ q.db[g].active = FALSE
               \/ \E i \in Items : i.guid = g /\ q.db[g].ver = i.ver /\ q.db[g].active = i.active
    <3>1. CASE WrittenBy(q.db[g], g, found)  BY <1>4, <3>1 DEF WrittenBy
    <3>2. CASE g \in DOMAIN p.db /\ SameRow(q.db[g], p.db[g])
      BY <1>1, <2>1, <3>2 DEF Sound, ProductRows, SameRow
    <3>. QED  BY <1>3, <2>1, <3>1, <3>2
  <2>. QED  BY <2>1 DEF ProductRows
<1>7. ASSUME NEW g \in Products PROVE SameAt(p.db, q.db, g) \/ Announced(q.catalog, g, p.catalog.revision)
  <2>1. TableOf(g) = "product"  BY ProductsAre
  <2>2. DOMAIN p.db \subseteq DOMAIN q.db  BY <1>3 DEF Effect
  <2>3. CASE g \notin DOMAIN q.db  BY <2>2, <2>3 DEF SameAt
  <2>4. CASE g \in DOMAIN p.db /\ SameRow(q.db[g], p.db[g])  BY <2>2, <2>4 DEF SameAt, SameRow
  <2>5. CASE g \in DOMAIN q.db /\ WrittenBy(q.db[g], g, found)
    <3>1. PICK i \in found : i.guid = g /\ q.db[g].ver = i.ver /\ q.db[g].active = i.active
      BY <2>5 DEF WrittenBy
    <3>2. CASE g \notin DOMAIN p.db \/ p.db[g].ver # i.ver  BY <1>5, <3>1, <3>2
    <3>3. CASE g \in DOMAIN p.db /\ p.db[g].ver = i.ver
      <4>1. i \in Items /\ i.ver # 0  BY <1>4, CatalogueAssumption
      <4>2. PICK j \in Items : j.guid = g /\ p.db[g].ver = j.ver /\ p.db[g].active = j.active
        BY <1>1, <2>1, <3>3, <4>1 DEF Sound, ProductRows
      <4>3. j.active = i.active  BY <3>1, <3>3, <4>1, <4>2, SameVersion
      <4>. QED  BY <2>5, <3>1, <3>3, <4>2, <4>3 DEF SameAt, SameRow
    <3>. QED  BY <3>2, <3>3
  <2>. QED  BY <1>3, <2>1, <2>3, <2>4, <2>5
<1>8. Sound(q) /\ Told(p.db, p.catalog, q.db, q.catalog)
  BY <1>1, <1>3, <1>5, <1>6, <1>7 DEF Sound, Told, Effect, Grown
<1>. QED  BY <1>2, <1>8

LEMMA EntityMoves ==
  ASSUME StagesOK, NEW s \in Sessions, NEW p, IsPromote(p), NEW e \in Entities
  PROVE  LET q == ApplyEntity(p, e, Staged(s, e)) IN IsPromote(q) /\ Moved(p, q)
<1>1. PICK I : I = Staged(s, e)  OBVIOUS
<1>2. I \subseteq Items /\ Keyed(I) /\ (\A i \in I : i.entity = e) /\ IsFiniteSet(I)
  BY <1>1, StagedAre, StagedAreFinite
<1>3. PICK q : q = ApplyEntity(p, e, I)  OBVIOUS
<1>4. /\ Effect(p, q, I)
      /\ e # "nomenclature" => q.catalog = p.catalog /\ SameProducts(p.db, q.db)
  BY <1>2, <1>3, EntityIs
<1>5. IsPromote(q) /\ (RowsTyped(p.db) => RowsTyped(q.db))  BY <1>4 DEF Effect
<1>6. CASE e = "nomenclature"
  <2>1. q = applyStagedNomenclature(p, I)  BY <1>3, <1>6 DEF ApplyEntity
  <2>. QED  BY <1>1, <1>2, <1>3, <1>5, <1>6, <2>1, NomenclatureMoves
<1>7. CASE e # "nomenclature"
  <2>1. Moved(p, q)  BY <1>4, <1>5, <1>7, SameProductsMove
  <2>. QED  BY <1>1, <1>3, <1>5, <2>1
<1>. QED  BY <1>6, <1>7

\* What a clear leaves.
LEMMA DeleteIs ==
  ASSUME NEW d, RowsTyped(d), NEW G
  PROVE  /\ RowsTyped(Delete(d, G)) /\ DOMAIN Delete(d, G) = DOMAIN d \ G
         /\ \A g \in DOMAIN d \ G : SameRow(Delete(d, G)[g], d[g])
<1>1. PICK q : q = [g \in DOMAIN d \ G |-> [d[g] EXCEPT !.refs = @ \ G]]  OBVIOUS
<1>2. q = Delete(d, G)  BY <1>1 DEF Delete
<1>3. ASSUME NEW g \in DOMAIN d \ G PROVE IsRow(q[g]) /\ SameRow(q[g], d[g])
  <2>1. PICK row : row = d[g]  OBVIOUS
  <2>2. row = [ver |-> row.ver, refs |-> row.refs, active |-> row.active]  BY <2>1 DEF RowsTyped, IsRow, Row
  <2>3. q[g] = [ver |-> row.ver, refs |-> row.refs \ G, active |-> row.active]  BY <1>1, <2>1, <2>2
  <2>. QED  BY <2>1, <2>3 DEF IsRow, Row, SameRow
<1>4. DOMAIN q = DOMAIN d \ G  BY <1>1
<1>. QED  BY <1>2, <1>3, <1>4 DEF RowsTyped

LEMMA DeleteOther ==
  ASSUME NEW d, RowsTyped(d), NEW G, \A g \in G : TableOf(g) # "product"
  PROVE  RowsTyped(Delete(d, G)) /\ SameProducts(d, Delete(d, G))
<1>1. PICK q : q = Delete(d, G)  OBVIOUS
<1>2. RowsTyped(q) /\ DOMAIN q = DOMAIN d \ G /\ \A g \in DOMAIN d \ G : SameRow(q[g], d[g])
  BY <1>1, DeleteIs
<1>3. SameProducts(d, q)  BY <1>2 DEF SameProducts, SameRow
<1>. QED  BY <1>1, <1>2, <1>3

LEMMA ClearNomenclatureIs ==
  ASSUME NEW d, RowsTyped(d)
  PROVE  RowsTyped(ClearNomenclature(d)) /\ ProductRows(ClearNomenclature(d))
<1>1. PICK kept : kept = Delete(d, Stock(d) \cup Rows(d, "specialPrice") \cup Rows(d, "productPrice") \cup Rows(d, "group"))
  OBVIOUS
<1>2. RowsTyped(kept)  BY <1>1, DeleteIs
<1>3. PICK q : q = [g \in DOMAIN kept |-> IF TableOf(g) = "product" THEN Row(0, {}, FALSE) ELSE kept[g]]  OBVIOUS
<1>4. q = ClearNomenclature(d)  BY <1>1, <1>3 DEF ClearNomenclature
<1>5. RowsTyped(q)  BY <1>2, <1>3 DEF RowsTyped, IsRow, Row
<1>6. ProductRows(q)  BY <1>3 DEF ProductRows, Row
<1>. QED  BY <1>4, <1>5, <1>6

LEMMA ClearIs ==
  ASSUME NEW d, RowsTyped(d), NEW e \in Entities
  PROVE  LET q == clearEntityInTx(d, e) IN
         /\ RowsTyped(q)
         /\ e # "nomenclature" => SameProducts(d, q)
         /\ e = "nomenclature" => ProductRows(q)
<1>1. PICK q : q = clearEntityInTx(d, e)  OBVIOUS
<1>2. CASE e = "nomenclature"
  <2>1. q = ClearNomenclature(d)  BY <1>1, <1>2 DEF clearEntityInTx
  <2>. QED  BY <1>1, <1>2, <2>1, ClearNomenclatureIs
<1>3. CASE e = "counterparties"
  <2>1. PICK f : f = [g \in DOMAIN d |-> IF TableOf(g) = "counterparty" THEN [d[g] EXCEPT !.refs = {}] ELSE d[g]]  OBVIOUS
  <2>2. PICK G : G = {g \in Rows(d, "specialPrice") : Refers(d, g, "counterparty")}
                     \cup Rows(d, "agreement") \cup Rows(d, "contract") \cup Rows(d, "counterparty")
    OBVIOUS
  <2>3. q = Delete(f, G)  BY <1>1, <1>3, <2>1, <2>2 DEF clearEntityInTx, ClearCounterparties
  <2>4. RowsTyped(f) /\ DOMAIN f = DOMAIN d
    <3>1. ASSUME NEW g \in DOMAIN d PROVE IsRow(f[g])
      <4>1. PICK row : row = d[g]  OBVIOUS
      <4>2. row = [ver |-> row.ver, refs |-> row.refs, active |-> row.active]  BY <4>1 DEF RowsTyped, IsRow, Row
      <4>3. f[g] = IF TableOf(g) = "counterparty" THEN [row EXCEPT !.refs = {}] ELSE row  BY <2>1, <4>1
      <4>4. f[g] = row \/ f[g] = [ver |-> row.ver, refs |-> {}, active |-> row.active]  BY <4>2, <4>3
      <4>. QED  BY <4>2, <4>4 DEF IsRow, Row
    <3>. QED  BY <2>1, <3>1 DEF RowsTyped
  <2>5. SameProducts(d, f)  BY <2>1 DEF SameProducts, SameRow
  <2>6. \A g \in G : TableOf(g) # "product"  BY <2>2 DEF Rows
  <2>7. RowsTyped(q) /\ SameProducts(f, q)  BY <2>3, <2>4, <2>6, DeleteOther
  <2>. QED  BY <1>1, <1>3, <2>5, <2>7, SameProductsJoin
<1>4. CASE e \notin {"nomenclature", "counterparties"}
  <2>1. PICK G : q = Delete(d, G) /\ \A g \in G : TableOf(g) # "product"
    <3>1. CASE e = "stock"  BY <1>1, <3>1 DEF clearEntityInTx, Stock, Rows
    <3>2. CASE e = "organizations"  BY <1>1, <3>2 DEF clearEntityInTx, ClearOrganizations, Stock, Rows
    <3>3. CASE e = "special-prices"  BY <1>1, <3>3 DEF clearEntityInTx, Rows
    <3>4. CASE e = "product-prices"  BY <1>1, <3>4 DEF clearEntityInTx, Rows
    <3>5. CASE e = "agreements"  BY <1>1, <3>5 DEF clearEntityInTx, ClearAgreements, Rows
    <3>6. CASE e = "contracts"  BY <1>1, <3>6 DEF clearEntityInTx, ClearContracts, Rows
    <3>7. CASE e = "warehouses"  BY <1>1, <3>7 DEF clearEntityInTx, ClearWarehouses, Stock, Rows
    <3>. QED  BY <1>4, <3>1, <3>2, <3>3, <3>4, <3>5, <3>6, <3>7, EntitiesAre
  <2>. QED  BY <1>1, <1>4, <2>1, DeleteOther
<1>. QED  BY <1>2, <1>3, <1>4

\* The entities are cleared one after the other: h[i] is the catalogue after the i-th.
Cleared(d, E, i) == IF RECONCILE_ORDER[i] \in E THEN clearEntityInTx(d, RECONCILE_ORDER[i]) ELSE d

LEMMA ClearStepsAre ==
  ASSUME NEW d, NEW E
  PROVE  \E h : h[0] = d /\ (\A i \in 1..9 : h[i] = Cleared(h[i - 1], E, i)) /\ ClearAll(d, E) = h[9]
<1>1. PICK q1 : q1 = Cleared(d, E, 1)  OBVIOUS
<1>2. PICK q2 : q2 = Cleared(q1, E, 2)  OBVIOUS
<1>3. PICK q3 : q3 = Cleared(q2, E, 3)  OBVIOUS
<1>4. PICK q4 : q4 = Cleared(q3, E, 4)  OBVIOUS
<1>5. PICK q5 : q5 = Cleared(q4, E, 5)  OBVIOUS
<1>6. PICK q6 : q6 = Cleared(q5, E, 6)  OBVIOUS
<1>7. PICK q7 : q7 = Cleared(q6, E, 7)  OBVIOUS
<1>8. PICK q8 : q8 = Cleared(q7, E, 8)  OBVIOUS
<1>9. PICK q9 : q9 = Cleared(q8, E, 9)  OBVIOUS
<1>10. PICK f : f = [i \in 0..9 |-> IF i = 0 THEN d ELSE <<q1, q2, q3, q4, q5, q6, q7, q8, q9>>[i]]  OBVIOUS
<1>11. /\ f[0] = d /\ f[1] = q1 /\ f[2] = q2 /\ f[3] = q3 /\ f[4] = q4 /\ f[5] = q5
       /\ f[6] = q6 /\ f[7] = q7 /\ f[8] = q8 /\ f[9] = q9
  BY <1>10
<1>12. ASSUME NEW i \in 1..9 PROVE f[i] = Cleared(f[i - 1], E, i)
  <2>1. i = 1 \/ i = 2 \/ i = 3 \/ i = 4 \/ i = 5 \/ i = 6 \/ i = 7 \/ i = 8 \/ i = 9  OBVIOUS
  <2>. QED  BY <1>1, <1>2, <1>3, <1>4, <1>5, <1>6, <1>7, <1>8, <1>9, <1>11, <2>1
<1>13. Len(RECONCILE_ORDER) = 9  BY DEF RECONCILE_ORDER
<1>14. PICK clear : clear = CHOOSE h : h = [i \in 0..Len(RECONCILE_ORDER) |->
          IF i = 0 THEN d
          ELSE IF RECONCILE_ORDER[i] \in E THEN clearEntityInTx(h[i - 1], RECONCILE_ORDER[i]) ELSE h[i - 1]]
  OBVIOUS
<1>15. f = [i \in 0..9 |->
          IF i = 0 THEN d
          ELSE IF RECONCILE_ORDER[i] \in E THEN clearEntityInTx(f[i - 1], RECONCILE_ORDER[i]) ELSE f[i - 1]]
  <2>1. \A i \in 0..9 : i = 0 \/ i \in 1..9  OBVIOUS
  <2>2. \A i \in 0..9 : f[i] =
          IF i = 0 THEN d
          ELSE IF RECONCILE_ORDER[i] \in E THEN clearEntityInTx(f[i - 1], RECONCILE_ORDER[i]) ELSE f[i - 1]
    BY <1>11, <1>12, <2>1 DEF Cleared
  <2>. QED  BY <1>10, <2>2
<1>16. clear = [i \in 0..9 |->
          IF i = 0 THEN d
          ELSE IF RECONCILE_ORDER[i] \in E THEN clearEntityInTx(clear[i - 1], RECONCILE_ORDER[i]) ELSE clear[i - 1]]
  BY <1>13, <1>14, <1>15
<1>17. clear[0] = d  BY <1>16
<1>18. ASSUME NEW i \in 1..9 PROVE clear[i] = Cleared(clear[i - 1], E, i)
  <2>1. i \in 0..9 /\ i # 0  BY <1>18
  <2>2. clear[i] =
          IF i = 0 THEN d
          ELSE IF RECONCILE_ORDER[i] \in E THEN clearEntityInTx(clear[i - 1], RECONCILE_ORDER[i]) ELSE clear[i - 1]
    BY <1>16, <2>1, Zenon
  <2>. QED  BY <2>1, <2>2, Zenon DEF Cleared
<1>19. ClearAll(d, E) = clear[9]  BY <1>13, <1>14 DEF ClearAll
<1>. QED  BY <1>17, <1>18, <1>19

LEMMA ClearAllIs ==
  ASSUME NEW d, RowsTyped(d), ProductRows(d), NEW E
  PROVE  /\ RowsTyped(ClearAll(d, E)) /\ ProductRows(ClearAll(d, E))
         /\ "nomenclature" \notin E => SameProducts(d, ClearAll(d, E))
<1>1. PICK h : h[0] = d /\ (\A i \in 1..9 : h[i] = Cleared(h[i - 1], E, i)) /\ ClearAll(d, E) = h[9]
  BY ClearStepsAre
<1>. DEFINE Good(q) == RowsTyped(q) /\ ProductRows(q) /\ ("nomenclature" \notin E => SameProducts(d, q))
<1>2. Good(h[0])  BY <1>1 DEF SameProducts, SameRow
<1>3. ASSUME NEW i \in 1..9, Good(h[i - 1]) PROVE Good(h[i])
  <2>1. CASE RECONCILE_ORDER[i] \notin E
    <3>1. h[i] = h[i - 1]  BY <1>1, <2>1 DEF Cleared
    <3>. QED  BY <1>3, <3>1
  <2>2. CASE RECONCILE_ORDER[i] \in E
    <3>1. PICK e \in Entities : e = RECONCILE_ORDER[i] /\ e \in E
      BY <2>2 DEF Entities, RECONCILE_ORDER
    <3>2. h[i] = clearEntityInTx(h[i - 1], e)  BY <1>1, <2>2, <3>1 DEF Cleared
    <3>3. /\ RowsTyped(h[i])
          /\ e # "nomenclature" => SameProducts(h[i - 1], h[i])
          /\ e = "nomenclature" => ProductRows(h[i])
      BY <1>3, <3>2, ClearIs
    <3>4. CASE e = "nomenclature"  BY <3>1, <3>3, <3>4
    <3>5. CASE e # "nomenclature"
      <4>1. ProductRows(h[i])  BY <1>3, <3>3, <3>5 DEF ProductRows, SameProducts, SameRow
      <4>. QED  BY <1>3, <3>3, <3>5, <4>1, SameProductsJoin
    <3>. QED  BY <3>4, <3>5
  <2>. QED  BY <2>1, <2>2
<1>. HIDE DEF Good
<1>4. Good(h[1]) /\ Good(h[2]) /\ Good(h[3])
  <2>1. Good(h[1])  BY <1>2, <1>3
  <2>2. Good(h[2])  BY <1>3, <2>1
  <2>. QED  BY <1>3, <2>1, <2>2
<1>5. Good(h[4]) /\ Good(h[5]) /\ Good(h[6])
  <2>1. Good(h[4])  BY <1>3, <1>4
  <2>2. Good(h[5])  BY <1>3, <2>1
  <2>. QED  BY <1>3, <2>1, <2>2
<1>6. Good(h[7]) /\ Good(h[8]) /\ Good(h[9])
  <2>1. Good(h[7])  BY <1>3, <1>5
  <2>2. Good(h[8])  BY <1>3, <2>1
  <2>. QED  BY <1>3, <2>1, <2>2
<1>. QED  BY <1>1, <1>6 DEF Good

LEMMA LinksMove ==
  ASSUME NEW p, IsPromote(p), NEW I, Keyed(I), GuidsOf(I) \subseteq DOMAIN p.db
  PROVE  LET q == applyCounterpartyDefaultLinks(p, I) IN IsPromote(q) /\ Moved(p, q)
<1>1. PICK q : q = applyCounterpartyDefaultLinks(p, I)  OBVIOUS
<1>2. /\ IsPromote(q) /\ q.catalog = p.catalog /\ DOMAIN q.db = DOMAIN p.db
      /\ RowsTyped(p.db) => RowsTyped(q.db) /\ \A g \in DOMAIN p.db : SameRow(q.db[g], p.db[g])
  BY <1>1, LinksAre
<1>3. CASE RowsTyped(p.db)
  <2>1. SameProducts(p.db, q.db)  BY <1>2, <1>3 DEF SameProducts, SameRow
  <2>2. Moved(p, q)  BY <1>2, <2>1, SameProductsMove
  <2>. QED  BY <1>1, <1>2, <2>2
<1>4. CASE ~RowsTyped(p.db)  BY <1>1, <1>2, <1>4 DEF Moved, Sound
<1>. QED  BY <1>3, <1>4

LEMMA ApplyAllMoves ==
  ASSUME StagesOK, NEW s \in Sessions, NEW p, IsPromote(p), NEW E, NEW done
  PROVE  Moved(p, ApplyAll(p, s, E, done))
<1>1. PICK f : /\ DOMAIN f = 0..9 /\ Steps(f, p, s, done)
               /\ ApplyAll(p, s, E, done) =
                    IF "counterparties" \in E /\ done = E
                    THEN applyCounterpartyDefaultLinks(f[9], Staged(s, "counterparties")) ELSE f[9]
  BY StepsAre
<1>2. PICK C : C = GuidsOf(Staged(s, "counterparties"))  OBVIOUS
<1>. DEFINE Good(k) == IsPromote(f[k]) /\ Moved(p, f[k])
<1>3. Good(0)  BY <1>1, MovedRefl DEF Steps
<1>4. ASSUME NEW k \in 1..9, Good(k - 1) PROVE Good(k) /\ DOMAIN f[k - 1].db \subseteq DOMAIN f[k].db
  <2>1. f[k] = StepOf(f[k - 1], s, done, k)  BY <1>1 DEF Steps
  <2>2. PICK e \in Entities : e = RECONCILE_ORDER[k]  BY DEF Entities, RECONCILE_ORDER
  <2>3. CASE e \notin done
    <3>1. f[k] = f[k - 1]  BY <2>1, <2>2, <2>3 DEF StepOf
    <3>. QED  BY <1>4, <3>1
  <2>4. CASE e \in done
    <3>1. PICK I : I = Staged(s, e)  OBVIOUS
    <3>2. f[k] = ApplyEntity(f[k - 1], e, I)  BY <2>1, <2>2, <2>4, <3>1 DEF StepOf
    <3>3. IsPromote(f[k]) /\ Moved(f[k - 1], f[k])  BY <1>4, <3>1, <3>2, EntityMoves
    <3>4. Moved(p, f[k])  BY <1>4, <3>3, MovedJoin
    <3>5. Effect(f[k - 1], f[k], I)  BY <1>4, <3>1, <3>2, StagedAre, EntityIs
    <3>. QED  BY <3>3, <3>4, <3>5 DEF Effect
  <2>. QED  BY <2>3, <2>4
<1>. HIDE DEF Good
<1>5. Good(1) /\ Good(2) /\ Good(3)
  <2>1. Good(1)  BY <1>3, <1>4
  <2>2. Good(2)  BY <1>4, <2>1
  <2>. QED  BY <1>4, <2>1, <2>2
<1>6. Good(4) /\ Good(5) /\ Good(6)
  <2>1. Good(4)  BY <1>4, <1>5
  <2>2. Good(5)  BY <1>4, <2>1
  <2>. QED  BY <1>4, <2>1, <2>2
<1>7. Good(7) /\ Good(8) /\ Good(9)
  <2>1. Good(7)  BY <1>4, <1>6
  <2>2. Good(8)  BY <1>4, <2>1
  <2>. QED  BY <1>4, <2>1, <2>2
<1>8. CASE "counterparties" \in E /\ done = E
  <2>1. PICK I : I = Staged(s, "counterparties")  OBVIOUS
  <2>2. Keyed(I)  BY <2>1, StagedAre
  <2>3. GuidsOf(I) \subseteq DOMAIN f[4].db
    <3>1. RECONCILE_ORDER[4] = "counterparties"  BY DEF RECONCILE_ORDER
    <3>2. f[4] = ApplyEntity(f[3], "counterparties", I)
      <4>1. f[4] = StepOf(f[4 - 1], s, done, 4)  BY <1>1 DEF Steps
      <4>. QED  BY <1>8, <2>1, <3>1, <4>1 DEF StepOf
    <3>3. f[4] = Upsert(f[3], I)  BY <3>2 DEF ApplyEntity, applyStagedCounterparties
    <3>4. IsPromote(f[3])  BY <1>5 DEF Good
    <3>. QED  BY <2>2, <3>3, <3>4, UpsertEffect
  <2>4. /\ DOMAIN f[4].db \subseteq DOMAIN f[5].db /\ DOMAIN f[5].db \subseteq DOMAIN f[6].db
        /\ DOMAIN f[6].db \subseteq DOMAIN f[7].db /\ DOMAIN f[7].db \subseteq DOMAIN f[8].db
        /\ DOMAIN f[8].db \subseteq DOMAIN f[9].db
    <3>1. \A k \in 5..9 : Good(k - 1) => DOMAIN f[k - 1].db \subseteq DOMAIN f[k].db  BY <1>4
    <3>2. DOMAIN f[5 - 1].db \subseteq DOMAIN f[5].db  BY <1>6, <3>1
    <3>3. DOMAIN f[6 - 1].db \subseteq DOMAIN f[6].db  BY <1>6, <3>1
    <3>4. DOMAIN f[7 - 1].db \subseteq DOMAIN f[7].db  BY <1>6, <3>1
    <3>5. DOMAIN f[8 - 1].db \subseteq DOMAIN f[8].db  BY <1>7, <3>1
    <3>6. DOMAIN f[9 - 1].db \subseteq DOMAIN f[9].db  BY <1>7, <3>1
    <3>. QED  BY <3>2, <3>3, <3>4, <3>5, <3>6
  <2>5. GuidsOf(I) \subseteq DOMAIN f[9].db  BY <2>3, <2>4
  <2>6. PICK u : u = f[9]  OBVIOUS
  <2>7. IsPromote(u) /\ Moved(p, u) /\ GuidsOf(I) \subseteq DOMAIN u.db  BY <1>7, <2>5, <2>6 DEF Good
  <2>8. Moved(u, applyCounterpartyDefaultLinks(u, I))  BY <2>2, <2>7, LinksMove
  <2>9. ApplyAll(p, s, E, done) = applyCounterpartyDefaultLinks(u, I)  BY <1>1, <1>8, <2>1, <2>6
  <2>. QED  BY <2>7, <2>8, <2>9, MovedJoin
<1>9. CASE ~("counterparties" \in E /\ done = E)
  <2>1. ApplyAll(p, s, E, done) = f[9]  BY <1>1, <1>9
  <2>. QED  BY <1>7, <2>1 DEF Good
<1>. QED  BY <1>8, <1>9

\* The catalogue after a promote: its products are told of, or a new epoch starts.
LEMMA PromoteIs ==
  ASSUME StagesOK, NEW x, x.s \in Sessions, RowsTyped(db), ProductRows(db), CatalogOK(catalog), NEW done
  PROVE  LET p == PromoteTo(x, done) IN
         Sound(p) /\ (Told(db, catalog, p.db, p.catalog) \/ catalog.epoch < p.catalog.epoch)
<1>1. PICK cleared : cleared = IF x.replace THEN ClearAll(db, x.entities) ELSE db  OBVIOUS
<1>2. PICK c : c = IF x.replace /\ "nomenclature" \in x.entities THEN ResetCatalog(catalog) ELSE catalog  OBVIOUS
<1>3. PICK p0 : p0 = [db |-> cleared, catalog |-> c, blocked |-> {}]  OBVIOUS
<1>4. PICK p : p = ApplyAll(p0, x.s, x.entities, done)  OBVIOUS
<1>5. p = PromoteTo(x, done)  BY <1>1, <1>2, <1>3, <1>4 DEF PromoteTo
<1>6. IsPromote(p0) /\ p0.db = cleared /\ p0.catalog = c  BY <1>3 DEF IsPromote
<1>7. Moved(p0, p)  BY <1>4, <1>6, ApplyAllMoves
<1>8. /\ RowsTyped(cleared) /\ ProductRows(cleared)
      /\ ~(x.replace /\ "nomenclature" \in x.entities) => SameProducts(db, cleared)
  <2>1. CASE x.replace  BY <1>1, <2>1, ClearAllIs
  <2>2. CASE ~x.replace  BY <1>1, <2>2 DEF SameProducts, SameRow
  <2>. QED  BY <2>1, <2>2
<1>9. CASE x.replace /\ "nomenclature" \in x.entities
  <2>1. c = [epoch |-> catalog.epoch + 1, revision |-> 0, min |-> 0, changes |-> <<>>, next |-> catalog.next]
    BY <1>2, <1>9 DEF ResetCatalog, CatalogOK
  <2>2. catalog.epoch \in Nat /\ catalog.next \in Nat /\ 0 < catalog.next  BY DEF CatalogOK
  <2>3. (\E T : c.changes \in Seq(T)) /\ DOMAIN c.changes = {}  BY <2>1
  <2>4. CatalogOK(c)  BY <2>1, <2>2, <2>3 DEF CatalogOK
  <2>5. Sound(p) /\ Told(cleared, c, p.db, p.catalog)  BY <1>6, <1>7, <1>8, <2>4 DEF Moved, Sound
  <2>6. p.catalog.epoch = catalog.epoch + 1  BY <2>1, <2>5 DEF Told, Grown
  <2>. QED  BY <1>5, <2>2, <2>5, <2>6
<1>10. CASE ~(x.replace /\ "nomenclature" \in x.entities)
  <2>1. PICK o : o = [db |-> db, catalog |-> catalog, blocked |-> {}]  OBVIOUS
  <2>2. IsPromote(o) /\ o.db = db /\ o.catalog = catalog  BY <2>1 DEF IsPromote
  <2>3. Sound(o)  BY <2>2 DEF Sound
  <2>4. Moved(o, p0)  BY <1>2, <1>6, <1>8, <1>10, <2>2, SameProductsMove
  <2>5. Moved(o, p)  BY <1>7, <2>4, MovedJoin
  <2>. QED  BY <1>5, <2>2, <2>3, <2>5 DEF Moved
<1>. QED  BY <1>9, <1>10

LEMMA ClearEntityIs ==
  ASSUME RowsTyped(db), ProductRows(db), CatalogOK(catalog), NEW e \in Entities, clearOnecEntity(e)
  PROVE  /\ RowsTyped(db') /\ ProductRows(db') /\ catalog' = catalog
         /\ Told(db, catalog, db', catalog') \/ unannounced'
         /\ unannounced => unannounced'
<1>1. PICK cleared : cleared = clearEntityInTx(db, e)  OBVIOUS
<1>2. /\ db' = IF e = "nomenclature" THEN Delete(cleared, Rows(cleared, "product")) ELSE cleared
      /\ unannounced' = (unannounced \/ (e = "nomenclature" /\ Rows(db, "product") # {}))
      /\ catalog' = catalog
  BY <1>1, Zenon DEF clearOnecEntity
<1>3. /\ RowsTyped(cleared)
      /\ e # "nomenclature" => SameProducts(db, cleared)
  BY <1>1, ClearIs
<1>4. Grown(catalog, catalog)  BY GrownRefl
<1>5. CASE e = "nomenclature"
  <2>1. RowsTyped(db') /\ DOMAIN db' = DOMAIN cleared \ Rows(cleared, "product")
    BY <1>2, <1>3, <1>5, DeleteIs
  <2>2. \A g \in DOMAIN db' : TableOf(g) # "product"  BY <2>1 DEF Rows
  <2>3. ProductRows(db')  BY <2>2 DEF ProductRows
  <2>4. CASE Rows(db, "product") = {}
    <3>1. \A g \in Products : g \notin DOMAIN db /\ g \notin DOMAIN db'
      BY <2>2, <2>4, ProductsAre DEF Rows
    <3>. QED  BY <1>2, <1>4, <2>1, <2>3, <3>1 DEF Told, SameAt
  <2>. QED  BY <1>2, <1>5, <2>1, <2>3, <2>4
<1>6. CASE e # "nomenclature"
  <2>1. db' = cleared /\ SameProducts(db, cleared)  BY <1>2, <1>3, <1>6
  <2>2. ProductRows(db')  BY <2>1 DEF ProductRows, SameProducts, SameRow
  <2>3. \A g \in Products : SameAt(db, db', g)  BY <2>1, ProductsAre DEF SameProducts, SameAt, SameRow
  <2>. QED  BY <1>2, <1>3, <1>4, <2>1, <2>2, <2>3 DEF Told
<1>. QED  BY <1>5, <1>6

\* What the catalogue is, and what a step of 1C does to it.
CatalogueOK == RowsTyped(db) /\ ProductRows(db) /\ CatalogOK(catalog)
CatalogueStep ==
  /\ unannounced => unannounced'
  /\ \/ Told(db, catalog, db', catalog')
     \/ catalog.epoch < catalog.epoch'
     \/ unannounced' /\ catalog' = catalog

LEMMA SyncMoves ==
  ASSUME SyncTypes, CatalogueOK, SyncNext
  PROVE  CatalogueOK' /\ CatalogueStep
<1>1. ASSUME db' = db, catalog' = catalog, unannounced' = unannounced PROVE CatalogueOK' /\ CatalogueStep
  BY <1>1, GrownRefl DEF CatalogueOK, CatalogueStep, Told, SameAt, SameRow
<1>2. ASSUME NEW s \in Sessions, NEW replace, NEW selected, startOnecSyncSession(s, replace, selected)
      PROVE  CatalogueOK' /\ CatalogueStep
  BY <1>1, <1>2 DEF startOnecSyncSession
<1>3. ASSUME NEW r \in Requests, NEW s \in Sessions, NEW b \in Batches, TouchSession(r, s, b) \/ ImplicitSession(r, s, b)
      PROVE  CatalogueOK' /\ CatalogueStep
  BY <1>1, <1>3 DEF TouchSession, ImplicitSession
<1>4. ASSUME NEW r \in Requests,
             \/ stageNomenclatureBatch(r) \/ stageWarehousesBatch(r) \/ stageOrganizationsBatch(r)
             \/ stageCounterpartiesBatch(r) \/ stageContractsBatch(r) \/ stageAgreementsBatch(r)
             \/ stageProductPricesBatch(r) \/ stageSpecialPricesBatch(r) \/ stageStockBatch(r)
      PROVE  CatalogueOK' /\ CatalogueStep
  <2>1. \E e : StageBatch(r, e)
    BY <1>4
    DEF stageNomenclatureBatch, stageWarehousesBatch, stageOrganizationsBatch, stageCounterpartiesBatch,
        stageContractsBatch, stageAgreementsBatch, stageProductPricesBatch, stageSpecialPricesBatch, stageStockBatch
  <2>2. db' = db /\ catalog' = catalog /\ unannounced' = unannounced  BY <2>1 DEF StageBatch
  <2>. QED  BY <1>1, <2>2
<1>5. ASSUME NEW r \in Requests, NEW s \in Sessions, StartCompletion(r, s) PROVE CatalogueOK' /\ CatalogueStep
  BY <1>1, <1>5 DEF StartCompletion
<1>6. ASSUME NEW r \in Requests, Promote(r) PROVE CatalogueOK' /\ CatalogueStep
  <2>1. PICK x : x = request[r]  OBVIOUS
  <2>2. PICK p : p = PromoteTo(x, x.entities)  OBVIOUS
  <2>3. PICK applied : applied = (~Held(x) /\ ~Refused(x, p))  OBVIOUS
  <2>4. /\ x.pc = "promote" /\ unannounced' = unannounced
        /\ (db' = p.db /\ catalog' = p.catalog) \/ (db' = db /\ catalog' = catalog)
    BY <1>6, <2>1, <2>2, <2>3, Zenon DEF Promote
  <2>5. x.s \in Sessions /\ StagesOK  BY <2>1, <2>4 DEF SyncTypes, RequestOK
  <2>6. Sound(p) /\ (Told(db, catalog, p.db, p.catalog) \/ catalog.epoch < p.catalog.epoch)
    BY <2>2, <2>5, PromoteIs DEF CatalogueOK
  <2>7. CASE db' = p.db /\ catalog' = p.catalog
    BY <2>4, <2>6, <2>7 DEF Sound, CatalogueOK, CatalogueStep
  <2>. QED  BY <1>1, <2>4, <2>7
<1>7. ASSUME NEW r \in Requests, NEW n, PromoteExpires(r, n) PROVE CatalogueOK' /\ CatalogueStep
  <2>1. db' = db /\ catalog' = catalog /\ unannounced' = unannounced  BY <1>7, Zenon DEF PromoteExpires
  <2>. QED  BY <1>1, <2>1
<1>8. ASSUME NEW r \in Requests, Settle(r) PROVE CatalogueOK' /\ CatalogueStep
  <2>1. db' = db /\ catalog' = catalog /\ unannounced' = unannounced  BY <1>8, Zenon DEF Settle
  <2>. QED  BY <1>1, <2>1
<1>9. ASSUME NEW e \in Entities, clearOnecEntity(e) PROVE CatalogueOK' /\ CatalogueStep
  BY <1>9, ClearEntityIs DEF CatalogueOK, CatalogueStep
<1>10. CASE SyncCrash  BY <1>1, <1>10 DEF SyncCrash
<1>. QED
  BY <1>2, <1>3, <1>4, <1>5, <1>6, <1>7, <1>8, <1>9, <1>10 DEF SyncNext

-----------------------------------------------------------------------------
(* What the client knows.                                                    *)

FirstKept(c) == IF c.changes = <<>> THEN c.revision ELSE c.changes[1].revision
Lost(c, gone, after) == after < c.min \/ (gone /\ after < FirstKept(c))
Agrees(d, products, g) ==
  IF g \in DOMAIN d /\ d[g].active
  THEN g \in DOMAIN products /\ products[g] = d[g].ver
  ELSE g \notin DOMAIN products

ClientOK ==
  /\ client = [epoch |-> client.epoch, revision |-> client.revision, products |-> client.products,
               cursor |-> client.cursor]
  /\ client.revision \in Nat /\ client.cursor \in 0..Done
  /\ client.epoch = None => client.cursor = 0
  /\ client.epoch # None => client.epoch \in Nat /\ client.epoch =< catalog.epoch
  /\ client.epoch = catalog.epoch => client.revision =< catalog.revision
  /\ client.products = [g \in DOMAIN client.products |-> client.products[g]]
  /\ \A g \in DOMAIN client.products : \E n \in DOMAIN ProductOrder : n =< client.cursor /\ ProductOrder[n] = g
CallOK ==
  call # None =>
    /\ call.kind \in {"snapshot", "changes"} /\ call.epoch \in Nat /\ call.revision \in Nat
    /\ call.epoch =< catalog.epoch /\ (call.epoch = catalog.epoch => call.revision =< catalog.revision)
    /\ client.epoch \in {None, call.epoch}
    /\ call.kind = "changes" <=> client.cursor = Done
    /\ call.kind = "changes" /\ ~slipped /\ call.epoch = catalog.epoch => ~pruned /\ catalog.min =< client.revision
Knows(g) ==
  \/ Agrees(db, client.products, g)
  \/ Announced(catalog, g, client.revision)
  \/ Lost(catalog, pruned, client.revision)
Follows ==
  client.epoch = catalog.epoch /\ ~unannounced /\ ~slipped =>
    \A n \in DOMAIN ProductOrder : n =< client.cursor => Knows(ProductOrder[n])

LEMMA OrderIs ==
  /\ Len(ProductOrder) \in Nat /\ DOMAIN ProductOrder = 1..Len(ProductOrder) /\ Done = Len(ProductOrder) + 1 /\ Done \in Nat
  /\ \A n \in DOMAIN ProductOrder : ProductOrder[n] \in Products /\ n < Done
  /\ \A g \in Products : \E n \in DOMAIN ProductOrder : ProductOrder[n] = g
  /\ \A m, n \in DOMAIN ProductOrder : ProductOrder[m] = ProductOrder[n] => m = n
<1>1. PICK L : L = Len(ProductOrder)  OBVIOUS
<1>2. L \in Nat /\ DOMAIN ProductOrder = 1..L /\ Done = L + 1
  BY <1>1, FeedAssumption DEF Done
<1>3. \A n \in DOMAIN ProductOrder : ProductOrder[n] \in Products  BY FeedAssumption DEF Products
<1>4. \A g \in Products : \E n \in DOMAIN ProductOrder : ProductOrder[n] = g
  BY FeedAssumption DEF Products
<1>. QED  BY <1>1, <1>2, <1>3, <1>4, FeedAssumption

LEMMA FirstKeptIs ==
  ASSUME NEW c, CatalogOK(c)
  PROVE  /\ FirstKept(c) \in Nat /\ c.min =< FirstKept(c) /\ FirstKept(c) =< c.revision
         /\ c.changes # <<>> => 1 \in DOMAIN c.changes
         /\ \A n \in DOMAIN c.changes : c.changes # <<>> /\ FirstKept(c) =< c.changes[n].revision
<1>1. PICK s, T : s = c.changes /\ s \in Seq(T)  BY DEF CatalogOK
<1>2. Len(s) \in Nat /\ DOMAIN s = 1..Len(s) /\ (s # <<>> => Len(s) > 0)  BY <1>1
<1>3. s # <<>> => 1 \in DOMAIN s  BY <1>2
<1>4. ASSUME NEW n \in DOMAIN s PROVE s # <<>> /\ 1 \in DOMAIN s /\ (n = 1 \/ 1 < n)
  BY <1>2
<1>5. c.revision \in Nat /\ c.min \in Nat /\ \A n \in DOMAIN s : s[n].revision \in Nat
  BY <1>1 DEF CatalogOK, IsChange
<1>6. FirstKept(c) \in Nat /\ c.min =< FirstKept(c) /\ FirstKept(c) =< c.revision
  BY <1>1, <1>3, <1>5 DEF FirstKept, CatalogOK
<1>7. ASSUME NEW n \in DOMAIN s PROVE FirstKept(c) =< s[n].revision
  <2>1. FirstKept(c) = s[1].revision  BY <1>1, <1>4 DEF FirstKept
  <2>2. n # 1 => s[1].revision < s[n].revision  BY <1>1, <1>4 DEF CatalogOK
  <2>. QED  BY <1>4, <1>5, <2>1, <2>2
<1>. QED  BY <1>1, <1>3, <1>4, <1>6, <1>7

LEMMA LostStays ==
  ASSUME NEW c, NEW k, CatalogOK(c), Grown(c, k), NEW gone, NEW after \in Nat, Lost(c, gone, after)
  PROVE  Lost(k, gone, after)
<1>1. CatalogOK(k) /\ k.min = c.min /\ c.revision =< k.revision  BY DEF Grown
<1>2. FirstKept(c) =< FirstKept(k)
  <2>1. CASE k.changes = <<>>
    BY <1>1, <2>1, FirstKeptIs DEF FirstKept, CatalogOK
  <2>2. CASE k.changes # <<>> /\ 1 \in DOMAIN c.changes
    <3>1. FirstKept(k) = c.changes[1].revision  BY <2>2 DEF Grown, FirstKept
    <3>. QED  BY <2>2, <3>1, FirstKeptIs
  <2>3. CASE k.changes # <<>> /\ 1 \notin DOMAIN c.changes
    <3>1. 1 \in DOMAIN k.changes  BY <1>1, <2>3, FirstKeptIs
    <3>2. c.revision < k.changes[1].revision  BY <2>3, <3>1 DEF Grown
    <3>3. FirstKept(k) = k.changes[1].revision  BY <2>3 DEF FirstKept
    <3>4. FirstKept(c) = c.revision  BY <2>3, FirstKeptIs DEF FirstKept
    <3>5. FirstKept(k) \in Nat /\ FirstKept(c) \in Nat  BY <1>1, FirstKeptIs
    <3>. QED  BY <3>2, <3>3, <3>4, <3>5
  <2>. QED  BY <2>1, <2>2, <2>3
<1>3. FirstKept(c) \in Nat /\ FirstKept(k) \in Nat /\ c.min \in Nat  BY <1>1, FirstKeptIs DEF CatalogOK
<1>. QED  BY <1>1, <1>2, <1>3 DEF Lost

\* 1C changes the catalogue.
FeedOK == ClientOK /\ CallOK /\ Follows

LEMMA SyncKeepsFeed ==
  ASSUME CatalogueOK, CatalogueOK', CatalogueStep, FeedOK, UNCHANGED feed
  PROVE  FeedOK'
<1>1. client' = client /\ call' = call /\ pruned' = pruned /\ slipped' = slipped  BY DEF feed
<1>2. /\ catalog.epoch \in Nat /\ catalog'.epoch \in Nat /\ catalog.revision \in Nat /\ catalog'.revision \in Nat
      /\ None \notin Nat
  BY CatalogueAssumption DEF CatalogueOK, CatalogOK
<1>3. CASE Told(db, catalog, db', catalog')
  <2>1. /\ Grown(catalog, catalog') /\ catalog'.epoch = catalog.epoch /\ catalog'.min = catalog.min
        /\ catalog.revision =< catalog'.revision
        /\ DOMAIN catalog.changes \subseteq DOMAIN catalog'.changes
        /\ \A n \in DOMAIN catalog.changes : catalog'.changes[n] = catalog.changes[n]
    BY <1>3 DEF Told, Grown
  <2>2. ClientOK'  BY <1>1, <1>2, <2>1 DEF FeedOK, ClientOK
  <2>3. CallOK'  BY <1>1, <1>2, <2>1 DEF FeedOK, CallOK
  <2>4. ASSUME client.epoch = catalog.epoch, NEW g \in Products, Knows(g) PROVE Knows(g)'
    <3>1. client.revision \in Nat /\ client.revision =< catalog.revision  BY <2>4 DEF FeedOK, ClientOK
    <3>2. CASE Lost(catalog, pruned, client.revision)
      <4>1. Lost(catalog', pruned, client.revision)  BY <2>1, <3>1, <3>2, LostStays DEF CatalogueOK
      <4>. QED  BY <1>1, <4>1 DEF Knows
    <3>3. CASE Announced(catalog, g, client.revision)
      <4>1. Announced(catalog', g, client.revision)  BY <2>1, <3>3 DEF Announced
      <4>. QED  BY <1>1, <4>1 DEF Knows
    <3>4. CASE Announced(catalog', g, catalog.revision)
      <4>1. PICK n \in DOMAIN catalog'.changes : catalog'.changes[n].guid = g /\ catalog.revision < catalog'.changes[n].revision
        BY <3>4 DEF Announced
      <4>2. catalog'.changes[n].revision \in Nat  BY DEF CatalogueOK, CatalogOK, IsChange
      <4>3. client.revision < catalog'.changes[n].revision  BY <1>2, <3>1, <4>1, <4>2
      <4>4. Announced(catalog', g, client.revision)  BY <4>1, <4>3 DEF Announced
      <4>. QED  BY <1>1, <4>4 DEF Knows
    <3>5. CASE SameAt(db, db', g) /\ Agrees(db, client.products, g)
      <4>1. Agrees(db', client.products, g)  BY <3>5 DEF SameAt, SameRow, Agrees
      <4>. QED  BY <1>1, <4>1 DEF Knows
    <3>. QED  BY <1>3, <2>4, <3>2, <3>3, <3>4, <3>5 DEF Knows, Told
  <2>5. Follows'
    <3>1. SUFFICES ASSUME client.epoch = catalog.epoch, ~unannounced, ~slipped,
                          NEW n \in DOMAIN ProductOrder, n =< client.cursor
                   PROVE  Knows(ProductOrder[n])'
      BY <1>1, <2>1 DEF Follows, CatalogueStep
    <3>2. Knows(ProductOrder[n]) /\ ProductOrder[n] \in Products  BY <3>1, OrderIs DEF FeedOK, Follows
    <3>. QED  BY <2>4, <3>1, <3>2
  <2>. QED  BY <2>2, <2>3, <2>5 DEF FeedOK
<1>4. CASE catalog.epoch < catalog.epoch'
  <2>1. ClientOK'  BY <1>1, <1>2, <1>4 DEF FeedOK, ClientOK
  <2>2. CallOK'  BY <1>1, <1>2, <1>4 DEF FeedOK, CallOK
  <2>3. Follows'  BY <1>1, <1>2, <1>4 DEF FeedOK, ClientOK, Follows
  <2>. QED  BY <2>1, <2>2, <2>3 DEF FeedOK
<1>5. CASE unannounced' /\ catalog' = catalog
  <2>1. ClientOK'  BY <1>1, <1>5 DEF FeedOK, ClientOK
  <2>2. CallOK'  BY <1>1, <1>5 DEF FeedOK, CallOK
  <2>3. Follows'  BY <1>5 DEF Follows
  <2>. QED  BY <2>1, <2>2, <2>3 DEF FeedOK
<1>. QED  BY <1>3, <1>4, <1>5 DEF CatalogueStep

LEMMA PageIs ==
  ASSUME NEW L \in Nat, NEW S, S \subseteq 1..L, NEW page, page = FirstPage(S)
  PROVE  /\ page \subseteq S /\ (page = {} => S = {})
         /\ page # {} => /\ LastOf(page) \in page /\ \A j \in page : j =< LastOf(page)
                         /\ \A i \in S : i =< LastOf(page) => i \in page
<1>1. page = {i \in S : Cardinality({j \in S : j =< i}) =< PageSize}  BY DEF FirstPage
<1>2. PageSize \in Nat /\ 1 =< PageSize  BY FeedAssumption
<1>3. IsFiniteSet(S)
  <2>1. 1 \in Int /\ L \in Int  OBVIOUS
  <2>2. IsFiniteSet(1..L)  BY <2>1, FS_Interval
  <2>. QED  BY <2>2, FS_Subset
<1>4. ASSUME S # {} PROVE page # {}
  <2>1. S \subseteq Nat /\ S # {}  BY <1>4
  <2>2. PICK m \in S : \A k \in S : ~(<<k, m>> \in OpToRel(<, Nat))
    BY <2>1, WFMin, NatLessThanWellFounded, Zenon
  <2>3. \A k \in S : k =< m => k = m
    <3>1. SUFFICES ASSUME NEW k \in S, k < m PROVE FALSE  BY <2>1
    <3>2. k \in Nat /\ m \in Nat  BY <2>1
    <3>. QED  BY <2>2, <3>1, <3>2, Zenon DEF OpToRel
  <2>4. {j \in S : j =< m} = {m}
    <3>1. m \in Nat  BY <2>1
    <3>2. m =< m  BY <3>1
    <3>. QED  BY <2>3, <3>2
  <2>5. Cardinality({m}) = 1  BY FS_Singleton
  <2>6. m \in page  BY <1>1, <1>2, <2>4, <2>5
  <2>. QED  BY <2>6
<1>5. ASSUME page # {} PROVE LastOf(page) \in page /\ \A j \in page : j =< LastOf(page)
  <2>1. PICK T : T = {L - n : n \in page}  OBVIOUS
  <2>2. \A n \in page : n \in Nat /\ L - n \in Nat  BY <1>1
  <2>3. T \subseteq Nat /\ T # {}  BY <1>5, <2>1, <2>2
  <2>4. PICK m \in T : \A k \in T : ~(<<k, m>> \in OpToRel(<, Nat))
    BY <2>3, WFMin, NatLessThanWellFounded, Zenon
  <2>5. PICK top \in page : m = L - top  BY <2>1
  <2>6. ASSUME NEW n \in page PROVE n =< top
    <3>1. L - n \in T /\ L - n \in Nat /\ m \in Nat  BY <2>1, <2>2, <2>3
    <3>2. ~(L - n < m)  BY <2>4, <3>1, Zenon DEF OpToRel
    <3>3. n \in Nat /\ top \in Nat  BY <2>2
    <3>. QED  BY <2>5, <3>2, <3>3
  <2>7. \E i \in page : \A j \in page : j =< i  BY <2>6
  <2>8. LastOf(page) = CHOOSE i \in page : \A j \in page : j =< i  BY DEF LastOf
  <2>. QED  BY <2>7, <2>8, Zenon
<1>6. ASSUME page # {}, NEW i \in S, i =< LastOf(page) PROVE i \in page
  <2>1. PICK l \in page : l = LastOf(page)  BY <1>5, <1>6
  <2>2. PICK A : A = {j \in S : j =< i}  OBVIOUS
  <2>3. PICK B : B = {j \in S : j =< l}  OBVIOUS
  <2>4. A \subseteq B
    <3>1. i \in Nat /\ l \in Nat /\ S \subseteq Nat  BY <1>1
    <3>2. i =< l  BY <1>6, <2>1
    <3>3. ASSUME NEW j \in S, j =< i PROVE j =< l
      <4>1. j \in Nat  BY <3>1
      <4>. QED  BY <3>1, <3>2, <3>3, <4>1
    <3>. QED  BY <2>2, <2>3, <3>3
  <2>5. IsFiniteSet(B)  BY <1>3, <2>3, FS_Subset
  <2>6. IsFiniteSet(A) /\ Cardinality(A) =< Cardinality(B)  BY <2>4, <2>5, FS_Subset
  <2>7. Cardinality(A) \in Nat /\ Cardinality(B) \in Nat  BY <2>5, <2>6, FS_CardinalityType
  <2>8. Cardinality(B) =< PageSize  BY <1>1, <2>1, <2>3
  <2>9. Cardinality(A) =< PageSize  BY <1>2, <2>6, <2>7, <2>8
  <2>. QED  BY <1>1, <2>2, <2>9
<1>. QED  BY <1>1, <1>4, <1>5, <1>6

\* The client reads the state.
LEMMA ReadKeepsFeed ==
  ASSUME CatalogueOK, FeedOK, NEW kind \in {"snapshot", "changes"}, ReadState(kind)
  PROVE  FeedOK'
<1>1. /\ call = None /\ (kind = "snapshot" <=> client.cursor # Done)
      /\ UNCHANGED <<sync, prunes, pruned>>
  BY DEF ReadState
<1>2. db' = db /\ catalog' = catalog /\ unannounced' = unannounced /\ pruned' = pruned  BY <1>1 DEF sync
<1>3. catalog.epoch \in Nat /\ catalog.revision \in Nat /\ catalog.min \in Nat /\ catalog.min =< catalog.revision /\ None \notin Nat
  BY CatalogueAssumption DEF CatalogueOK, CatalogOK
<1>4. Done \in Nat /\ Done # 0  BY OrderIs
<1>5. PICK stale : stale = (client.epoch # None /\ client.epoch # catalog.epoch)  OBVIOUS
<1>6. PICK behind : behind = (kind = "changes" /\ client.revision < catalog.min /\ client.revision # catalog.revision)
  OBVIOUS
<1>7. IF stale \/ behind
      THEN client' = NoProducts /\ call' = call /\ slipped' = slipped
      ELSE /\ call' = [kind |-> kind, epoch |-> catalog.epoch, revision |-> catalog.revision]
           /\ slipped' = (slipped \/ (kind = "changes" /\ pruned))
           /\ client' = client
  BY <1>5, <1>6 DEF ReadState
<1>8. CASE stale \/ behind
  <2>1. client' = [epoch |-> None, revision |-> 0, products |-> <<>>, cursor |-> 0] /\ call' = None
    BY <1>1, <1>7, <1>8 DEF NoProducts
  <2>2. ClientOK'  BY <1>2, <1>3, <1>4, <2>1 DEF ClientOK
  <2>3. CallOK'  BY <2>1 DEF CallOK
  <2>4. Follows'  BY <1>2, <1>3, <2>1 DEF Follows
  <2>. QED  BY <2>2, <2>3, <2>4 DEF FeedOK
<1>9. CASE ~(stale \/ behind)
  <2>1. /\ call' = [kind |-> kind, epoch |-> catalog.epoch, revision |-> catalog.revision] /\ client' = client
        /\ slipped' = (slipped \/ (kind = "changes" /\ pruned))
    BY <1>7, <1>9
  <2>2. ClientOK'  BY <1>2, <2>1 DEF FeedOK, ClientOK
  <2>3. client.epoch \in {None, catalog.epoch} /\ client.revision \in Nat  BY <1>5, <1>9 DEF FeedOK, ClientOK
  <2>4. kind = "changes" => catalog.min =< client.revision
    <3>1. PICK rev \in Nat, low \in Nat, high \in Nat :
            rev = client.revision /\ low = catalog.min /\ high = catalog.revision /\ low =< high
      BY <1>3, <2>3
    <3>2. ~(kind = "changes" /\ rev < low /\ rev # high)  BY <1>6, <1>9, <3>1
    <3>3. kind = "changes" => low =< rev  BY <3>1, <3>2
    <3>. QED  BY <3>1, <3>3
  <2>5. kind = "changes" <=> client.cursor = Done  BY <1>1
  <2>6. /\ call'.kind = kind /\ call'.epoch = catalog.epoch /\ call'.revision = catalog.revision
    BY <2>1
  <2>7. CallOK'
    <3>1. kind = "changes" /\ ~slipped' => ~pruned  BY <2>1
    <3>2. catalog.epoch =< catalog.epoch /\ catalog.revision =< catalog.revision  BY <1>3
    <3>. QED  BY <1>2, <1>3, <2>1, <2>3, <2>4, <2>5, <2>6, <3>1, <3>2 DEF CallOK
  <2>8. Follows'
    <3>1. ~slipped' => ~slipped  BY <2>1
    <3>2. \A g : Knows(g)' <=> Knows(g)  BY <1>2, <2>1 DEF Knows
    <3>. QED  BY <1>2, <2>1, <3>1, <3>2 DEF FeedOK, Follows
  <2>. QED  BY <2>2, <2>7, <2>8 DEF FeedOK
<1>. QED  BY <1>8, <1>9

\* The rows of a page of the snapshot.
LEMMA SnapshotKeepsFeed ==
  ASSUME CatalogueOK, FeedOK, getCatalogSnapshot
  PROVE  FeedOK'
<1>1. PICK from : from = ActiveFrom(db, client.cursor)  OBVIOUS
<1>2. PICK page : page = FirstPage(from)  OBVIOUS
<1>3. PICK sent : sent = [g \in {ProductOrder[i] : i \in page} |-> db[g].ver]  OBVIOUS
<1>4. PICK products : products = Over(sent, client.products)  OBVIOUS
<1>5. PICK cursor : cursor = IF from = page THEN Done ELSE LastOf(page)  OBVIOUS
<1>6. PICK revision : revision = IF client.epoch = None THEN call.revision ELSE client.revision  OBVIOUS
<1>7. /\ call # None /\ call.kind = "snapshot" /\ call' = None
      /\ client' = [epoch |-> call.epoch, revision |-> revision, products |-> products, cursor |-> cursor]
      /\ UNCHANGED <<sync, reads, prunes, pruned, slipped>>
  BY <1>1, <1>2, <1>3, <1>4, <1>5, <1>6, Zenon DEF getCatalogSnapshot
<1>8. db' = db /\ catalog' = catalog /\ unannounced' = unannounced /\ pruned' = pruned /\ slipped' = slipped
  BY <1>7 DEF sync
<1>9. client'.epoch = call.epoch /\ client'.revision = revision /\ client'.products = products /\ client'.cursor = cursor
  BY <1>7
<1>10. /\ call.epoch \in Nat /\ call.revision \in Nat /\ call.epoch =< catalog.epoch
       /\ call.epoch = catalog.epoch => call.revision =< catalog.revision
       /\ client.epoch \in {None, call.epoch} /\ client.cursor # Done
  BY <1>7 DEF FeedOK, CallOK
<1>11. /\ client.revision \in Nat /\ client.cursor \in 0..Done
       /\ client.epoch = None => client.cursor = 0
       /\ client.epoch = catalog.epoch => client.revision =< catalog.revision
       /\ \A g \in DOMAIN client.products : \E n \in DOMAIN ProductOrder : n =< client.cursor /\ ProductOrder[n] = g
  BY DEF FeedOK, ClientOK
<1>12. revision \in Nat /\ (call.epoch = catalog.epoch => revision =< catalog.revision)
  BY <1>6, <1>10, <1>11
<1>13. PICK L \in Nat : L = Len(ProductOrder) /\ DOMAIN ProductOrder = 1..L /\ Done = L + 1
  BY OrderIs
<1>14. from = {i \in (client.cursor + 1)..L : ProductOrder[i] \in DOMAIN db /\ db[ProductOrder[i]].active}
  BY <1>1, <1>13 DEF ActiveFrom
<1>15. PICK cur \in Nat : cur = client.cursor /\ cur < L + 1  BY <1>10, <1>11, <1>13
<1>16. from \subseteq 1..L /\ \A i \in from : cur < i  BY <1>14, <1>15
<1>17. /\ page \subseteq from /\ (page = {} => from = {})
       /\ page # {} => /\ LastOf(page) \in page /\ \A j \in page : j =< LastOf(page)
                       /\ \A i \in from : i =< LastOf(page) => i \in page
  BY <1>2, <1>16, PageIs
<1>18. /\ cursor \in 0..Done /\ cur < cursor
       /\ \A i \in page : i =< cursor
       /\ \A i \in from : i =< cursor => i \in page
  <2>1. CASE from = page
    <3>1. cursor = L + 1  BY <1>5, <1>13, <2>1
    <3>. QED  BY <1>13, <1>15, <1>16, <2>1, <3>1
  <2>2. CASE from # page
    <3>1. page # {}  BY <1>17, <2>2
    <3>2. PICK l \in 1..L : l = LastOf(page) /\ l \in page /\ cur < l  BY <1>16, <1>17, <3>1
    <3>3. cursor = l  BY <1>5, <2>2, <3>2
    <3>. QED  BY <1>13, <1>15, <1>17, <3>1, <3>2, <3>3
  <2>. QED  BY <2>1, <2>2
<1>19. /\ DOMAIN products = {ProductOrder[i] : i \in page} \cup DOMAIN client.products
       /\ \A i \in page : products[ProductOrder[i]] = db[ProductOrder[i]].ver
       /\ \A g \in DOMAIN client.products : g \notin {ProductOrder[i] : i \in page} => products[g] = client.products[g]
  BY <1>3, <1>4 DEF Over
<1>20. ASSUME NEW g \in DOMAIN products
       PROVE  \E n \in DOMAIN ProductOrder : n =< cursor /\ ProductOrder[n] = g
  <2>1. CASE g \in DOMAIN client.products
    <3>1. PICK n \in 1..L : n =< cur /\ ProductOrder[n] = g  BY <1>11, <1>13, <1>15, <2>1
    <3>2. n =< cursor  BY <1>13, <1>15, <1>18, <3>1
    <3>. QED  BY <1>13, <3>1, <3>2
  <2>2. CASE \E i \in page : ProductOrder[i] = g  BY <1>13, <1>16, <1>17, <1>18, <2>2
  <2>. QED  BY <1>19, <2>1, <2>2
<1>21. ClientOK'
  <2>1. None \notin Nat  BY CatalogueAssumption
  <2>2. products = [g \in DOMAIN products |-> products[g]]  BY <1>4 DEF Over
  <2>. QED  BY <1>7, <1>8, <1>9, <1>10, <1>12, <1>18, <1>20, <2>1, <2>2 DEF ClientOK
<1>22. CallOK'  BY <1>7 DEF CallOK
<1>23. Follows'
  <2>1. SUFFICES ASSUME call.epoch = catalog.epoch, ~unannounced, ~slipped,
                        NEW n \in 1..L, n =< cursor
                 PROVE  Knows(ProductOrder[n])'
    BY <1>8, <1>9, <1>13 DEF Follows
  <2>2. PICK g : g = ProductOrder[n]  OBVIOUS
  <2>3. \A m \in 1..L : ProductOrder[m] = g => m = n  BY <1>13, <2>2, OrderIs
  <2>4. CASE n =< cur
    <3>1. client.epoch = call.epoch /\ revision = client.revision
      <4>1. cur # 0  BY <1>15, <2>4
      <4>. QED  BY <1>6, <1>10, <1>11, <1>15, <4>1, CatalogueAssumption
    <3>2. Knows(g)  BY <1>13, <1>15, <2>1, <2>2, <2>4, <3>1 DEF FeedOK, Follows
    <3>3. ~\E i \in page : ProductOrder[i] = g
      <4>1. n \notin page  BY <1>15, <1>16, <1>17, <2>4
      <4>. QED  BY <1>16, <1>17, <2>3, <4>1
    <3>4. (g \in DOMAIN products <=> g \in DOMAIN client.products) /\ (g \in DOMAIN products => products[g] = client.products[g])
      BY <1>19, <3>3
    <3>5. Agrees(db, client.products, g) => Agrees(db, products, g)  BY <3>4 DEF Agrees
    <3>. QED  BY <1>8, <1>9, <2>2, <3>1, <3>2, <3>5 DEF Knows
  <2>5. CASE cur < n
    <3>1. n \in from <=> g \in DOMAIN db /\ db[g].active  BY <1>13, <1>14, <1>15, <2>2, <2>5
    <3>2. CASE n \in from
      <4>1. n \in page  BY <1>18, <2>1, <3>2
      <4>2. Agrees(db, products, g)  BY <1>19, <2>2, <3>1, <3>2, <4>1 DEF Agrees
      <4>. QED  BY <1>8, <1>9, <2>2, <4>2 DEF Knows
    <3>3. CASE n \notin from
      <4>1. ~\E i \in page : ProductOrder[i] = g  BY <1>16, <1>17, <2>3, <3>3
      <4>2. g \notin DOMAIN client.products
        <5>1. SUFFICES ASSUME g \in DOMAIN client.products PROVE FALSE  OBVIOUS
        <5>2. PICK m \in 1..L : m =< cur /\ ProductOrder[m] = g  BY <1>11, <1>13, <1>15, <5>1
        <5>. QED  BY <1>15, <2>3, <2>5, <5>2
      <4>3. Agrees(db, products, g)  BY <1>19, <3>1, <3>3, <4>1, <4>2 DEF Agrees
      <4>. QED  BY <1>8, <1>9, <2>2, <4>3 DEF Knows
    <3>. QED  BY <3>2, <3>3
  <2>. QED  BY <1>15, <2>4, <2>5
<1>. QED  BY <1>21, <1>22, <1>23 DEF FeedOK

\* A page of changes.
LEMMA ChangesKeepFeed ==
  ASSUME CatalogueOK, FeedOK, getCatalogChanges
  PROVE  FeedOK'
<1>1. PICK after : after = {n \in DOMAIN catalog.changes : catalog.changes[n].revision > client.revision}  OBVIOUS
<1>2. PICK page : page = FirstPage(after)  OBVIOUS
<1>3. PICK told : told = {catalog.changes[n].guid : n \in page}  OBVIOUS
<1>4. PICK kept : kept = {g \in told : g \in DOMAIN db /\ db[g].active}  OBVIOUS
<1>5. PICK old : old = client.products  OBVIOUS
<1>6. PICK products : products = [g \in kept \cup (DOMAIN old \ told) |-> IF g \in told THEN db[g].ver ELSE old[g]]
  OBVIOUS
<1>7. PICK revision : revision = IF page = {} THEN client.revision ELSE catalog.changes[LastOf(page)].revision
  OBVIOUS
<1>8. /\ call # None /\ call.kind = "changes" /\ call' = None
      /\ client' = [client EXCEPT !.products = products, !.revision = revision]
      /\ UNCHANGED <<sync, reads, prunes, pruned, slipped>>
  <2>1. /\ call # None /\ call.kind = "changes" /\ call' = None
        /\ UNCHANGED <<sync, reads, prunes, pruned, slipped>>
    BY DEF getCatalogChanges
  <2>2. client' = [client EXCEPT
           !.products = [g \in kept \cup (DOMAIN @ \ told) |-> IF g \in told THEN db[g].ver ELSE @[g]],
           !.revision = IF page = {} THEN @ ELSE catalog.changes[LastOf(page)].revision]
    BY <1>1, <1>2, <1>3, <1>4, Zenon DEF getCatalogChanges
  <2>. QED  BY <1>5, <1>6, <1>7, <2>1, <2>2
<1>9. db' = db /\ catalog' = catalog /\ unannounced' = unannounced /\ pruned' = pruned /\ slipped' = slipped
  BY <1>8 DEF sync
<1>10. /\ client = [epoch |-> client.epoch, revision |-> client.revision, products |-> client.products,
               cursor |-> client.cursor]
       /\ client.revision \in Nat /\ client.cursor \in 0..Done
       /\ client.epoch = None => client.cursor = 0
       /\ client.epoch # None => client.epoch \in Nat /\ client.epoch =< catalog.epoch
       /\ client.epoch = catalog.epoch => client.revision =< catalog.revision
       /\ \A g \in DOMAIN client.products : \E n \in DOMAIN ProductOrder : n =< client.cursor /\ ProductOrder[n] = g
  BY DEF FeedOK, ClientOK
<1>11. client' = [epoch |-> client.epoch, revision |-> revision, products |-> products, cursor |-> client.cursor]
  BY <1>8, <1>10
<1>12. /\ client'.epoch = client.epoch /\ client'.revision = revision /\ client'.products = products
       /\ client'.cursor = client.cursor
  BY <1>11
<1>13. /\ client.epoch \in {None, call.epoch} /\ client.cursor = Done
       /\ ~slipped /\ call.epoch = catalog.epoch => ~pruned /\ catalog.min =< client.revision
  BY <1>8 DEF FeedOK, CallOK
<1>14. /\ catalog.revision \in Nat /\ catalog.epoch \in Nat /\ catalog.min \in Nat
       /\ \A n \in DOMAIN catalog.changes :
            catalog.changes[n].revision \in Nat /\ catalog.changes[n].revision =< catalog.revision
            /\ catalog.changes[n].guid \in Products
       /\ \A m, n \in DOMAIN catalog.changes : m < n => catalog.changes[m].revision < catalog.changes[n].revision
       /\ \E T : catalog.changes \in Seq(T)
  BY DEF CatalogueOK, CatalogOK, IsChange
<1>15. PICK L \in Nat : DOMAIN catalog.changes = 1..L  BY <1>14
<1>16. after \subseteq 1..L  BY <1>1, <1>15
<1>17. /\ page \subseteq after /\ (page = {} => after = {})
       /\ page # {} => /\ LastOf(page) \in page /\ \A j \in page : j =< LastOf(page)
                       /\ \A i \in after : i =< LastOf(page) => i \in page
  BY <1>2, <1>16, PageIs
<1>18. revision \in Nat /\ (client.epoch = catalog.epoch => revision =< catalog.revision)
  <2>1. page # {} => LastOf(page) \in DOMAIN catalog.changes  BY <1>1, <1>17
  <2>. QED  BY <1>7, <1>10, <1>14, <2>1
<1>19. \A g \in told : g \in Products  BY <1>1, <1>3, <1>14, <1>17
<1>20. ASSUME NEW g \in DOMAIN products
       PROVE  \E n \in DOMAIN ProductOrder : n =< client.cursor /\ ProductOrder[n] = g
  <2>1. CASE g \in told
    <3>1. PICK n \in DOMAIN ProductOrder : ProductOrder[n] = g  BY <1>19, <2>1, OrderIs
    <3>2. n =< Done  BY OrderIs
    <3>. QED  BY <1>13, <3>1, <3>2
  <2>2. CASE g \in DOMAIN old  BY <1>5, <1>10, <2>2
  <2>. QED  BY <1>4, <1>6, <2>1, <2>2
<1>21. ClientOK'
  <2>1. products = [g \in DOMAIN products |-> products[g]]  BY <1>6
  <2>. QED  BY <1>9, <1>10, <1>11, <1>12, <1>18, <1>20, <2>1 DEF ClientOK
<1>22. CallOK'  BY <1>8 DEF CallOK
<1>23. Follows'
  <2>1. SUFFICES ASSUME client.epoch = catalog.epoch, ~unannounced, ~slipped,
                        NEW n \in DOMAIN ProductOrder
                 PROVE  Knows(ProductOrder[n])'
    BY <1>9, <1>12 DEF Follows
  <2>2. PICK g : g = ProductOrder[n]  OBVIOUS
  <2>3. Knows(g)
    <3>1. n =< Done  BY OrderIs
    <3>. QED  BY <1>13, <2>1, <2>2, <3>1 DEF FeedOK, Follows
  <2>4. ~Lost(catalog, pruned, client.revision)
    <3>1. call.epoch = catalog.epoch  BY <1>13, <1>14, <2>1, CatalogueAssumption
    <3>2. ~pruned /\ catalog.min =< client.revision  BY <1>13, <2>1, <3>1
    <3>. QED  BY <1>10, <1>14, <3>2 DEF Lost
  <2>5. CASE g \in told
    <3>1. Agrees(db, products, g)  BY <1>4, <1>6, <2>5 DEF Agrees
    <3>. QED  BY <1>9, <1>12, <2>2, <3>1 DEF Knows
  <2>6. CASE g \notin told /\ Agrees(db, old, g)
    <3>1. (g \in DOMAIN products <=> g \in DOMAIN old) /\ (g \in DOMAIN products => products[g] = old[g])
      BY <1>4, <1>6, <2>6
    <3>2. Agrees(db, products, g)  BY <2>6, <3>1 DEF Agrees
    <3>. QED  BY <1>9, <1>12, <2>2, <3>2 DEF Knows
  <2>7. CASE g \notin told /\ Announced(catalog, g, client.revision)
    <3>1. PICK k \in 1..L : catalog.changes[k].guid = g /\ client.revision < catalog.changes[k].revision
      BY <1>15, <2>7 DEF Announced
    <3>2. k \in after
      <4>1. catalog.changes[k].revision > client.revision  BY <1>10, <1>14, <1>15, <3>1
      <4>. QED  BY <1>1, <1>15, <4>1
    <3>3. k \notin page  BY <1>3, <2>7, <3>1
    <3>4. page # {}  BY <1>17, <3>2
    <3>5. PICK l \in 1..L : l = LastOf(page) /\ ~(k =< l)  BY <1>16, <1>17, <3>2, <3>3, <3>4
    <3>6. catalog.changes[l].revision < catalog.changes[k].revision  BY <1>14, <1>15, <3>5
    <3>7. Announced(catalog, g, revision)  BY <1>7, <1>15, <3>1, <3>4, <3>5, <3>6 DEF Announced
    <3>. QED  BY <1>9, <1>12, <2>2, <3>7 DEF Knows
  <2>. QED  BY <1>5, <2>3, <2>4, <2>5, <2>6, <2>7 DEF Knows
<1>. QED  BY <1>21, <1>22, <1>23 DEF FeedOK

\* Changes are forgotten.
Dropped(s, n, t, T) ==
  /\ t \in Seq(T) /\ Len(s) \in Nat /\ DOMAIN s = 1..Len(s) /\ DOMAIN t = 1..(Len(s) - n) /\ n \in 1..Len(s)
  /\ \A k \in DOMAIN t : t[k] = s[n + k] /\ n + k \in DOMAIN s
  /\ t # <<>> <=> n < Len(s)

LEMMA DroppedIs ==
  ASSUME NEW s, NEW T, s \in Seq(T), NEW n \in DOMAIN s, NEW t, t = SubSeq(s, n + 1, Len(s))
  PROVE  Dropped(s, n, t, T)
<1>1. PICK L \in Nat : L = Len(s) /\ DOMAIN s = 1..L  OBVIOUS
<1>2. n \in 1..L  BY <1>1
<1>3. t \in Seq(T) /\ Len(t) = L - n
  <2>1. \A k \in (n + 1)..L : s[k] \in T  BY <1>1, <1>2
  <2>2. t = [k \in 1..(L - n) |-> s[k + n]]
    <3>1. (n + 1) \in Nat /\ L - (n + 1) + 1 = L - n  BY <1>2
    <3>. QED  BY <1>1, <1>2, <3>1
  <2>3. \A k \in 1..(L - n) : k + n \in (n + 1)..L  BY <1>2
  <2>4. t \in [1..(L - n) -> T]  BY <2>1, <2>2, <2>3
  <2>5. L - n \in Nat  BY <1>2
  <2>. QED  BY <2>4, <2>5
<1>4. DOMAIN t = 1..(L - n)  BY <1>3
<1>5. \A k \in DOMAIN t : t[k] = s[n + k] /\ n + k \in DOMAIN s
  <2>1. ASSUME NEW k \in 1..(L - n) PROVE t[k] = s[n + k] /\ n + k \in 1..L
    <3>1. n + k \in 1..L /\ k \in 1..(L - n)  BY <1>2
    <3>. QED  BY <1>1, <1>2, <3>1
  <2>. QED  BY <1>1, <1>4, <2>1
<1>6. t # <<>> <=> n < L
  <2>1. t = <<>> <=> Len(t) = 0  BY <1>3
  <2>2. L - n = 0 <=> ~(n < L)  BY <1>2
  <2>. QED  BY <1>3, <2>1, <2>2
<1>. QED  BY <1>1, <1>2, <1>3, <1>4, <1>5, <1>6 DEF Dropped

LEMMA PruneKeepsFeed ==
  ASSUME CatalogueOK, FeedOK, NEW n \in DOMAIN catalog.changes, pruneCatalogChanges(n)
  PROVE  CatalogueOK' /\ FeedOK'
<1>1. PICK s, T : s = catalog.changes /\ s \in Seq(T)  BY DEF CatalogueOK, CatalogOK
<1>2. PICK t : t = SubSeq(s, n + 1, Len(s))  OBVIOUS
<1>3. PICK L \in Nat : L = Len(s)  BY <1>1
<1>4. /\ t \in Seq(T) /\ DOMAIN s = 1..L /\ DOMAIN t = 1..(L - n) /\ n \in 1..L
      /\ \A k \in DOMAIN t : t[k] = s[n + k] /\ n + k \in DOMAIN s
      /\ t # <<>> <=> n < L
  <2>1. n \in DOMAIN s  BY <1>1
  <2>2. Dropped(s, n, t, T)  BY <1>1, <1>2, <2>1, DroppedIs
  <2>. QED  BY <1>3, <2>2 DEF Dropped
<1>5. /\ catalog' = [catalog EXCEPT !.changes = t] /\ pruned' = TRUE
      /\ slipped' = (slipped \/ (call # None /\ call.kind = "changes"))
      /\ db' = db /\ unannounced' = unannounced /\ client' = client /\ call' = call
  BY <1>1, <1>2 DEF pruneCatalogChanges
<1>6. catalog = [epoch |-> catalog.epoch, revision |-> catalog.revision, min |-> catalog.min,
                 changes |-> catalog.changes, next |-> catalog.next]
  BY DEF CatalogueOK, CatalogOK
<1>7. PICK c : c = catalog'  OBVIOUS
<1>8. c = [epoch |-> catalog.epoch, revision |-> catalog.revision, min |-> catalog.min,
           changes |-> t, next |-> catalog.next]
  BY <1>5, <1>6, <1>7
<1>9. /\ c.epoch = catalog.epoch /\ c.revision = catalog.revision /\ c.min = catalog.min
      /\ c.changes = t /\ c.next = catalog.next
      /\ c = [epoch |-> c.epoch, revision |-> c.revision, min |-> c.min, changes |-> c.changes, next |-> c.next]
  BY <1>8
<1>10. /\ catalog.epoch \in Nat /\ catalog.revision \in Nat /\ catalog.min \in Nat /\ catalog.next \in Nat
       /\ catalog.min =< catalog.revision /\ catalog.revision < catalog.next
       /\ \A k \in DOMAIN s : IsChange(s[k]) /\ s[k].revision \in Nat
       /\ \A k \in DOMAIN s : catalog.min =< s[k].revision /\ s[k].revision =< catalog.revision
       /\ \A k, l \in DOMAIN s : k < l => s[k].revision < s[l].revision
  BY <1>1 DEF CatalogueOK, CatalogOK, IsChange
<1>11. CatalogOK(c)
  <2>1. \A k, l \in DOMAIN t : k < l => t[k].revision < t[l].revision
    <3>1. ASSUME NEW k \in DOMAIN t, NEW l \in DOMAIN t, k < l PROVE t[k].revision < t[l].revision
      <4>1. n + k < n + l  BY <1>4, <3>1
      <4>. QED  BY <1>4, <1>10, <4>1
    <3>. QED  BY <3>1
  <2>2. \A k \in DOMAIN t : IsChange(t[k]) /\ catalog.min =< t[k].revision /\ t[k].revision =< catalog.revision
    BY <1>4, <1>10
  <2>3. \E U : t \in Seq(U)  BY <1>4
  <2>. QED  BY <1>9, <1>10, <2>1, <2>2, <2>3 DEF CatalogOK
<1>12. CatalogueOK'  BY <1>5, <1>7, <1>11 DEF CatalogueOK
<1>13. ClientOK'  BY <1>5, <1>7, <1>9 DEF FeedOK, ClientOK
<1>14. CallOK'  BY <1>5, <1>7, <1>9 DEF FeedOK, CallOK
<1>15. FirstKept(catalog) =< FirstKept(c) /\ \A k \in 1..n : s[k].revision =< FirstKept(c)
  <2>1. CASE t = <<>>
    <3>1. FirstKept(c) = catalog.revision  BY <1>9, <2>1 DEF FirstKept
    <3>2. \A k \in 1..n : k \in DOMAIN s  BY <1>4
    <3>. QED  BY <1>10, <3>1, <3>2, FirstKeptIs DEF CatalogueOK
  <2>2. CASE t # <<>>
    <3>1. n + 1 \in DOMAIN s /\ FirstKept(c) = s[n + 1].revision
      <4>1. 1 \in DOMAIN t  BY <1>4, <2>2
      <4>. QED  BY <1>4, <1>9, <2>2, <4>1 DEF FirstKept
    <3>2. ASSUME NEW k \in 1..n PROVE s[k].revision =< FirstKept(c)
      <4>1. k \in DOMAIN s /\ k < n + 1  BY <1>4
      <4>2. s[k].revision \in Nat /\ s[n + 1].revision \in Nat /\ s[k].revision < s[n + 1].revision
        BY <1>10, <3>1, <4>1
      <4>. QED  BY <3>1, <4>2
    <3>3. FirstKept(catalog) =< s[n + 1].revision  BY <1>1, <3>1, FirstKeptIs DEF CatalogueOK
    <3>. QED  BY <3>1, <3>2, <3>3
  <2>. QED  BY <2>1, <2>2
<1>16. FirstKept(c) \in Nat /\ FirstKept(catalog) \in Nat  BY <1>11, FirstKeptIs DEF CatalogueOK
<1>17. ASSUME NEW g, Knows(g) PROVE Knows(g)'
  <2>1. client.revision \in Nat  BY DEF FeedOK, ClientOK
  <2>2. CASE Agrees(db, client.products, g)  BY <1>5, <2>2 DEF Knows
  <2>3. CASE Lost(catalog, pruned, client.revision)
    <3>1. Lost(c, TRUE, client.revision)  BY <1>9, <1>15, <1>16, <2>1, <2>3 DEF Lost
    <3>. QED  BY <1>5, <1>7, <3>1 DEF Knows
  <2>4. CASE Announced(catalog, g, client.revision)
    <3>1. PICK k \in 1..L : s[k].guid = g /\ client.revision < s[k].revision
      BY <1>1, <1>4, <2>4 DEF Announced
    <3>2. CASE k \in 1..n
      <4>1. s[k].revision \in Nat  BY <1>4, <1>10
      <4>2. client.revision < FirstKept(c)  BY <1>15, <1>16, <2>1, <3>1, <3>2, <4>1
      <4>3. Lost(c, TRUE, client.revision)  BY <4>2 DEF Lost
      <4>. QED  BY <1>5, <1>7, <4>3 DEF Knows
    <3>3. CASE k \notin 1..n
      <4>1. PICK m \in 1..(L - n) : m = k - n  BY <1>4, <3>3
      <4>2. t[m] = s[k] /\ m \in DOMAIN t
        <5>1. n + m = k  BY <1>4, <4>1
        <5>. QED  BY <1>4, <5>1
      <4>3. Announced(c, g, client.revision)  BY <1>9, <3>1, <4>2 DEF Announced
      <4>. QED  BY <1>5, <1>7, <4>3 DEF Knows
    <3>. QED  BY <3>2, <3>3
  <2>. QED  BY <1>17, <2>2, <2>3, <2>4 DEF Knows
<1>18. Follows'  BY <1>5, <1>7, <1>9, <1>17 DEF FeedOK, Follows
<1>. QED  BY <1>12, <1>13, <1>14, <1>18 DEF FeedOK

LEMMA MinKeepsFeed ==
  ASSUME CatalogueOK, FeedOK, updateMinAvailableRevision
  PROVE  CatalogueOK' /\ FeedOK'
<1>1. PICK low : low = FirstKept(catalog)  OBVIOUS
<1>2. /\ pruned /\ pruned' = FALSE /\ catalog' = [catalog EXCEPT !.min = low]
      /\ db' = db /\ unannounced' = unannounced /\ client' = client /\ call' = call /\ slipped' = slipped
  BY <1>1 DEF updateMinAvailableRevision, FirstKept
<1>3. catalog = [epoch |-> catalog.epoch, revision |-> catalog.revision, min |-> catalog.min,
                 changes |-> catalog.changes, next |-> catalog.next]
  BY DEF CatalogueOK, CatalogOK
<1>4. PICK c : c = catalog'  OBVIOUS
<1>5. c = [epoch |-> catalog.epoch, revision |-> catalog.revision, min |-> low,
           changes |-> catalog.changes, next |-> catalog.next]
  BY <1>2, <1>3, <1>4
<1>6. /\ c.epoch = catalog.epoch /\ c.revision = catalog.revision /\ c.min = low
      /\ c.changes = catalog.changes /\ c.next = catalog.next
      /\ c = [epoch |-> c.epoch, revision |-> c.revision, min |-> c.min, changes |-> c.changes, next |-> c.next]
  BY <1>5
<1>7. /\ low \in Nat /\ catalog.min =< low /\ low =< catalog.revision
      /\ \A n \in DOMAIN catalog.changes : low =< catalog.changes[n].revision
  BY <1>1, FirstKeptIs DEF CatalogueOK
<1>8. CatalogOK(c)  BY <1>6, <1>7 DEF CatalogueOK, CatalogOK
<1>9. CatalogueOK'  BY <1>2, <1>4, <1>8 DEF CatalogueOK
<1>10. ClientOK'  BY <1>2, <1>4, <1>6 DEF FeedOK, ClientOK
<1>11. CallOK'  BY <1>2, <1>4, <1>6 DEF FeedOK, CallOK
<1>12. ASSUME NEW g, Knows(g) PROVE Knows(g)'
  <2>1. client.revision \in Nat /\ catalog.min \in Nat  BY DEF FeedOK, ClientOK, CatalogueOK, CatalogOK
  <2>2. Lost(catalog, pruned, client.revision) => Lost(c, FALSE, client.revision)
    BY <1>1, <1>6, <1>7, <2>1 DEF Lost
  <2>3. Announced(catalog, g, client.revision) => Announced(c, g, client.revision)
    BY <1>6 DEF Announced
  <2>. QED  BY <1>2, <1>4, <1>12, <2>2, <2>3 DEF Knows
<1>13. Follows'  BY <1>2, <1>4, <1>6, <1>12 DEF FeedOK, Follows
<1>. QED  BY <1>9, <1>10, <1>11, <1>13 DEF FeedOK

LEMMA ImportedIs == RowsTyped(Imported) /\ ProductRows(Imported)
<1>1. ASSUME NEW g \in Guids, \E i \in Items : i.guid = g
      PROVE  FirstItem(g) \in Items /\ FirstItem(g).guid = g
  <2>1. PICK S : S = {i.ver : i \in {j \in Items : j.guid = g}}  OBVIOUS
  <2>2. S \subseteq Nat /\ S # {}  BY <1>1, <2>1, CatalogueAssumption
  <2>3. PICK m \in S : \A k \in S : ~(<<k, m>> \in OpToRel(<, Nat))
    BY <2>2, WFMin, NatLessThanWellFounded, Zenon
  <2>4. PICK i \in Items : i.guid = g /\ i.ver = m  BY <2>1
  <2>5. ASSUME NEW j \in Items, j.guid = g PROVE i.ver =< j.ver
    <3>1. j.ver \in S  BY <2>1, <2>5
    <3>2. j.ver \in Nat /\ m \in Nat  BY <2>2, <3>1
    <3>3. ~(j.ver < m)  BY <2>3, <3>1, <3>2, Zenon DEF OpToRel
    <3>. QED  BY <2>4, <3>2, <3>3
  <2>6. \E k \in Items : k.guid = g /\ \A j \in Items : j.guid = g => k.ver =< j.ver  BY <2>4, <2>5
  <2>7. FirstItem(g) = CHOOSE k \in Items : k.guid = g /\ \A j \in Items : j.guid = g => k.ver =< j.ver
    BY DEF FirstItem
  <2>. QED  BY <2>6, <2>7, Zenon
<1>2. PICK d : d = Imported  OBVIOUS
<1>3. DOMAIN d = Guids  BY <1>2 DEF Imported
<1>4. ASSUME NEW g \in Guids
      PROVE  d[g] = IF \E i \in Items : i.guid = g
                    THEN Row(FirstItem(g).ver, FirstItem(g).needs \cup FirstItem(g).late \cup FirstItem(g).links,
                             FirstItem(g).active)
                    ELSE Row(1, {}, TRUE)
  BY <1>2 DEF Imported
<1>5. RowsTyped(d)
  <2>1. ASSUME NEW g \in Guids PROVE IsRow(d[g])
    <3>1. \E ver, refs, active : d[g] = Row(ver, refs, active)
      <4>1. CASE \E i \in Items : i.guid = g
        <5>1. PICK refs : refs = FirstItem(g).needs \cup FirstItem(g).late \cup FirstItem(g).links  OBVIOUS
        <5>2. d[g] = Row(FirstItem(g).ver, refs, FirstItem(g).active)  BY <1>4, <4>1, <5>1
        <5>. QED  BY <5>2
      <4>2. CASE ~\E i \in Items : i.guid = g
        <5>1. d[g] = Row(1, {}, TRUE)  BY <1>4, <4>2
        <5>. QED  BY <5>1
      <4>. QED  BY <4>1, <4>2
    <3>2. PICK ver, refs, active : d[g] = Row(ver, refs, active)  BY <3>1
    <3>. QED  BY <3>2 DEF IsRow, Row
  <2>. QED  BY <1>3, <2>1 DEF RowsTyped
<1>6. ProductRows(d)
  <2>1. ASSUME NEW g \in Guids, TableOf(g) = "product"
        PROVE  \E i \in Items : i.guid = g /\ d[g].ver = i.ver /\ d[g].active = i.active
    <3>1. \E i \in Items : i.guid = g  BY <2>1 DEF TableOf
    <3>2. FirstItem(g) \in Items /\ FirstItem(g).guid = g  BY <1>1, <3>1
    <3>3. PICK refs : d[g] = Row(FirstItem(g).ver, refs, FirstItem(g).active)  BY <1>4, <3>1, Zenon
    <3>4. d[g].ver = FirstItem(g).ver /\ d[g].active = FirstItem(g).active  BY <3>3 DEF Row
    <3>. QED  BY <3>2, <3>4
  <2>. QED  BY <1>3, <2>1 DEF ProductRows
<1>. QED  BY <1>2, <1>5, <1>6

FeedInv == SyncTypes /\ CatalogueOK /\ FeedOK

LEMMA FeedInvInit == FeedInit => FeedInv
<1>1. SUFFICES ASSUME FeedInit PROVE FeedInv  OBVIOUS
<1>2. SyncTypes  BY <1>1, SyncTypesInit
<1>3. /\ db \in {<<>>, Imported}
      /\ catalog = [epoch |-> 0, revision |-> 0, min |-> 0, changes |-> <<>>, next |-> 1]
      /\ client = [epoch |-> None, revision |-> 0, products |-> <<>>, cursor |-> 0] /\ call = None
  BY <1>1 DEF FeedInit, SyncInit, NewCatalog, NoProducts
<1>4. RowsTyped(db) /\ ProductRows(db)
  <2>1. CASE db = Imported  BY <2>1, ImportedIs
  <2>2. CASE db = <<>>  BY <2>2 DEF RowsTyped, ProductRows
  <2>. QED  BY <1>3, <2>1, <2>2
<1>5. CatalogOK(catalog)
  <2>1. (\E T : catalog.changes \in Seq(T)) /\ DOMAIN catalog.changes = {}  BY <1>3
  <2>. QED  BY <1>3, <2>1 DEF CatalogOK
<1>6. Done \in Nat /\ Done # 0 /\ None \notin Nat  BY OrderIs, CatalogueAssumption
<1>7. ClientOK  BY <1>3, <1>6 DEF ClientOK
<1>8. CallOK  BY <1>3 DEF CallOK
<1>9. Follows  BY <1>3, <1>6 DEF Follows
<1>. QED  BY <1>2, <1>4, <1>5, <1>7, <1>8, <1>9 DEF FeedInv, CatalogueOK, FeedOK

LEMMA FeedInvStep == FeedInv /\ [FeedNext]_<<sync, feed>> => FeedInv'
<1>1. SUFFICES ASSUME FeedInv, [FeedNext]_<<sync, feed>> PROVE CatalogueOK' /\ FeedOK'
  BY SyncTypesStep DEF FeedInv
<1>2. SyncTypes /\ CatalogueOK /\ FeedOK  BY <1>1 DEF FeedInv
<1>3. ASSUME db' = db, catalog' = catalog PROVE CatalogueOK'  BY <1>2, <1>3 DEF CatalogueOK
<1>4. CASE SyncNext /\ UNCHANGED feed  BY <1>2, <1>4, SyncMoves, SyncKeepsFeed
<1>5. ASSUME NEW kind \in {"snapshot", "changes"}, ReadState(kind) PROVE CatalogueOK' /\ FeedOK'
  <2>1. db' = db /\ catalog' = catalog  BY <1>5 DEF ReadState, sync
  <2>. QED  BY <1>2, <1>3, <1>5, <2>1, ReadKeepsFeed
<1>6. CASE getCatalogSnapshot
  <2>1. db' = db /\ catalog' = catalog  BY <1>6, Zenon DEF getCatalogSnapshot, sync
  <2>. QED  BY <1>2, <1>3, <1>6, <2>1, SnapshotKeepsFeed
<1>7. CASE getCatalogChanges
  <2>1. db' = db /\ catalog' = catalog  BY <1>7, Zenon DEF getCatalogChanges, sync
  <2>. QED  BY <1>2, <1>3, <1>7, <2>1, ChangesKeepFeed
<1>8. ASSUME NEW n \in DOMAIN catalog.changes, pruneCatalogChanges(n) PROVE CatalogueOK' /\ FeedOK'
  BY <1>2, <1>8, PruneKeepsFeed
<1>9. CASE updateMinAvailableRevision  BY <1>2, <1>9, MinKeepsFeed
<1>10. CASE UNCHANGED <<sync, feed>>
  <2>1. /\ db' = db /\ catalog' = catalog /\ unannounced' = unannounced /\ client' = client /\ call' = call
        /\ pruned' = pruned /\ slipped' = slipped
    BY <1>10 DEF sync, feed
  <2>. QED  BY <1>2, <1>3, <2>1 DEF FeedOK, ClientOK, CallOK, Follows, Knows
<1>. QED  BY <1>1, <1>4, <1>5, <1>6, <1>7, <1>8, <1>9, <1>10 DEF FeedNext

LEMMA FeedInvImply == FeedInv => CaughtUpClientIsRight
<1>1. SUFFICES ASSUME FeedInv, client.cursor = Done, client.epoch = catalog.epoch,
                      client.revision = catalog.revision, call = None, ~unannounced, ~slipped
               PROVE  client.products = [g \in {ProductOrder[i] : i \in ActiveFrom(db, 0)} |-> db[g].ver]
  BY DEF CaughtUpClientIsRight
<1>2. PICK products : products = client.products  OBVIOUS
<1>3. catalog.revision \in Nat /\ catalog.min \in Nat /\ catalog.min =< catalog.revision /\ CatalogOK(catalog)
  BY <1>1 DEF FeedInv, CatalogueOK, CatalogOK
<1>4. ~Lost(catalog, pruned, client.revision)
  <2>1. FirstKept(catalog) \in Nat /\ FirstKept(catalog) =< catalog.revision  BY <1>3, FirstKeptIs
  <2>. QED  BY <1>1, <1>3, <2>1 DEF Lost
<1>5. \A g : ~Announced(catalog, g, client.revision)
  BY <1>1, <1>3 DEF Announced, CatalogOK, IsChange
<1>6. \A n \in DOMAIN ProductOrder : n =< Done  BY OrderIs
<1>7. \A n \in DOMAIN ProductOrder : Agrees(db, products, ProductOrder[n])
  BY <1>1, <1>2, <1>4, <1>5, <1>6 DEF FeedInv, FeedOK, Follows, Knows
<1>8. \A g \in DOMAIN products : \E n \in DOMAIN ProductOrder : ProductOrder[n] = g
  BY <1>1, <1>2 DEF FeedInv, FeedOK, ClientOK
<1>9. PICK S : S = {ProductOrder[i] : i \in ActiveFrom(db, 0)}  OBVIOUS
<1>10. \A g : g \in S <=> g \in DOMAIN db /\ db[g].active /\ \E n \in DOMAIN ProductOrder : ProductOrder[n] = g
  <2>1. ActiveFrom(db, 0) = {i \in DOMAIN ProductOrder : ProductOrder[i] \in DOMAIN db /\ db[ProductOrder[i]].active}
    BY OrderIs DEF ActiveFrom
  <2>. QED  BY <1>9, <2>1
<1>11. \A g : g \in S <=> g \in DOMAIN products  BY <1>7, <1>8, <1>10 DEF Agrees
<1>12. \A g \in S : products[g] = db[g].ver  BY <1>7, <1>10 DEF Agrees
<1>13. products = [g \in DOMAIN products |-> products[g]]
  BY <1>1, <1>2 DEF FeedInv, FeedOK, ClientOK
<1>. QED  BY <1>2, <1>9, <1>11, <1>12, <1>13

\* A mobile client that has finished its snapshot and reached the current revision
\* has the active products in their present versions, for any items, page size and
\* product order: what it misses is told of by a change after its revision, or its
\* revision is behind the changes kept and getCatalogChanges sends it back to the
\* start (getCatalogSnapshot, getCatalogChanges, pruneCatalogChangesIfNeeded in
\* catalog.service.ts, recordProductCatalogChange in onec.sync.ts).
THEOREM CaughtUpClientsAreRight == FeedSpec => []CaughtUpClientIsRight
BY FeedInvInit, FeedInvStep, FeedInvImply, PTL DEF FeedSpec
=============================================================================
