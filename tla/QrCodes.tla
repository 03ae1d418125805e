------------------------------- MODULE QrCodes -------------------------------
(***************************************************************************)
(* QR codes: the rows, the public scan, and the lists and single codes     *)
(* kept in Redis for a minute.                                             *)
(*                                                                         *)
(* PHONE stands for the types whose data have a format, TEXT for those     *)
(* that take anything.  A change reads the row, checks, writes by id and   *)
(* then drops the cached code and the owner's cached lists; Redis errors   *)
(* are logged and ignored, and the server may stop in between.  A list or  *)
(* a code is read from the database and then stored.                       *)
(***************************************************************************)
EXTENDS Naturals, TLC

CONSTANTS
  Ids,             \* ids of codes
  Owner,           \* the user who creates them
  Admin,           \* a user of role ADMIN, who sees and edits them all
  Editors,         \* requests in flight that change a code
  Viewers,         \* requests in flight that read a list or a code
  NoRow,           \* no row, no entry, no request
  MaxEdits         \* bound on changes

VARIABLES
  codes,           \* id |-> [type, data, status]
  redis,           \* key |-> what Redis holds
  editing,         \* editor |-> its request
  viewing,         \* viewer |-> [key, value], read and not yet stored
  edits

codeVars == <<codes, redis, editing, viewing, edits>>

Raws == {"mobile", "landline", "words"}
Types == {"PHONE", "TEXT"}

Keys == {<<"list", Owner>>, <<"list", Admin>>} \cup {<<"code", id>> : id \in Ids}

QrInit ==
  /\ codes = [id \in Ids |-> NoRow]
  /\ redis = [k \in Keys |-> NoRow]
  /\ editing = [e \in Editors |-> NoRow]
  /\ viewing = [v \in Viewers |-> NoRow]
  /\ edits = 0

----------------------------------------------------------------------------
(* normalizeAndValidate: a number of five to eleven digits gets its plus,   *)
(* other text is refused; NoRow is the refusal.                            *)

NormalizeAndValidate(type, raw) ==
  IF type = "TEXT" THEN raw
  ELSE CASE raw = "words"    -> NoRow
         [] raw = "mobile"   -> "+mobile"
         [] raw = "landline" -> "+landline"

\* What the database gives for a key: the owner's codes, all codes, one code.
View(key) == IF key[1] = "list" THEN codes ELSE codes[key[2]]

CreateCode(id, type, raw) ==
  /\ edits < MaxEdits /\ edits' = edits + 1
  /\ codes[id] = NoRow /\ NormalizeAndValidate(type, raw) # NoRow
  /\ codes' = [codes EXCEPT ![id] =
                 [type |-> type, data |-> NormalizeAndValidate(type, raw), status |-> "ACTIVE"]]
  /\ \E e \in Editors :
       /\ editing[e] = NoRow
       /\ editing' = [editing EXCEPT ![e] = [at |-> "drop", id |-> id]]
  /\ UNCHANGED <<redis, viewing>>

\* PUT, DELETE and restore find the row and check it.
ReadRow(e, id, set) ==
  /\ edits < MaxEdits /\ edits' = edits + 1
  /\ editing[e] = NoRow /\ codes[id] # NoRow
  /\ editing' = [editing EXCEPT ![e] = [at |-> "write", id |-> id, set |-> set]]
  /\ UNCHANGED <<codes, redis, viewing>>

\* The type that new data are checked for.
CheckedFor(type, read) == IF type # NoRow THEN type ELSE read

\* type, raw and status may each be left out.
PutCode(e, id, type, raw, status) ==
  LET data == IF raw = NoRow THEN NoRow
              ELSE NormalizeAndValidate(CheckedFor(type, codes[id].type), raw)
  IN  /\ codes[id] # NoRow /\ raw # NoRow => data # NoRow
      /\ ReadRow(e, id, [type |-> type, data |-> data, status |-> status])

DeleteCode(e, id) == ReadRow(e, id, [type |-> NoRow, data |-> NoRow, status |-> "DELETED"])

RestoreCode(e, id) ==
  /\ codes[id] # NoRow /\ codes[id].status = "DELETED"
  /\ ReadRow(e, id, [type |-> NoRow, data |-> NoRow, status |-> "ACTIVE"])

\* prisma.qRList.update by id
WriteCode(e) ==
  LET x == editing[e]
      row == codes[x.id]
      new == [f \in {"type", "data", "status"} |-> IF x.set[f] = NoRow THEN row[f] ELSE x.set[f]]
  IN  /\ x # NoRow /\ x.at = "write"
      /\ codes' = [codes EXCEPT ![x.id] = new]
      /\ editing' = [editing EXCEPT ![e] = [at |-> "drop", id |-> x.id]]
      /\ UNCHANGED <<redis, viewing, edits>>

\* cacheDelPrefix of the code and of its owner's lists, or an error of Redis.
DropCached(e) ==
  LET x == editing[e]
  IN  /\ x # NoRow /\ x.at = "drop"
      /\ editing' = [editing EXCEPT ![e] = NoRow]
      /\ \/ redis' = [k \in Keys |-> IF k \in {<<"code", x.id>>, <<"list", Owner>>}
                                      THEN NoRow ELSE redis[k]]
         \/ redis' = redis
      /\ UNCHANGED <<codes, viewing, edits>>

\* The server stops before the caches are dropped.
StopEditing(e) ==
  /\ editing[e] # NoRow
  /\ editing' = [editing EXCEPT ![e] = NoRow]
  /\ UNCHANGED <<codes, redis, viewing, edits>>

----------------------------------------------------------------------------
(* GET / and GET /:id                                                      *)

QueryView(v, key) ==
  /\ viewing[v] = NoRow /\ redis[key] = NoRow
  /\ key[1] = "code" => codes[key[2]] # NoRow
  /\ viewing' = [viewing EXCEPT ![v] = [key |-> key, value |-> View(key)]]
  /\ UNCHANGED <<codes, redis, editing, edits>>

StoreView(v) ==
  /\ viewing[v] # NoRow
  /\ redis' = [redis EXCEPT ![viewing[v].key] = viewing[v].value]
  /\ viewing' = [viewing EXCEPT ![v] = NoRow]
  /\ UNCHANGED <<codes, editing, edits>>

\* Mutant of Expire: the entry has no time to live.
MutNoExpiry(key) == UNCHANGED codeVars

\* EX 60
Expire(key) ==
  /\ redis[key] # NoRow
  /\ redis' = [redis EXCEPT ![key] = NoRow]
  /\ UNCHANGED <<codes, editing, viewing, edits>>

EditorNext(e) ==
  \/ \E id \in Ids :
       \/ \E type \in Types \cup {NoRow}, raw \in Raws \cup {NoRow} : PutCode(e, id, type, raw, NoRow)
       \/ PutCode(e, id, NoRow, NoRow, "PAUSED")
       \/ DeleteCode(e, id)
       \/ RestoreCode(e, id)
  \/ WriteCode(e) \/ DropCached(e) \/ StopEditing(e)

QrNext ==
  \/ \E id \in Ids, type \in Types, raw \in Raws : CreateCode(id, type, raw)
  \/ \E e \in Editors : EditorNext(e)
  \/ \E v \in Viewers : StoreView(v) \/ \E key \in Keys : QueryView(v, key)
  \/ \E key \in Keys : Expire(key)

\* A request goes on until it is answered; Redis lets entries expire.
QrFairness ==
  /\ \A e \in Editors : WF_codeVars(WriteCode(e)) /\ WF_codeVars(DropCached(e))
  /\ \A v \in Viewers : WF_codeVars(StoreView(v))
  /\ \A key \in Keys : WF_codeVars(Expire(key))

QrSpec == QrInit /\ [][QrNext]_codeVars /\ QrFairness

----------------------------------------------------------------------------
\* Once the changes are over the caches are right for good, the administrator's
\* list too, which no change drops, and also after a lost deletion, a stop of
\* the server or a list read before a change and stored after it.
CachesCatchUp == <>[](\A key \in Keys : redis[key] # NoRow => redis[key] = View(key))

=============================================================================
