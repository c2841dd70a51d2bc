------------------------------ MODULE ObjectStores ------------------------------
(***************************************************************************)
(* The two adapters of ObjectStorePort (packages/aegismind-infra/.../      *)
(* storage): memory.py and s3.py.  Both are given the same calls, so that  *)
(* what they keep and answer can be compared; a request of the S3 adapter  *)
(* may get lost, be refused, or be done while its answer gets lost, and    *)
(* then its caller sees an error.                                          *)
(*                                                                         *)
(* A key is a sequence of characters; a tenant counts as one.  "&" is one  *)
(* that stands escaped in the listing of the service.                      *)
(***************************************************************************)
EXTENDS Values, FiniteSets, SequencesExt

CONSTANTS
  ObjectKeys, ListPrefixes, ObjectTenants, ObjectContents,
  ListLimit,          \* how many keys the service lists at once
  MaxObjectCalls      \* bound on the calls

VARIABLES
  memData, memMeta,   \* MemoryObjectStore._data and ._objects: [key, tenant]
  bucket,             \* the objects of the service
  objectCalls,
  objectAnswer,       \* the last call and the two answers, as sets: [op, tenant, key, mem, s3]
  unsure,             \* history: the keys whose last write or delete ended in an error,
  given               \* and what each tenant ever put

objectVars == <<memData, memMeta, bucket, objectCalls, objectAnswer, unsure, given>>

\* A call without a tenant; what a store answers for an object it does not have.
Nobody == ""
Absent == ""

KeyCharacters == UNION {Elements(key) : key \in ObjectKeys \cup ListPrefixes}

ASSUME ObjectAssumption ==
  /\ ObjectKeys \cup ListPrefixes \subseteq Seq(KeyCharacters)
  /\ MaxObjectCalls \in Nat /\ ListLimit \in Nat /\ Nobody \notin ObjectTenants /\ "error" \notin ObjectContents

Callers == ObjectTenants \cup {Nobody}

\* key.lstrip("/"): the leading slashes are dropped.
Clean(key) ==
  LET start == CHOOSE n \in 1..(Len(key) + 1) : /\ n = Len(key) + 1 \/ key[n] # "/"
                                               /\ \A m \in 1..(n - 1) : key[m] = "/"
  IN SubSeq(key, start, Len(key))

\* A tenant's keys stand under its name.
ResolveKey(key, tenant) == IF tenant = Nobody THEN Clean(key) ELSE <<tenant, "/">> \o Clean(key)

\* The S3 adapter has a copy of its own.
ResolvePath(key, tenant) == ResolveKey(key, tenant)

Paths == {ResolveKey(key, tenant) : key \in ObjectKeys, tenant \in Callers}
Nothing == [path \in {} |-> Absent]
Stored(store, path) == IF path \in DOMAIN store THEN store[path] ELSE Absent
Removing(store, path) == [other \in DOMAIN store \ {path} |-> store[other]]
Storing(store, path, value) == [other \in DOMAIN store \cup {path} |-> IF other = path THEN value ELSE store[other]]

ObjectInit ==
  /\ memData = Nothing /\ memMeta = Nothing /\ bucket = Nothing
  /\ objectCalls = 0 /\ objectAnswer = [op |-> "none"]
  /\ unsure = {} /\ given = [tenant \in Callers |-> {}]

------------------------------------------------------------------------------

ObjectCall(op, tenant, key, mem, s3) ==
  /\ objectCalls < MaxObjectCalls /\ objectCalls' = objectCalls + 1
  /\ objectAnswer' = [op |-> op, tenant |-> tenant, key |-> key, mem |-> mem, s3 |-> s3]

Said(yes) == IF yes THEN {"true"} ELSE {"false"}

ReachesBucket(outcome) == outcome \in {"done", "unanswered"}
Outcomes == {"done", "unanswered", "failed"}

\* A write or a delete that ended in an error may have been done, or not.
Settles(path, outcome) == unsure' = IF outcome = "done" THEN unsure \ {path} ELSE unsure \cup {path}

put_object ==
  \E key \in ObjectKeys, tenant \in Callers, data \in ObjectContents, outcome \in Outcomes :
    LET path == ResolveKey(key, tenant) IN
    /\ ObjectCall("put", Nobody, <<>>, {}, IF outcome = "done" THEN {} ELSE {"error"})
    /\ memData' = Storing(memData, path, data)
    /\ memMeta' = Storing(memMeta, path, [key |-> key, tenant |-> tenant])
    /\ bucket' = IF ReachesBucket(outcome) THEN Storing(bucket, ResolvePath(key, tenant), data) ELSE bucket
    /\ Settles(path, outcome)
    /\ given' = [given EXCEPT ![tenant] = @ \cup {data}]

Described(path) == Removing(memMeta, path)

\* The service answers 204 for a key it does not have, or 404.
delete_object ==
  \E key \in ObjectKeys, tenant \in Callers, outcome \in Outcomes, missing \in BOOLEAN :
    LET path == ResolveKey(key, tenant)
        there == ResolvePath(key, tenant) \in DOMAIN bucket IN
    /\ missing => outcome = "done" /\ ~there
    /\ ObjectCall("delete", Nobody, <<>>, Said(path \in DOMAIN memData),
         IF outcome = "done" THEN Said(~missing) ELSE {"error"})
    /\ memData' = Removing(memData, path) /\ memMeta' = Described(path)
    /\ bucket' = IF ReachesBucket(outcome) THEN Removing(bucket, ResolvePath(key, tenant)) ELSE bucket
    /\ Settles(path, outcome)
    /\ UNCHANGED given

get_object ==
  \E key \in ObjectKeys, tenant \in Callers, failed \in BOOLEAN :
    LET path == ResolveKey(key, tenant) IN
    /\ ObjectCall("get", tenant, key, {Stored(memData, path)},
         IF failed THEN {"error"} ELSE {Stored(bucket, ResolvePath(key, tenant))})
    /\ UNCHANGED <<memData, memMeta, bucket, unsure, given>>

\* Any answer but 200 says that there is no such object.
object_exists ==
  \E key \in ObjectKeys, tenant \in Callers, refused \in BOOLEAN :
    LET path == ResolveKey(key, tenant) IN
    /\ ObjectCall("exists", tenant, key, Said(path \in DOMAIN memData),
         Said(ResolvePath(key, tenant) \in DOMAIN bucket /\ ~refused))
    /\ UNCHANGED <<memData, memMeta, bucket, unsure, given>>

MemListed(prefix, tenant) ==
  {memMeta[path].key : path \in {p \in DOMAIN memMeta :
     (tenant = Nobody \/ memMeta[p].tenant = tenant) /\ IsPrefix(ResolveKey(prefix, tenant), p)}}

Bare(path, tenant) == IF tenant = Nobody THEN path ELSE SubSeq(path, 3, Len(path))

\* What the service lists is escaped, and the adapter takes it as it stands.
Escaped(path) == [i \in DOMAIN path |-> IF path[i] = "&" THEN "&amp;" ELSE path[i]]
S3Matching(prefix, tenant) == {path \in DOMAIN bucket : IsPrefix(ResolvePath(prefix, tenant), path)}

\* One page is asked for; which keys are on it is the service's choice.
S3Listings(prefix, tenant) ==
  LET matching == S3Matching(prefix, tenant)
      size == Least(ListLimit, Cardinality(matching)) IN
  {{Escaped(Bare(path, tenant)) : path \in page} :
     page \in {some \in SUBSET matching : Cardinality(some) = size}}

\* A request that is lost or refused raises, and its caller has no listing; the bucket is
\* one that there is, so the service has no reason for a 404.
list_objects ==
  \E prefix \in ListPrefixes, tenant \in Callers :
    /\ \/ \E listed \in S3Listings(prefix, tenant) :
            ObjectCall("list", tenant, prefix, MemListed(prefix, tenant), listed)
       \/ ObjectCall("list failed", Nobody, <<>>, {}, {})
    /\ UNCHANGED <<memData, memMeta, bucket, unsure, given>>

ObjectNext == put_object \/ delete_object \/ get_object \/ object_exists \/ list_objects

ObjectSpec == ObjectInit /\ [][ObjectNext]_objectVars

------------------------------------------------------------------------------

\* The memory adapter keeps a description of every object it has data for, and of no
\* other (MemoryObjectStore.put_object, delete_object).
ObjectTypeOK ==
  /\ DOMAIN memMeta = DOMAIN memData /\ DOMAIN bucket \cup DOMAIN memData \subseteq Paths
  /\ \A path \in DOMAIN memMeta : ResolveKey(memMeta[path].key, memMeta[path].tenant) = path
  /\ unsure \subseteq Paths

\* The adapters have the same objects, except where the last write or delete of a key
\* ended in an error: what was reported done is done, and stays (ObjectStorePort).
ObjectsAlike ==
  \A path \in Paths \ unsure : Stored(memData, path) = Stored(bucket, path)

\* What a tenant reads was put by it, or by a caller without a tenant (_resolve_key).
TenantsApart ==
  objectAnswer.op = "get" /\ objectAnswer.tenant # Nobody =>
    (objectAnswer.mem \cup objectAnswer.s3) \ {Absent, "error"} \subseteq given[objectAnswer.tenant] \cup given[Nobody]

\* Both answer a tenant alike about its objects, unless a write is in doubt, the key
\* was written without a tenant, needs escaping, or the listing has a second page; and
\* the S3 adapter never says that an object is there which is not (get_object, exists,
\* list_objects).
ObjectAnswersAlike ==
  LET last == objectAnswer IN
  /\ last.op = "get" /\ last.s3 # {"error"} /\ ResolveKey(last.key, last.tenant) \notin unsure => last.s3 = last.mem
  /\ last.op = "exists" /\ last.s3 = {"true"} /\ ResolveKey(last.key, last.tenant) \notin unsure => last.mem = {"true"}
  /\ last.op = "list" /\ last.tenant # Nobody
       /\ given[Nobody] = {} /\ (\A path \in DOMAIN bucket : "&" \notin Elements(path))
       /\ unsure = {} /\ Cardinality(S3Matching(last.key, last.tenant)) <= ListLimit
       => last.s3 = {Clean(key) : key \in last.mem}
==============================================================================
