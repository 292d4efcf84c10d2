---------------------------- MODULE ObjectDriver ----------------------------
(***************************************************************************)
(* The four calls of an object driver (object/types.ts: get, put, list,    *)
(* delete) over the three drivers of the repository: memory.ts and         *)
(* filesystem.ts, whose calls are one step each, and s3.ts, whose calls    *)
(* are requests of a retry loop.  An S3 request that was given up on may   *)
(* still reach the store later, an answer may be lost after the request    *)
(* took effect, and only 5xx, 429 and transport errors are retried.        *)
(*                                                                         *)
(* A behaviour is about one kind of work: "cas", in which writers read one *)
(* object and write it back conditionally, as the lease and the manifest   *)
(* are written; or "keys", in which write-once names are added while one   *)
(* caller lists a prefix and another deletes some of its names.            *)
(***************************************************************************)
EXTENDS Integers, FiniteSets, FiniteSetsExt

CONSTANTS
  Providers,      \* the drivers run: "memory", "filesystem", "aws", "minio", "gcs"
  CasWriters,     \* the callers of get and put on the one object
  CasRounds,      \* how many writes each of them makes
  Retries,        \* s3.ts MAX_RETRIES
  WalKeys,        \* the names of the prefix listed, in their order
  ListPage,       \* how many names one page of a listing holds
  DeleteChunk,    \* MAX_KEYS_PER_DELETE, or DELETE_CONCURRENCY on gcs
  DriverFaults    \* bound: answers lost, refusals and failures of a behaviour

ASSUME DriverAssumption ==
  /\ WalKeys \subseteq Nat
  /\ ListPage \in Nat \ {0} /\ DeleteChunk \in Nat \ {0}
  /\ Retries \in Nat /\ CasRounds \in Nat /\ DriverFaults \in Nat

VARIABLES
  provider,  \* the driver of this behaviour
  driverJob,       \* "cas" or "keys"
  object,    \* the one object: its body, a set of writes, and its etag
  writes,    \* how often it was written (memory.ts etagCounter)
  caller,    \* a writer's place: what it read, the attempt it waits for
  air,       \* PUT requests the store has not seen yet
  put,       \* the writes put() returned an etag for
  keyNames,     \* the names under the prefix
  lister,    \* the listing: its token, what it has, what stood throughout
  deleter,   \* the deletion: what it must still ask for and waits for
  dead,      \* the names a delete() that returned was given
  slips      \* how many faults happened

casVars == <<object, writes, caller, air, put>>
keyVars == <<keyNames, lister, deleter, dead>>
driverVars == <<provider, driverJob, object, writes, caller, air, put, keyNames, lister, deleter, dead, slips>>

Remote == provider \in {"aws", "minio", "gcs"}
Wildcard == provider # "minio"
Slip == slips < DriverFaults /\ slips' = slips + 1

\* memory.ts numbers its etags; a file's etag and S3's is a hash of the body.
\* "tag" is the set that holds the etag, empty where there is no object, and the
\* condition of a PUT likewise: {} for If-None-Match: *, else If-Match.
NoTag == {}
Tag(body) == IF provider = "memory" THEN {writes + 1} ELSE {body}

\* What the store answers a conditional PUT: If-Match wants this very etag of an
\* object that is there, If-None-Match: * wants no object.
Holds(cond) == object.tag = cond
Stored(body) == object' = [body |-> body, tag |-> Tag(body)] /\ writes' = writes + 1
ObjectKept == UNCHANGED <<object, writes>>

AtRest == [at |-> "idle", seen |-> {}, tag |-> NoTag, attempt |-> 0, done |-> 0]
DriverInit ==
  /\ provider \in Providers /\ driverJob \in {"cas", "keys"}
  /\ object = [body |-> {}, tag |-> NoTag] /\ writes = 0
  /\ caller = [w \in CasWriters |-> AtRest]
  /\ air = {} /\ put = {}
  /\ keyNames = {} /\ dead = {} /\ slips = 0
  /\ lister = [at |-> "idle", token |-> -1, has |-> {}, stood |-> {}, ever |-> {}]
  /\ deleter = [at |-> "idle", todo |-> {}, asked |-> {}, all |-> {}]

-----------------------------------------------------------------------------
(* Conditional writes.                                                      *)

\* init(): a store without the wildcard is seeded once, before any writer, by
\* an unconditional write after a get that found nothing.
Seed ==
  /\ driverJob = "cas" /\ ~Wildcard /\ object.tag = NoTag
  /\ Stored({})
  /\ UNCHANGED <<caller, air, put, slips>>

\* get(): the object and its etag, or null.  A GET changes nothing, so the
\* attempts of its retry loop are one step; when the last fails, get() throws.
ReadIt(w) ==
  /\ driverJob = "cas" /\ caller[w].at = "idle" /\ caller[w].done < CasRounds
  /\ caller' = [caller EXCEPT ![w].at = "read", ![w].seen = object.body, ![w].tag = object.tag]
  /\ UNCHANGED <<object, writes, air, put>>
MemoryGet(w) == provider = "memory" /\ ReadIt(w) /\ UNCHANGED slips
FileGet(w) == provider = "filesystem" /\ ReadIt(w) /\ UNCHANGED slips
S3Get(w) ==
  /\ Remote
  /\ \/ ReadIt(w) /\ UNCHANGED slips
     \/ /\ driverJob = "cas" /\ caller[w].at = "idle" /\ caller[w].done < CasRounds /\ Slip
        /\ caller' = [caller EXCEPT ![w].done = @ + 1]
        /\ UNCHANGED <<object, writes, air, put>>

Op(w) == <<w, caller[w].done>>
NewBody(w) == caller[w].seen \cup {Op(w)}

\* How put() ends for its caller: it returned an etag, it threw
\* PreconditionFailedError (read again), or it threw anything else (unknown).
Returns(w) == /\ caller' = [caller EXCEPT ![w] = [AtRest EXCEPT !.done = caller[w].done + 1]]
              /\ put' = put \cup {Op(w)}
RacedBy(w) == caller' = [caller EXCEPT ![w] = [AtRest EXCEPT !.done = caller[w].done]] /\ UNCHANGED put
Throws(w) == caller' = [caller EXCEPT ![w] = [AtRest EXCEPT !.done = caller[w].done + 1]] /\ UNCHANGED put

\* put() of memory.ts and filesystem.ts: the compare and the write are one step
\* of the process.  A file that cannot be written or renamed leaves the old one.
PutHere(w) ==
  /\ caller[w].at = "read"
  /\ IF Holds(caller[w].tag) THEN Stored(NewBody(w)) /\ Returns(w) ELSE RacedBy(w) /\ ObjectKept
  /\ UNCHANGED <<air, slips>>
MemoryPut(w) == provider = "memory" /\ PutHere(w)
FilePut(w) ==
  /\ provider = "filesystem"
  /\ \/ PutHere(w)
     \/ /\ caller[w].at = "read" /\ Holds(caller[w].tag) /\ Slip
        /\ Throws(w) /\ ObjectKept /\ UNCHANGED air

\* put() of s3.ts refuses a create-if-absent the store cannot do.
PutRefused(w) ==
  /\ caller[w].at = "read" /\ Remote /\ ~Wildcard /\ caller[w].tag = NoTag
  /\ Throws(w)
  /\ UNCHANGED <<object, writes, air, slips>>

PutRequest(w, n) == [by |-> w, n |-> n, cond |-> caller[w].tag, body |-> NewBody(w)]
PutSent(w) ==
  /\ caller[w].at = "read" /\ Remote /\ (Wildcard \/ caller[w].tag # NoTag)
  /\ air' = air \cup {PutRequest(w, 0)}
  /\ caller' = [caller EXCEPT ![w].at = "putting", ![w].attempt = 0]
  /\ UNCHANGED <<object, writes, put, slips>>

Awaited(r) == caller[r.by].at = "putting" /\ caller[r.by].attempt = r.n /\ Op(r.by) \in r.body

\* A request reaches the store.  Its answer reaches the caller only if the caller
\* still waits for this attempt, and may be lost on the way.
Lands(r) ==
  /\ r \in air /\ air' = air \ {r}
  /\ IF Holds(r.cond) THEN Stored(r.body) ELSE ObjectKept
  /\ IF Awaited(r)
     THEN \/ /\ UNCHANGED slips
             /\ IF Holds(r.cond) THEN Returns(r.by) ELSE RacedBy(r.by)
          \/ Slip /\ UNCHANGED <<caller, put>>
     ELSE UNCHANGED <<caller, put, slips>>

\* send() has no response (or a 5xx, or a 429): it tries again, or gives up after
\* Retries attempts.  The request it gave up on may still be on its way.
Again(w) ==
  IF caller[w].attempt < Retries
  THEN /\ air' = air \cup {PutRequest(w, caller[w].attempt + 1)}
       /\ caller' = [caller EXCEPT ![w].attempt = @ + 1]
       /\ UNCHANGED put
  ELSE Throws(w) /\ UNCHANGED air
Breaks(w) ==
  /\ caller[w].at = "putting"
  /\ IF PutRequest(w, caller[w].attempt) \in air THEN Slip ELSE UNCHANGED slips
  /\ Again(w)
  /\ ObjectKept

\* A 409: two conditional writes met.  No effect, and not retried.
Conflicts(r) ==
  /\ r \in air /\ Awaited(r) /\ Slip
  /\ air' = air \ {r}
  /\ RacedBy(r.by)
  /\ ObjectKept

CasNext ==
  \/ Seed
  \/ \E w \in CasWriters : MemoryGet(w) \/ FileGet(w) \/ S3Get(w) \/ MemoryPut(w) \/ FilePut(w)
                             \/ PutRefused(w) \/ PutSent(w) \/ Breaks(w)
  \/ \E r \in air : Lands(r) \/ Conflicts(r)

-----------------------------------------------------------------------------
(* Names.                                                                   *)

\* A flush creates a name that was never used (WAL and snapshot names).
AddName(k) ==
  /\ driverJob = "keys" /\ k \notin keyNames \cup dead \cup deleter.all
  /\ keyNames' = keyNames \cup {k}
  /\ lister' = IF lister.at = "listing" THEN [lister EXCEPT !.ever = @ \cup {k}] ELSE lister
  /\ UNCHANGED <<deleter, dead, slips>>

StartList ==
  /\ driverJob = "keys" /\ lister.at = "idle" /\ keyNames # {}
  /\ lister' = [at |-> "listing", token |-> -1, has |-> {}, stood |-> keyNames, ever |-> keyNames]
  /\ UNCHANGED <<keyNames, deleter, dead, slips>>

\* memory.ts and filesystem.ts take the whole listing in one step.
ListHere ==
  /\ lister.at = "listing"
  /\ lister' = [lister EXCEPT !.has = keyNames, !.at = "listed"]
  /\ UNCHANGED <<keyNames, deleter, dead, slips>>
MemoryList == provider = "memory" /\ ListHere
FileList == provider = "filesystem" /\ ListHere

\* s3.ts: one page, the first names after the continuation token, and whether
\* more follow.
After == {k \in keyNames : k > lister.token}
Page == {k \in After : Cardinality({n \in After : n < k}) < ListPage}
S3ListPage ==
  /\ lister.at = "listing" /\ Remote
  /\ lister' = [lister EXCEPT !.has = @ \cup Page,
                              !.token = IF Page = {} THEN @ ELSE Max(Page),
                              !.at = IF Page = After THEN "listed" ELSE "listing"]
  /\ UNCHANGED <<keyNames, deleter, dead, slips>>

\* A page that cannot be had fails the whole listing.
ListFails ==
  /\ lister.at = "listing" /\ Remote /\ Slip
  /\ lister' = [lister EXCEPT !.at = "threw"]
  /\ UNCHANGED <<keyNames, deleter, dead>>

Without(ks) == /\ keyNames' = keyNames \ ks
               /\ lister' = [lister EXCEPT !.stood = @ \ ks]

StartDelete(ks) ==
  /\ driverJob = "keys" /\ deleter.at = "idle" /\ ks # {} /\ ks \subseteq keyNames
  /\ deleter' = [at |-> "deleting", todo |-> ks, asked |-> {}, all |-> ks]
  /\ UNCHANGED <<keyNames, lister, dead, slips>>

\* memory.ts deletes all its keys in one step, filesystem.ts one after another,
\* and a file that cannot be unlinked ends the call.
Gone(ks) == Without(ks) /\ deleter' = [deleter EXCEPT !.todo = @ \ ks] /\ UNCHANGED <<dead, slips>>
MemoryDelete == deleter.at = "deleting" /\ provider = "memory" /\ deleter.todo # {} /\ Gone(deleter.todo)
FileDelete == /\ deleter.at = "deleting" /\ provider = "filesystem" /\ deleter.todo # {}
              /\ Gone({Min(deleter.todo)})
UnlinkFails ==
  /\ deleter.at = "deleting" /\ provider = "filesystem" /\ deleter.todo # {} /\ Slip
  /\ deleter' = [deleter EXCEPT !.at = "threw"]
  /\ UNCHANGED <<keyNames, lister, dead>>

\* The next request or window of requests.
NextChunk ==
  /\ deleter.at = "deleting" /\ Remote /\ deleter.asked = {} /\ deleter.todo # {}
  /\ LET ks == {k \in deleter.todo : Cardinality({j \in deleter.todo : j < k}) < DeleteChunk}
     IN deleter' = [deleter EXCEPT !.todo = @ \ ks, !.asked = ks]
  /\ UNCHANGED <<keyNames, lister, dead, slips>>

\* deleteBatch(): one POST for the chunk.  A 200 whose body holds <Error> entries
\* deleted the other keys only, and throws.
Refusing(failed) == IF failed = {} THEN UNCHANGED slips ELSE Slip
EndsIf(bad) == IF bad THEN "threw" ELSE "deleting"
BatchAnswered(failed) ==
  /\ Remote /\ provider # "gcs" /\ deleter.asked # {} /\ failed \subseteq deleter.asked
  /\ Refusing(failed)
  /\ Without(deleter.asked \ failed)
  /\ deleter' = [deleter EXCEPT !.asked = {}, !.at = IF deleter.at = "threw" THEN @ ELSE EndsIf(failed # {})]
  /\ UNCHANGED dead

\* deleteIndividually(): one DELETE per key of the window, answered in any order;
\* 404 is a success.  The first failure throws and leaves the others on their way.
KeyAnswered(k, fails) ==
  /\ provider = "gcs" /\ k \in deleter.asked
  /\ Refusing(IF fails THEN {k} ELSE {})
  /\ Without(IF fails THEN {} ELSE {k})
  /\ deleter' = [deleter EXCEPT !.asked = @ \ {k}, !.at = IF @ = "threw" THEN @ ELSE EndsIf(fails)]
  /\ UNCHANGED dead

\* Every attempt of a batch was lost, after or before the store saw it.
BatchFails ==
  /\ Remote /\ provider # "gcs" /\ deleter.at = "deleting" /\ deleter.asked # {} /\ Slip
  /\ deleter' = [deleter EXCEPT !.at = "threw"]
  /\ UNCHANGED <<keyNames, lister, dead>>

DeleteReturns ==
  /\ deleter.at = "deleting" /\ deleter.todo = {} /\ deleter.asked = {}
  /\ deleter' = [deleter EXCEPT !.at = "deleted"]
  /\ dead' = dead \cup deleter.all
  /\ UNCHANGED <<keyNames, lister, slips>>

KeysNext ==
  \/ \E k \in WalKeys : AddName(k) \/ KeyAnswered(k, TRUE) \/ KeyAnswered(k, FALSE)
  \/ StartList \/ MemoryList \/ FileList \/ S3ListPage \/ ListFails
  \/ \E ks \in SUBSET WalKeys : StartDelete(ks) \/ BatchAnswered(ks)
  \/ MemoryDelete \/ FileDelete \/ UnlinkFails \/ NextChunk \/ BatchFails \/ DeleteReturns

DriverNext ==
  /\ UNCHANGED <<provider, driverJob>>
  /\ \/ CasNext /\ UNCHANGED keyVars
     \/ KeysNext /\ UNCHANGED casVars

DriverSpec == DriverInit /\ [][DriverNext]_driverVars

-----------------------------------------------------------------------------
Ops == CasWriters \X (0 .. CasRounds - 1)
DriverTypeOK ==
  /\ provider \in Providers /\ driverJob \in {"cas", "keys"} /\ slips \in 0 .. DriverFaults
  /\ object.body \subseteq Ops /\ writes \in Nat
  /\ \A w \in CasWriters : /\ caller[w].at \in {"idle", "read", "putting"}
                           /\ caller[w].attempt \in 0 .. Retries
                           /\ caller[w].done \in 0 .. CasRounds
                           /\ caller[w].seen \subseteq Ops
  /\ \A r \in air : r.by \in CasWriters /\ r.n \in 0 .. Retries /\ r.body \in SUBSET Ops
  /\ put \subseteq Ops /\ keyNames \subseteq WalKeys /\ dead \subseteq WalKeys
  /\ lister.at \in {"idle", "listing", "listed", "threw"}
  /\ deleter.at \in {"idle", "deleting", "deleted", "threw"}

\* s3.ts 186-206: a write put() returned an etag for is never overwritten by one
\* that did not read it, however late a request given up on arrives and however
\* often one was retried: the object holds every such write.
PutsAreKept == put \subseteq object.body

\* s3.ts list(): "Returning a partial listing would make WAL replay skip
\* segments": a listing that returned has every name that stood while its pages
\* were fetched, and no name that never stood.
ListIsWhole == lister.at = "listed" => lister.stood \subseteq lister.has /\ lister.has \subseteq lister.ever

\* types.ts delete(): a call that returned has deleted all its keys, in however
\* many requests, and no request still on its way brings one back.
DeletedIsGone == dead \cap keyNames = {}

\* The object storage drivers: a PUT that is answered is there, a listing that
\* ends is whole, and a delete that is answered leaves nothing.
\* Each as stated above.
DriverInv == DriverTypeOK /\ PutsAreKept /\ ListIsWhole /\ DeletedIsGone
=============================================================================
