----------------------------- MODULE ObjectStore -----------------------------
(***************************************************************************)
(* The object server of cpp-object-storage-demo: handlePut, handleGet and  *)
(* handleDelete of server.cpp over the files of file.cpp and the RocksDB   *)
(* metadata of meta.cpp, by the threads of the pool, with crashes of the   *)
(* process.                                                                *)
(*                                                                         *)
(* A key's value is in the file of that name.  data is what a file holds   *)
(* for the operating system, and so for the next process: fwrite fills the *)
(* buffer of the stream and writeData's fsync does not flush it, so from   *)
(* fopen to fclose a file that is being written is Half (empty or a        *)
(* prefix).  Files and metadata survive a crash of the process, buffers    *)
(* and locks do not.                                                       *)
(*                                                                         *)
(* mutexes[hash(key) % 16] is held exactly between two program points, so  *)
(* the program counters tell who holds it.                                 *)
(***************************************************************************)
EXTENDS Naturals

CONSTANTS Threads, Keys, Values, Paths,
          Stripe,       \* hash(key) % mutexes.size()
          TmpOf,        \* the path key + ".tmp"
          MaxCrashes,   \* bound on the number of crashes
          MaxMisses     \* bound on the lookups of a known key that fail

(* What a file can hold besides a value; NoBuf is an empty request body;   *)
(* Lost is what a failed lookup makes of a value for the clients.          *)
CONSTANTS Half, NoFile, NoBuf, Lost

(* The clients do not use a key together with that key + ".tmp".           *)
ASSUME StoreAssumption ==
  /\ Keys \subseteq Paths
  /\ TmpOf \in [Keys -> Paths \ Keys]
  /\ \A j, k \in Keys : TmpOf[j] = TmpOf[k] => j = k
  /\ Half \notin Values /\ NoFile \notin Values /\ NoBuf \notin Values
  /\ Half # NoFile /\ Lost \notin Values \cup {Half, NoFile}
  /\ MaxCrashes \in Nat /\ MaxMisses \in Nat

VARIABLES
  meta,               \* the keys RocksDB knows
  data,               \* what each file holds
  method, key, val,   \* the request a thread handles
  pc,
  stream,             \* the path of the file a thread has open for writing
  buffer,             \* what fclose leaves in it
  status, got,        \* the response
  torn,               \* history: keys whose file a crash has left half
  blind,              \* history: keys whose file a put or a delete has hit
                      \* that took them for unknown
  misses, crashes

disk == <<meta, data>>
request == <<method, key, val>>
file == <<stream, buffer>>
response == <<status, got>>
history == <<torn, blind, misses, crashes>>
vars == <<disk, request, pc, file, response, history>>

Methods == {"put", "get", "delete", "other"}
Writing == {"write", "commit", "close", "remove"}
Contents == Values \cup {Half, NoFile}

Init ==
  /\ meta = {} /\ data = [p \in Paths |-> NoFile]
  /\ method = [t \in Threads |-> "other"]
  /\ key \in [Threads -> Keys]
  /\ val = [t \in Threads |-> NoBuf]
  /\ pc = [t \in Threads |-> "idle"]
  /\ stream = key
  /\ buffer = [t \in Threads |-> Half]
  /\ status = [t \in Threads |-> "none"] /\ got = [t \in Threads |-> NoFile]
  /\ torn = {} /\ blind = {} /\ misses = 0 /\ crashes = 0

To(t, p) == pc' = [pc EXCEPT ![t] = p]
Status(t, s) == status' = [status EXCEPT ![t] = s]

(* The stripe of t's key is held for writing or for reading by nobody, or  *)
(* for writing by nobody.                                                  *)
Holds(u, t) == Stripe[key[u]] = Stripe[key[t]]
lock(t) == \A u \in Threads : Holds(u, t) => pc[u] \notin Writing \cup {"read"}
lock_shared(t) == \A u \in Threads : Holds(u, t) => pc[u] \notin Writing

(* meta->get(key) < 0: RocksDB does not know the key, or an error keeps it *)
(* from telling.                                                           *)
NotFound(t) ==
  /\ key[t] \in meta => misses < MaxMisses
  /\ misses' = IF key[t] \in meta THEN misses + 1 ELSE misses

-----------------------------------------------------------------------------
(* handle(): a request has been read from a connection.                    *)
Handle(t) ==
  /\ pc[t] = "idle"
  /\ \E m \in Methods, k \in Keys, v \in Values \cup {NoBuf} :
       /\ m # "put" => v = NoBuf
       /\ method' = [method EXCEPT ![t] = m]
       /\ key' = [key EXCEPT ![t] = k]
       /\ val' = [val EXCEPT ![t] = v]
  /\ To(t, "handle")
  /\ UNCHANGED <<disk, file, response, history>>

HandleInvalid(t) ==
  /\ pc[t] = "handle" /\ method[t] = "other"
  /\ To(t, "respond") /\ Status(t, "invalid")
  /\ UNCHANGED <<disk, request, file, got, history>>

-----------------------------------------------------------------------------
(* handlePut.                                                              *)

PutNoBuffer(t) ==
  /\ pc[t] = "handle" /\ method[t] = "put" /\ val[t] = NoBuf /\ lock(t)
  /\ To(t, "respond") /\ Status(t, "exception")
  /\ UNCHANGED <<disk, request, file, got, history>>

(* Mutant: an existing file is overwritten in place.                       *)
PutOpenInPlace(t) ==
  /\ pc[t] = "handle" /\ method[t] = "put" /\ val[t] # NoBuf /\ lock(t)
  /\ key[t] \in meta
  /\ stream' = [stream EXCEPT ![t] = key[t]]
  /\ data' = [data EXCEPT ![key[t]] = Half]
  /\ To(t, "write")
  /\ UNCHANGED <<meta, request, buffer, response, history>>

(* fopen(.., "wb+") truncates: the temporary file of an existing key, ...  *)
PutOpen(t) ==
  /\ pc[t] = "handle" /\ method[t] = "put" /\ val[t] # NoBuf /\ lock(t)
  /\ key[t] \in meta
  /\ stream' = [stream EXCEPT ![t] = TmpOf[key[t]]]
  /\ data' = [data EXCEPT ![TmpOf[key[t]]] = Half]
  /\ To(t, "write")
  /\ UNCHANGED <<meta, request, buffer, response, history>>

(* ... and the file of a new one, or of one whose lookup failed.           *)
PutOpenNew(t) ==
  /\ pc[t] = "handle" /\ method[t] = "put" /\ val[t] # NoBuf /\ lock(t)
  /\ NotFound(t)
  /\ stream' = [stream EXCEPT ![t] = key[t]]
  /\ data' = [data EXCEPT ![key[t]] = Half]
  /\ blind' = blind \cup (meta \cap {key[t]})
  /\ To(t, "write")
  /\ UNCHANGED <<meta, request, buffer, response, torn, crashes>>

PutWrite(t) ==
  /\ pc[t] = "write"
  /\ To(t, "commit")
  /\ buffer' = [buffer EXCEPT ![t] = val[t]]
  /\ UNCHANGED <<disk, request, stream, response, history>>

PutWriteFails(t) ==
  /\ pc[t] = "write"
  /\ To(t, "close") /\ Status(t, "exception")
  /\ buffer' = [buffer EXCEPT ![t] = Half]
  /\ UNCHANGED <<disk, request, stream, got, history>>

(* t's put or delete has taken effect: its key is in order again.          *)
Restored(t) ==
  /\ torn' = torn \ {key[t]} /\ blind' = blind \ {key[t]}
  /\ UNCHANGED <<misses, crashes>>

(* meta->put(key) makes a new object visible.                              *)
PutMeta(t) ==
  /\ pc[t] = "commit" /\ stream[t] = key[t]
  /\ meta' = meta \cup {key[t]}
  /\ To(t, "close") /\ Status(t, "ok") /\ Restored(t)
  /\ UNCHANGED <<data, request, file, got>>

(* renameFile(old): the open stream follows its file to the new name.      *)
PutRename(t) ==
  /\ pc[t] = "commit" /\ stream[t] # key[t]
  /\ data' = [data EXCEPT ![key[t]] = data[stream[t]], ![stream[t]] = NoFile]
  /\ stream' = [stream EXCEPT ![t] = key[t]]
  /\ To(t, "close") /\ Status(t, "ok") /\ Restored(t)
  /\ UNCHANGED <<meta, request, buffer, got>>

PutCommitFails(t) ==
  /\ pc[t] = "commit"
  /\ To(t, "close") /\ Status(t, "exception")
  /\ UNCHANGED <<disk, request, file, got, history>>

(* delete target: fclose flushes the buffer; then the mutex is released.   *)
PutClose(t) ==
  /\ pc[t] = "close"
  /\ data' = [data EXCEPT ![stream[t]] = buffer[t]]
  /\ stream' = [stream EXCEPT ![t] = key[t]]
  /\ buffer' = [buffer EXCEPT ![t] = Half]
  /\ To(t, "respond")
  /\ UNCHANGED <<meta, request, response, history>>

handlePut(t) == \/ PutNoBuffer(t) \/ PutOpen(t) \/ PutOpenNew(t)
                \/ PutWrite(t) \/ PutWriteFails(t) \/ PutMeta(t) \/ PutRename(t)
                \/ PutCommitFails(t) \/ PutClose(t)

-----------------------------------------------------------------------------
(* handleDelete.                                                           *)

(* remove(), whose result is ignored.                                      *)
Remove(t) ==
  \E left \in {NoFile, data[key[t]]} : data' = [data EXCEPT ![key[t]] = left]

(* The file of an unknown key is removed, and that of a known one whose    *)
(* lookup failed.                                                          *)
DeleteUnknown(t) ==
  /\ pc[t] = "handle" /\ method[t] = "delete" /\ lock(t)
  /\ NotFound(t) /\ Remove(t)
  /\ blind' = blind \cup {k \in meta \cap {key[t]} : data'[k] = NoFile}
  /\ To(t, "respond") /\ Status(t, "not_found")
  /\ UNCHANGED <<meta, request, file, got, torn, crashes>>

(* Mutant: the file goes before its metadata.                              *)
DeleteFileFirst(t) ==
  /\ pc[t] = "handle" /\ method[t] = "delete" /\ lock(t)
  /\ key[t] \in meta
  /\ data' = [data EXCEPT ![key[t]] = NoFile]
  /\ To(t, "remove")
  /\ UNCHANGED <<meta, request, file, response, history>>

(* meta->del(key) hides the object; without its file the key was unknown.  *)
DeleteMeta(t) ==
  /\ pc[t] = "handle" /\ method[t] = "delete" /\ lock(t)
  /\ key[t] \in meta
  /\ meta' = meta \ {key[t]} /\ Restored(t)
  /\ IF data[key[t]] = NoFile
       THEN To(t, "respond") /\ Status(t, "not_found")
       ELSE To(t, "remove") /\ UNCHANGED status
  /\ UNCHANGED <<data, request, file, got>>

DeleteMetaFails(t) ==
  /\ pc[t] = "handle" /\ method[t] = "delete" /\ lock(t)
  /\ key[t] \in meta
  /\ To(t, "respond")
  /\ Status(t, IF data[key[t]] = NoFile THEN "not_found" ELSE "exception")
  /\ UNCHANGED <<disk, request, file, got, history>>

DeleteRemove(t) ==
  /\ pc[t] = "remove" /\ Remove(t)
  /\ To(t, "respond") /\ Status(t, "ok")
  /\ UNCHANGED <<meta, request, file, got, history>>

handleDelete(t) == \/ DeleteUnknown(t) \/ DeleteMeta(t) \/ DeleteMetaFails(t)
                   \/ DeleteRemove(t)

-----------------------------------------------------------------------------
(* t has made its new value visible and has yet to flush it.               *)
Flushing(t) == pc[t] = "close" /\ status[t] = "ok"

(* The process dies and is started again, ...                              *)
Die ==
  /\ torn' = torn \cup {key[t] : t \in {u \in Threads : Flushing(u)}}
  /\ pc' = [t \in Threads |-> "idle"]
  /\ status' = [t \in Threads |-> "none"] /\ got' = [t \in Threads |-> NoFile]
  /\ method' = [t \in Threads |-> "other"] /\ val' = [t \in Threads |-> NoBuf]
  /\ stream' = key /\ buffer' = [t \in Threads |-> Half]
  /\ UNCHANGED <<disk, key, blind, misses>>

(* ... at any moment.                                                      *)
Crash == crashes < MaxCrashes /\ crashes' = crashes + 1 /\ Die

-----------------------------------------------------------------------------
(* handleGet.                                                              *)

GetUnknown(t) ==
  /\ pc[t] = "handle" /\ method[t] = "get" /\ lock_shared(t)
  /\ NotFound(t)
  /\ To(t, "respond") /\ Status(t, "not_found")
  /\ got' = [got EXCEPT ![t] = NoFile]
  /\ UNCHANGED <<disk, request, file, torn, blind, crashes>>

(* Mutant: the read lock is forgotten.                                     *)
GetMetaUnlocked(t) ==
  /\ pc[t] = "handle" /\ method[t] = "get"
  /\ key[t] \in meta
  /\ To(t, "read")
  /\ UNCHANGED <<disk, request, file, response, history>>

GetMeta(t) ==
  /\ pc[t] = "handle" /\ method[t] = "get" /\ lock_shared(t)
  /\ key[t] \in meta
  /\ To(t, "read")
  /\ UNCHANGED <<disk, request, file, response, history>>

(* fileLength() is called before fp is compared with nullptr: without a    *)
(* file the process dies.                                                  *)
GetRead(t) ==
  /\ pc[t] = "read"
  /\ IF data[key[t]] = NoFile
       THEN Die /\ UNCHANGED crashes
       ELSE /\ got' = [got EXCEPT ![t] = data[key[t]]]
            /\ To(t, "respond") /\ Status(t, "ok")
            /\ UNCHANGED <<disk, request, file, history>>

GetReadFails(t) ==
  /\ pc[t] = "read"
  /\ To(t, "respond") /\ Status(t, "exception")
  /\ UNCHANGED <<disk, request, file, got, history>>

handleGet(t) == GetUnknown(t) \/ GetMeta(t) \/ GetRead(t) \/ GetReadFails(t)

-----------------------------------------------------------------------------
(* The response is written to the connection; the request is freed.        *)
Respond(t) ==
  /\ pc[t] = "respond"
  /\ To(t, "idle") /\ Status(t, "none")
  /\ got' = [got EXCEPT ![t] = NoFile]
  /\ method' = [method EXCEPT ![t] = "other"]
  /\ val' = [val EXCEPT ![t] = NoBuf]
  /\ UNCHANGED <<disk, key, file, history>>

Next == \/ Crash
        \/ \E t \in Threads : \/ Handle(t) \/ HandleInvalid(t)
                              \/ handlePut(t) \/ handleDelete(t) \/ handleGet(t)
                              \/ Respond(t)

Spec == Init /\ [][Next]_vars

-----------------------------------------------------------------------------
(* Types; a response has a status when it is sent, whichever path led to   *)
(* it, and a thread in the middle of an operation has none yet.            *)
TypeOK ==
  /\ meta \subseteq Keys /\ data \in [Paths -> Contents]
  /\ method \in [Threads -> Methods] /\ key \in [Threads -> Keys]
  /\ val \in [Threads -> Values \cup {NoBuf}]
  /\ pc \in [Threads -> {"idle", "handle", "read", "respond"} \cup Writing]
  /\ stream \in [Threads -> Paths] /\ buffer \in [Threads -> Values \cup {Half}]
  /\ status \in [Threads -> {"none", "ok", "not_found", "exception", "invalid"}]
  /\ got \in [Threads -> Contents]
  /\ torn \subseteq Keys /\ blind \subseteq meta
  /\ misses \in 0 .. MaxMisses /\ crashes \in 0 .. MaxCrashes
  /\ \A t \in Threads : status[t] # "none" <=> pc[t] \in {"close", "respond"}

(* A key in RocksDB has a file, also after a crash at any moment, unless   *)
(* its lookup failed in a delete, and no put or delete has set it right    *)
(* since: for every other key handleGet may measure the file before it     *)
(* looks at fp.                                                            *)
MetaHasFile == \A k \in meta : data[k] = NoFile => k \in blind

(* A stored object is whole: only a flush that is under way, one that a    *)
(* crash has cut off, or a put whose lookup failed and that did not get    *)
(* through, leaves half a file under a known key.                          *)
WholeUnlessTorn ==
  \A k \in meta : data[k] = Half =>
    k \in torn \cup blind \/ \E t \in Threads : Flushing(t) /\ key[t] = k

(* The store is atomic for its clients: see AtomicStore.  A put takes      *)
(* effect with meta->put or rename, a delete with meta->del.  What a       *)
(* lookup that fails may do to a value is in the abstract specification,   *)
(* too: where none fails (MaxMisses = 0) the store is atomic without       *)
(* exception.                                                              *)
Kv == [k \in Keys |->
         IF k \notin meta THEN NoFile
         ELSE IF k \in blind THEN Lost
         ELSE IF \E t \in Threads : Flushing(t) /\ key[t] = k
              THEN val[CHOOSE t \in Threads : Flushing(t) /\ key[t] = k]
              ELSE data[k]]
ClientStatus == [t \in Threads |-> CASE pc[t] = "idle"   -> "idle"
                                     [] pc[t] = "remove" -> "ok"
                                     [] OTHER            -> status[t]]
Atomic == INSTANCE AtomicStore
            WITH Absent <- NoFile, Torn <- Half, kv <- Kv, status <- ClientStatus
ImplementsAtomic == Atomic!Spec

(* "previous half write is ok": what a crash left half written is never    *)
(* read as an object.                                                      *)
NeverReadsHalf == \A t \in Threads : got[t] # Half
=============================================================================
