-------------------------- MODULE ObjectStoreProofs --------------------------
(***************************************************************************)
(* Proofs about ObjectStore, for any number of threads, keys, stripes,     *)
(* crashes and failed lookups.  The inductive invariant says what a thread inside a handler   *)
(* knows of the disk (Local) and that the stripes keep the others away     *)
(* from it (Exclusive).                                                    *)
(***************************************************************************)
EXTENDS ObjectStore, TLAPS

(* A thread that writes is alone with its stripe.                          *)
Exclusive ==
  \A t, u \in Threads : t # u /\ pc[t] \in Writing /\ Holds(u, t) =>
    pc[u] \notin Writing \cup {"read"}

(* The file t writes is a fresh one: its own name only if the key is new,  *)
(* or was taken for new.                                                   *)
Fresh(t) ==
  \/ stream[t] = TmpOf[key[t]] /\ key[t] \in meta
  \/ stream[t] = key[t] /\ (key[t] \notin meta \/ key[t] \in blind)

Writes(t) ==
  /\ Fresh(t)
  /\ data[stream[t]] = Half
  /\ method[t] = "put" /\ val[t] \in Values

Closes(t) ==
  /\ method[t] = "put"
  /\ status[t] = "ok" =>
       /\ key[t] \in meta \ blind /\ stream[t] = key[t]
       /\ data[key[t]] = Half
       /\ buffer[t] = val[t] /\ val[t] \in Values
  /\ status[t] # "ok" =>
       status[t] = "exception" /\ Fresh(t)

Local(t) ==
  /\ pc[t] \in {"write", "commit"} => Writes(t)
  /\ pc[t] = "commit" => buffer[t] = val[t]
  /\ pc[t] = "close" => Closes(t)
  /\ pc[t] = "remove" => method[t] = "delete" /\ key[t] \notin meta
  /\ pc[t] = "read" => method[t] = "get" /\ key[t] \in meta
  /\ pc[t] = "handle" => status[t] = "none"

IInv == /\ TypeOK
        /\ Exclusive
        /\ \A t \in Threads : Local(t)
        /\ MetaHasFile
        /\ WholeUnlessTorn

-----------------------------------------------------------------------------
(* A thread keeps what it knows of the disk when neither it nor anybody    *)
(* else touches its key, its files and its request.                        *)
LEMMA Frame ==
  ASSUME NEW u \in Threads, TypeOK, Local(u),
         pc'[u] = pc[u], method'[u] = method[u], key'[u] = key[u],
         val'[u] = val[u], stream'[u] = stream[u], buffer'[u] = buffer[u],
         status'[u] = status[u],
         pc[u] \in Writing \cup {"read"} =>
           /\ key[u] \in meta' <=> key[u] \in meta
           /\ key[u] \in blind' <=> key[u] \in blind
           /\ data'[key[u]] = data[key[u]]
           /\ data'[TmpOf[key[u]]] = data[TmpOf[key[u]]]
  PROVE  Local(u)'
<1>1. key[u] \in Keys /\ TmpOf[key[u]] \in Paths
  BY StoreAssumption DEF TypeOK
<1>2. pc[u] \in {"write", "commit"} => Writes(u)'
  BY <1>1 DEF Local, Writes, Fresh, Writing
<1>3. pc[u] = "close" => Closes(u)'
  BY <1>1 DEF Local, Closes, Fresh, Writing
<1> QED
  BY <1>2, <1>3 DEF Local, Writing

-----------------------------------------------------------------------------
(* Every action keeps the types.                                           *)
LEMMA TypeInit == Init => TypeOK
  BY StoreAssumption DEF Init, TypeOK, Methods, Contents, Writing

(* A crash leaves variables of the right type.                             *)
LEMMA TypeCrash == TypeOK /\ Die /\ crashes' \in 0 .. MaxCrashes => TypeOK'
  BY StoreAssumption DEF TypeOK, Die, disk, Methods, Contents, Writing

(* So does every step.                                                     *)
LEMMA TypeNext ==
  ASSUME TypeOK, \A t \in Threads : Local(t), Next
  PROVE  TypeOK'
<1> USE StoreAssumption DEF TypeOK, Methods, Contents, Writing, To, Status,
      disk, request, file, response, history
<1>0. CASE Crash
  BY <1>0, TypeCrash DEF Crash
<1> SUFFICES ASSUME NEW t \in Threads,
                    \/ Handle(t) \/ HandleInvalid(t) \/ handlePut(t)
                    \/ handleDelete(t) \/ handleGet(t) \/ Respond(t)
             PROVE  TypeOK'
  BY <1>0 DEF Next
<1>1. CASE Handle(t)
  BY <1>1 DEF Handle
<1>2. CASE HandleInvalid(t)
  BY <1>2 DEF HandleInvalid
<1>3. CASE PutNoBuffer(t)
  BY <1>3 DEF PutNoBuffer
<1>4. CASE PutOpen(t)
  BY <1>4 DEF PutOpen
<1>20. CASE PutOpenNew(t)
  BY <1>20 DEF PutOpenNew, NotFound
<1>5. CASE PutWrite(t)
  BY <1>5 DEF PutWrite, Local, Writes
<1>6. CASE PutWriteFails(t)
  BY <1>6 DEF PutWriteFails
<1>7. CASE PutMeta(t)
  BY <1>7 DEF PutMeta, Restored
<1>8. CASE PutRename(t)
  BY <1>8 DEF PutRename, Restored
<1>9. CASE PutCommitFails(t)
  BY <1>9 DEF PutCommitFails
<1>10. CASE PutClose(t)
  BY <1>10 DEF PutClose
<1>11. CASE DeleteUnknown(t)
  BY <1>11 DEF DeleteUnknown, NotFound, Remove
<1>12. CASE DeleteMeta(t)
  BY <1>12 DEF DeleteMeta, Restored
<1>13. CASE DeleteMetaFails(t)
  BY <1>13 DEF DeleteMetaFails
<1>14. CASE DeleteRemove(t)
  BY <1>14 DEF DeleteRemove, Remove
<1>15. CASE GetUnknown(t)
  BY <1>15 DEF GetUnknown, NotFound
<1>16. CASE GetMeta(t)
  BY <1>16 DEF GetMeta
<1>17. CASE GetRead(t)
  BY <1>17, TypeCrash DEF GetRead
<1>18. CASE GetReadFails(t)
  BY <1>18 DEF GetReadFails
<1>19. CASE Respond(t)
  BY <1>19 DEF Respond
<1> QED
  BY <1>1, <1>2, <1>3, <1>4, <1>5, <1>6, <1>7, <1>8, <1>9, <1>10, <1>11,
     <1>12, <1>13, <1>14, <1>15, <1>16, <1>17, <1>18, <1>19, <1>20
     DEF handlePut, handleDelete, handleGet

-----------------------------------------------------------------------------
(* The stripes keep writers alone: only lock and lock_shared let a thread  *)
(* into a critical section.                                                *)
LEMMA ExclusiveNext ==
  ASSUME TypeOK, Exclusive, Next
  PROVE  Exclusive'
<1> USE DEF To, Status, disk, request, file, response, history
<1>0. CASE Die
  BY <1>0 DEF Die, Exclusive, TypeOK, Writing
<1> SUFFICES ASSUME NEW t \in Threads,
                    \/ Handle(t) \/ HandleInvalid(t) \/ handlePut(t)
                    \/ handleDelete(t) \/ handleGet(t) \/ Respond(t)
             PROVE  Exclusive'
  BY <1>0 DEF Next, Crash
<1>1. CASE Handle(t)
  BY <1>1 DEF Handle, Exclusive, Holds, TypeOK, Writing
<1>2. CASE PutOpen(t) \/ PutOpenNew(t) \/ DeleteMeta(t)
  BY <1>2 DEF PutOpen, PutOpenNew, DeleteMeta, lock, Exclusive, Holds, TypeOK, Writing
<1>3. CASE GetMeta(t)
  BY <1>3 DEF GetMeta, lock_shared, Exclusive, Holds, TypeOK, Writing
<1>4. CASE GetRead(t)
  <2>1. CASE data[key[t]] = NoFile
    BY <1>4, <2>1, <1>0 DEF GetRead
  <2> QED
    BY <1>4, <2>1 DEF GetRead, Exclusive, Holds, TypeOK, Writing
<1>5. ASSUME key' = key, \A u \in Threads : u # t => pc'[u] = pc[u],
             pc'[t] \in Writing => pc[t] \in Writing, pc'[t] # "read"
      PROVE  Exclusive'
  BY <1>5 DEF Exclusive, Holds
<1>6. CASE HandleInvalid(t) \/ PutNoBuffer(t) \/ PutWrite(t)
           \/ PutWriteFails(t) \/ PutMeta(t) \/ PutRename(t)
  BY <1>5, <1>6 DEF HandleInvalid, PutNoBuffer, PutWrite, PutWriteFails, PutMeta,
     PutRename, TypeOK, Writing
<1>7. CASE PutCommitFails(t) \/ PutClose(t) \/ DeleteUnknown(t)
           \/ DeleteMetaFails(t) \/ DeleteRemove(t) \/ GetUnknown(t)
           \/ GetReadFails(t) \/ Respond(t)
  BY <1>5, <1>7 DEF PutCommitFails, PutClose, DeleteUnknown, DeleteMetaFails,
     DeleteRemove, GetUnknown, GetReadFails, Respond, TypeOK, Writing
<1> QED
  BY <1>1, <1>2, <1>3, <1>4, <1>6, <1>7 DEF handlePut, handleDelete, handleGet

(* Who has, or is just getting, a stripe for writing is alone with its     *)
(* key, and so with the two files of that key.                             *)
LEMMA Alone ==
  ASSUME TypeOK, Exclusive, NEW t \in Threads,
         pc[t] \in Writing \/ lock(t)
  PROVE  \A u \in Threads \ {t} : pc[u] \in Writing \cup {"read"} =>
           /\ key[u] # key[t] /\ TmpOf[key[u]] # TmpOf[key[t]]
           /\ TmpOf[key[u]] # key[t] /\ TmpOf[key[t]] # key[u]
<1>1. \A u \in Threads \ {t} : pc[u] \in Writing \cup {"read"} => key[u] # key[t]
  BY DEF Exclusive, Holds, lock
<1>2. \A u \in Threads : key[u] \in Keys /\ TmpOf[key[u]] \in Paths \ Keys
  BY StoreAssumption DEF TypeOK
<1> QED
  BY <1>1, <1>2, StoreAssumption

-----------------------------------------------------------------------------
(* What an operation of t leaves alone: all that other threads have, and   *)
(* all of the disk but the key of t and its two files.                     *)
Keeps(t) ==
  /\ \A u \in Threads \ {t} :
       /\ pc'[u] = pc[u] /\ method'[u] = method[u] /\ key'[u] = key[u]
       /\ val'[u] = val[u] /\ stream'[u] = stream[u]
       /\ buffer'[u] = buffer[u] /\ status'[u] = status[u]
  /\ \A k \in Keys \ {key[t]} : (k \in meta' <=> k \in meta)
                               /\ (k \in blind' <=> k \in blind)
  /\ \A p \in Paths \ {key[t], TmpOf[key[t]]} : data'[p] = data[p]

(* A handler that writes t's key disturbs nobody.                          *)
LEMMA OthersLocal ==
  ASSUME TypeOK, Exclusive, \A u \in Threads : Local(u),
         NEW t \in Threads, Keeps(t), pc[t] \in Writing \/ lock(t)
  PROVE  \A u \in Threads \ {t} : Local(u)'
<1> SUFFICES ASSUME NEW u \in Threads \ {t} PROVE Local(u)'
  OBVIOUS
<1>1. key[u] \in Keys /\ TmpOf[key[u]] \in Paths /\ key[u] \in Paths
  BY StoreAssumption DEF TypeOK
<1>2. pc[u] \in Writing \cup {"read"} =>
        /\ key[u] \in meta' <=> key[u] \in meta
        /\ key[u] \in blind' <=> key[u] \in blind
        /\ data'[key[u]] = data[key[u]]
        /\ data'[TmpOf[key[u]]] = data[TmpOf[key[u]]]
  <2> SUFFICES ASSUME pc[u] \in Writing \cup {"read"}
               PROVE  /\ key[u] \in meta' <=> key[u] \in meta
                      /\ key[u] \in blind' <=> key[u] \in blind
                      /\ data'[key[u]] = data[key[u]]
                      /\ data'[TmpOf[key[u]]] = data[TmpOf[key[u]]]
    OBVIOUS
  <2>1. /\ key[u] # key[t] /\ TmpOf[key[u]] # TmpOf[key[t]]
        /\ TmpOf[key[u]] # key[t] /\ TmpOf[key[t]] # key[u]
    BY Alone
  <2> QED
    BY <1>1, <2>1 DEF Keeps
<1> QED
  BY <1>2, Frame DEF Keeps

(* A step that leaves the disk alone disturbs nobody either.               *)
LEMMA DiskLocal ==
  ASSUME TypeOK, \A u \in Threads : Local(u),
         NEW t \in Threads, Keeps(t), UNCHANGED <<disk, blind>>
  PROVE  \A u \in Threads \ {t} : Local(u)'
  BY Frame DEF Keeps, disk

(* Every step keeps what each thread knows of its own request and key.     *)
LEMMA LocalNext ==
  ASSUME TypeOK, Exclusive, \A u \in Threads : Local(u), Next
  PROVE  \A u \in Threads : Local(u)'
<1> USE DEF To, Status, disk, request, file, response, history
<1>0. CASE Die
  BY <1>0 DEF Die, Local, TypeOK
<1> SUFFICES ASSUME NEW t \in Threads,
                    \/ Handle(t) \/ HandleInvalid(t) \/ handlePut(t)
                    \/ handleDelete(t) \/ handleGet(t) \/ Respond(t)
             PROVE  \A u \in Threads : Local(u)'
  BY <1>0 DEF Next, Crash
<1>t. /\ key[t] \in Keys /\ key[t] \in Paths /\ TmpOf[key[t]] \in Paths
      /\ TmpOf[key[t]] # key[t] /\ TmpOf[key[t]] \notin Keys
  BY StoreAssumption DEF TypeOK
<1>1. CASE PutOpen(t)
  <2>1. Keeps(t)
    BY <1>1, <1>t DEF PutOpen, Keeps, TypeOK, Local, Writes, Fresh, Closes
  <2>2. pc[t] \in Writing \/ lock(t)
    BY <1>1 DEF PutOpen, Writing
  <2>3. Local(t)'
    BY <1>1, <1>t DEF PutOpen, TypeOK, Local, Writes, Fresh, Closes
  <2> QED
    BY <2>1, <2>2, <2>3, OthersLocal
<1>20. CASE PutOpenNew(t)
  <2>1. Keeps(t)
    BY <1>20, <1>t DEF PutOpenNew, Keeps, TypeOK
  <2>2. pc[t] \in Writing \/ lock(t)
    BY <1>20 DEF PutOpenNew, Writing
  <2>3. Local(t)'
    BY <1>20, <1>t DEF PutOpenNew, TypeOK, Local, Writes, Fresh, Closes
  <2> QED
    BY <2>1, <2>2, <2>3, OthersLocal
<1>2. CASE PutMeta(t)
  <2>1. Keeps(t)
    BY <1>2, <1>t DEF PutMeta, Restored, Keeps, TypeOK, Local, Writes, Fresh, Closes
  <2>2. pc[t] \in Writing \/ lock(t)
    BY <1>2 DEF PutMeta, Writing
  <2>3. Local(t)'
    BY <1>2, <1>t DEF PutMeta, Restored, TypeOK, Local, Writes, Fresh, Closes
  <2> QED
    BY <2>1, <2>2, <2>3, OthersLocal
<1>3. CASE PutRename(t)
  <2>1. Keeps(t)
    BY <1>3, <1>t DEF PutRename, Restored, Keeps, TypeOK, Local, Writes, Fresh, Closes
  <2>2. pc[t] \in Writing \/ lock(t)
    BY <1>3 DEF PutRename, Writing
  <2>3. Local(t)'
    BY <1>3, <1>t DEF PutRename, Restored, TypeOK, Local, Writes, Fresh, Closes
  <2> QED
    BY <2>1, <2>2, <2>3, OthersLocal
<1>4. CASE PutClose(t)
  <2>1. Keeps(t)
    BY <1>4, <1>t DEF PutClose, Keeps, TypeOK, Local, Writes, Fresh, Closes
  <2>2. pc[t] \in Writing \/ lock(t)
    BY <1>4 DEF PutClose, Writing
  <2>3. Local(t)'
    BY <1>4, <1>t DEF PutClose, TypeOK, Local, Writes, Fresh, Closes
  <2> QED
    BY <2>1, <2>2, <2>3, OthersLocal
<1>5. CASE DeleteUnknown(t)
  <2>1. Keeps(t)
    BY <1>5, <1>t DEF DeleteUnknown, Remove, Keeps, TypeOK, Local, Writes, Fresh, Closes
  <2>2. pc[t] \in Writing \/ lock(t)
    BY <1>5 DEF DeleteUnknown, Writing
  <2>3. Local(t)'
    BY <1>5, <1>t DEF DeleteUnknown, Remove, TypeOK, Local, Writes, Fresh, Closes
  <2> QED
    BY <2>1, <2>2, <2>3, OthersLocal
<1>6. CASE DeleteMeta(t)
  <2>1. Keeps(t)
    BY <1>6, <1>t DEF DeleteMeta, Restored, Keeps, TypeOK, Local, Writes, Fresh, Closes
  <2>2. pc[t] \in Writing \/ lock(t)
    BY <1>6 DEF DeleteMeta, Writing
  <2>3. Local(t)'
    BY <1>6, <1>t DEF DeleteMeta, Restored, TypeOK, Local, Writes, Fresh, Closes
  <2> QED
    BY <2>1, <2>2, <2>3, OthersLocal
<1>7. CASE DeleteRemove(t)
  <2>1. Keeps(t)
    BY <1>7, <1>t DEF DeleteRemove, Remove, Keeps, TypeOK, Local, Writes, Fresh, Closes
  <2>2. pc[t] \in Writing \/ lock(t)
    BY <1>7 DEF DeleteRemove, Writing
  <2>3. Local(t)'
    BY <1>7, <1>t DEF DeleteRemove, Remove, TypeOK, Local, Writes, Fresh, Closes
  <2> QED
    BY <2>1, <2>2, <2>3, OthersLocal
<1>8. CASE Handle(t)
  <2>1. Keeps(t) /\ UNCHANGED <<disk, blind>>
    BY <1>8 DEF Handle, Keeps, TypeOK
  <2>2. Local(t)'
    BY <1>8, <1>t DEF Handle, TypeOK, Local, Writes, Fresh, Closes
  <2> QED
    BY <2>1, <2>2, DiskLocal
<1>9. CASE HandleInvalid(t)
  <2>1. Keeps(t) /\ UNCHANGED <<disk, blind>>
    BY <1>9 DEF HandleInvalid, Keeps, TypeOK
  <2>2. Local(t)'
    BY <1>9, <1>t DEF HandleInvalid, TypeOK, Local, Writes, Fresh, Closes
  <2> QED
    BY <2>1, <2>2, DiskLocal
<1>10. CASE PutNoBuffer(t)
  <2>1. Keeps(t) /\ UNCHANGED <<disk, blind>>
    BY <1>10 DEF PutNoBuffer, Keeps, TypeOK
  <2>2. Local(t)'
    BY <1>10, <1>t DEF PutNoBuffer, TypeOK, Local, Writes, Fresh, Closes
  <2> QED
    BY <2>1, <2>2, DiskLocal
<1>11. CASE PutWrite(t)
  <2>1. Keeps(t) /\ UNCHANGED <<disk, blind>>
    BY <1>11 DEF PutWrite, Keeps, TypeOK
  <2>2. Local(t)'
    BY <1>11, <1>t DEF PutWrite, TypeOK, Local, Writes, Fresh, Closes
  <2> QED
    BY <2>1, <2>2, DiskLocal
<1>12. CASE PutWriteFails(t)
  <2>1. Keeps(t) /\ UNCHANGED <<disk, blind>>
    BY <1>12 DEF PutWriteFails, Keeps, TypeOK
  <2>2. Local(t)'
    BY <1>12, <1>t DEF PutWriteFails, TypeOK, Local, Writes, Fresh, Closes
  <2> QED
    BY <2>1, <2>2, DiskLocal
<1>13. CASE PutCommitFails(t)
  <2>1. Keeps(t) /\ UNCHANGED <<disk, blind>>
    BY <1>13 DEF PutCommitFails, Keeps, TypeOK
  <2>2. Local(t)'
    BY <1>13, <1>t DEF PutCommitFails, TypeOK, Local, Writes, Fresh, Closes
  <2> QED
    BY <2>1, <2>2, DiskLocal
<1>14. CASE DeleteMetaFails(t)
  <2>1. Keeps(t) /\ UNCHANGED <<disk, blind>>
    BY <1>14 DEF DeleteMetaFails, Keeps, TypeOK
  <2>2. Local(t)'
    BY <1>14, <1>t DEF DeleteMetaFails, TypeOK, Local, Writes, Fresh, Closes
  <2> QED
    BY <2>1, <2>2, DiskLocal
<1>15. CASE GetUnknown(t)
  <2>1. Keeps(t) /\ UNCHANGED <<disk, blind>>
    BY <1>15 DEF GetUnknown, Keeps, TypeOK
  <2>2. Local(t)'
    BY <1>15, <1>t DEF GetUnknown, TypeOK, Local, Writes, Fresh, Closes
  <2> QED
    BY <2>1, <2>2, DiskLocal
<1>16. CASE GetMeta(t)
  <2>1. Keeps(t) /\ UNCHANGED <<disk, blind>>
    BY <1>16 DEF GetMeta, Keeps, TypeOK
  <2>2. Local(t)'
    BY <1>16, <1>t DEF GetMeta, TypeOK, Local, Writes, Fresh, Closes
  <2> QED
    BY <2>1, <2>2, DiskLocal
<1>17. CASE GetReadFails(t)
  <2>1. Keeps(t) /\ UNCHANGED <<disk, blind>>
    BY <1>17 DEF GetReadFails, Keeps, TypeOK
  <2>2. Local(t)'
    BY <1>17, <1>t DEF GetReadFails, TypeOK, Local, Writes, Fresh, Closes
  <2> QED
    BY <2>1, <2>2, DiskLocal
<1>18. CASE Respond(t)
  <2>1. Keeps(t) /\ UNCHANGED <<disk, blind>>
    BY <1>18 DEF Respond, Keeps, TypeOK
  <2>2. Local(t)'
    BY <1>18, <1>t DEF Respond, TypeOK, Local, Writes, Fresh, Closes
  <2> QED
    BY <2>1, <2>2, DiskLocal
<1>19. CASE GetRead(t)
  <2>0. CASE data[key[t]] = NoFile
    BY <1>19, <2>0, <1>0 DEF GetRead
  <2> SUFFICES ASSUME data[key[t]] # NoFile PROVE \A u \in Threads : Local(u)'
    BY <2>0
  <2>1. Keeps(t) /\ UNCHANGED <<disk, blind>>
    BY <1>19 DEF GetRead, Keeps, TypeOK
  <2>2. Local(t)'
    BY <1>19 DEF GetRead, TypeOK, Local
  <2> QED
    BY <2>1, <2>2, DiskLocal
<1> QED
  BY <1>1, <1>2, <1>3, <1>4, <1>5, <1>6, <1>7, <1>8, <1>9, <1>10, <1>11,
     <1>12, <1>13, <1>14, <1>15, <1>16, <1>17, <1>18, <1>19, <1>20
     DEF handlePut, handleDelete, handleGet

-----------------------------------------------------------------------------
(* The file of a known key goes away only if a delete takes the key for    *)
(* unknown: PutRename replaces it in one step and DeleteMeta forgets the   *)
(* key before DeleteRemove.                                                *)
LEMMA MetaHasFileNext ==
  ASSUME IInv, Next
  PROVE  MetaHasFile'
<1> USE StoreAssumption
      DEF To, Status, disk, request, file, response, history, IInv, MetaHasFile
<1>0. CASE UNCHANGED <<disk, blind>>
  BY <1>0
<1>1. CASE Die
  BY <1>0, <1>1 DEF Die
<1> SUFFICES ASSUME NEW t \in Threads,
                    \/ Handle(t) \/ HandleInvalid(t) \/ handlePut(t)
                    \/ handleDelete(t) \/ handleGet(t) \/ Respond(t)
             PROVE  MetaHasFile'
  BY <1>1 DEF Next, Crash
<1>2. CASE PutOpen(t)
  BY <1>2 DEF PutOpen, TypeOK
<1>20. CASE PutOpenNew(t)
  BY <1>20 DEF PutOpenNew, TypeOK
<1>3. CASE PutMeta(t)
  BY <1>3 DEF PutMeta, Restored, Local, Writes, Fresh, TypeOK
<1>4. CASE PutRename(t)
  BY <1>4 DEF PutRename, Restored, Local, Writes, Fresh, TypeOK
<1>5. CASE PutClose(t)
  BY <1>5 DEF PutClose, TypeOK
<1>6. CASE DeleteUnknown(t) \/ DeleteMeta(t)
  BY <1>6 DEF DeleteUnknown, Remove, DeleteMeta, Restored, TypeOK
<1>7. CASE DeleteRemove(t)
  BY <1>7 DEF DeleteRemove, Remove, Local, TypeOK
<1>8. CASE HandleInvalid(t) \/ Handle(t) \/ PutNoBuffer(t) \/ PutWrite(t)
           \/ PutWriteFails(t) \/ PutCommitFails(t) \/ DeleteMetaFails(t)
           \/ handleGet(t) \/ Respond(t)
  BY <1>0, <1>8 DEF HandleInvalid, Handle, PutNoBuffer, PutWrite, PutWriteFails,
     PutCommitFails, DeleteMetaFails, handleGet, GetUnknown, GetMeta, GetRead,
     GetReadFails, Die, Respond
<1> QED
  BY <1>2, <1>3, <1>4, <1>5, <1>6, <1>7, <1>8, <1>20 DEF handlePut, handleDelete

(* Half a file under a known key is one t has just made visible, until     *)
(* its fclose; a crash in between is what torn records.                    *)
LEMMA WholeNext ==
  ASSUME IInv, Next
  PROVE  WholeUnlessTorn'
<1> USE StoreAssumption
      DEF To, Status, disk, request, file, response, history, IInv
<1>1. CASE Die
  BY <1>1 DEF Die, WholeUnlessTorn, Flushing, TypeOK
<1> SUFFICES ASSUME NEW t \in Threads,
                    \/ Handle(t) \/ HandleInvalid(t) \/ handlePut(t)
                    \/ handleDelete(t) \/ handleGet(t) \/ Respond(t)
             PROVE  WholeUnlessTorn'
  BY <1>1 DEF Next, Crash
<1>2. CASE PutOpen(t)
  BY <1>2 DEF PutOpen, TypeOK, WholeUnlessTorn, Flushing
<1>20. CASE PutOpenNew(t)
  BY <1>20 DEF PutOpenNew, TypeOK, WholeUnlessTorn, Flushing
<1>3. CASE PutMeta(t)
  BY <1>3 DEF PutMeta, Restored, TypeOK, WholeUnlessTorn, Flushing
<1>4. CASE PutRename(t)
  BY <1>4 DEF PutRename, Restored, TypeOK, WholeUnlessTorn, Flushing
<1>5. CASE PutClose(t)
  <2>1. \A u \in Threads \ {t} : Flushing(u) => Flushing(u)' /\ key'[u] = key[u]
    BY <1>5 DEF PutClose, Flushing, TypeOK
  <2>2. Flushing(t) => data'[key[t]] \in Values
    BY <1>5 DEF PutClose, Flushing, Local, Closes, Fresh, TypeOK
  <2>3. ~Flushing(t) => \A k \in meta \ blind : data'[k] = data[k]
    BY <1>5 DEF PutClose, Flushing, Local, Closes, Fresh, TypeOK
  <2>4. Flushing(t) => \A k \in meta \ {key[t]} : data'[k] = data[k]
    BY <1>5 DEF PutClose, Flushing, Local, Closes, Fresh, TypeOK
  <2>5. meta' = meta /\ torn' = torn /\ blind' = blind /\ Half \notin Values
    BY <1>5 DEF PutClose
  <2> QED
    BY <2>1, <2>2, <2>3, <2>4, <2>5 DEF WholeUnlessTorn
<1>6. CASE DeleteUnknown(t) \/ DeleteMeta(t)
  BY <1>6 DEF DeleteUnknown, Remove, DeleteMeta, Restored, TypeOK, WholeUnlessTorn, Flushing
<1>7. CASE DeleteRemove(t)
  BY <1>7 DEF DeleteRemove, Remove, Local, TypeOK, WholeUnlessTorn, Flushing
<1>8. ASSUME UNCHANGED <<disk, torn, blind, key>>,
             \A u \in Threads : Flushing(u) => Flushing(u)'
      PROVE  WholeUnlessTorn'
  BY <1>8 DEF WholeUnlessTorn
<1>9. CASE HandleInvalid(t) \/ PutNoBuffer(t) \/ PutWrite(t)
           \/ PutWriteFails(t) \/ PutCommitFails(t) \/ DeleteMetaFails(t)
           \/ GetUnknown(t) \/ GetMeta(t) \/ GetReadFails(t) \/ Respond(t)
  BY <1>8, <1>9 DEF HandleInvalid, PutNoBuffer, PutWrite, PutWriteFails,
     PutCommitFails, DeleteMetaFails, GetUnknown, GetMeta, GetReadFails, Respond,
     Flushing, TypeOK
<1>10. CASE Handle(t)
  BY <1>10 DEF Handle, WholeUnlessTorn, Flushing, TypeOK
<1>11. CASE GetRead(t)
  BY <1>1, <1>8, <1>11 DEF GetRead, Flushing, TypeOK
<1> QED
  BY <1>2, <1>3, <1>4, <1>5, <1>6, <1>7, <1>9, <1>10, <1>11, <1>20
     DEF handlePut, handleDelete, handleGet

-----------------------------------------------------------------------------
(* The inductive invariant.                                                *)
THEOREM Inductive == Spec => []IInv
<1>1. Init => IInv
  <2>1. Init => TypeOK
    BY TypeInit
  <2>2. Init => Exclusive /\ (\A t \in Threads : Local(t))
    BY DEF Init, Exclusive, Local, Writing
  <2>3. Init => MetaHasFile /\ WholeUnlessTorn
    BY DEF Init, MetaHasFile, WholeUnlessTorn
  <2> QED
    BY <2>1, <2>2, <2>3 DEF IInv
<1>2. IInv /\ [Next]_vars => IInv'
  <2>1. ASSUME IInv, Next PROVE IInv'
    BY <2>1, TypeNext, ExclusiveNext, LocalNext, MetaHasFileNext, WholeNext
       DEF IInv
  <2>2. ASSUME IInv, UNCHANGED vars PROVE IInv'
    BY <2>2 DEF vars, disk, request, file, response, history, IInv, TypeOK,
       Exclusive, Holds, Local, Writes, Fresh, Closes, MetaHasFile, WholeUnlessTorn,
       Flushing
  <2> QED
    BY <2>1, <2>2
<1> QED
  BY <1>1, <1>2, PTL DEF Spec

(* Every response has a status when it is sent, and all types are kept.    *)
THEOREM TypeCorrect == Spec => []TypeOK
  BY Inductive, PTL DEF IInv

(* At every moment, crashes included, a key in RocksDB has a file, unless  *)
(* a delete could not look it up: handleGet measures a file that is not    *)
(* there only after such a delete.                                         *)
THEOREM KnownKeysHaveFiles == Spec => []MetaHasFile
  BY Inductive, PTL DEF IInv

(* A known key has half a file only while its put is being flushed, if a   *)
(* crash cut that flush off, or after a put that could not look it up: no  *)
(* other crash, error or race harms it.                                    *)
THEOREM ObjectsWhole == Spec => []WholeUnlessTorn
  BY Inductive, PTL DEF IInv

-----------------------------------------------------------------------------
(* The refinement of AtomicStore.  First, what clients see of a key: the   *)
(* value that is being flushed, else what the file holds.                  *)
LEMMA KvFlushing ==
  IInv => \A t \in Threads : Flushing(t) => Kv[key[t]] = val[t]
<1> SUFFICES ASSUME IInv, NEW t \in Threads, Flushing(t)
             PROVE  Kv[key[t]] = val[t]
  OBVIOUS
<1>1. key[t] \in Keys /\ key[t] \in meta \ blind
  BY DEF IInv, TypeOK, Local, Closes, Flushing
<1>2. \A u \in Threads : Flushing(u) /\ key[u] = key[t] => u = t
  BY Alone DEF IInv, Flushing, Writing
<1>3. (CHOOSE u \in Threads : Flushing(u) /\ key[u] = key[t]) = t
  BY <1>2
<1> QED
  BY <1>1, <1>3 DEF Kv

(* A key nobody is writing has the value on disk, unless that is lost.     *)
LEMMA KvResting ==
  \A k \in Keys : (~\E t \in Threads : Flushing(t) /\ key[t] = k) =>
    Kv[k] = IF k \notin meta THEN NoFile ELSE IF k \in blind THEN Lost ELSE data[k]
  BY DEF Kv

(* A known key nobody is writing has a value, or a lost one.               *)
LEMMA Present ==
  ASSUME IInv, NEW k \in meta, k \in Keys,
         \A u \in Threads : Flushing(u) => key[u] # k
  PROVE  Kv[k] # NoFile /\ (k \notin blind => Kv[k] # Lost)
<1>1. Kv[k] = IF k \in blind THEN Lost ELSE data[k]
  BY KvResting
<1>2. k \notin blind => data[k] # NoFile
  BY DEF IInv, MetaHasFile
<1>3. data[k] \in Contents /\ Lost \notin Contents
  BY StoreAssumption DEF IInv, TypeOK, Contents
<1> QED
  BY <1>1, <1>2, <1>3 DEF Contents

(* The map clients see is a function of the keys.                          *)
LEMMA KvFunction == Kv = [k \in Keys |-> Kv[k]]
  BY DEF Kv

(* The statuses clients see are a function of the threads.                 *)
LEMMA StatusFunction == ClientStatus = [t \in Threads |-> ClientStatus[t]]
  BY DEF ClientStatus

(* The same facts after a step.                                            *)
LEMMA KvNext ==
  /\ IInv' => (\A t \in Threads : Flushing(t) => Kv[key[t]] = val[t])'
  /\ (\A k \in Keys : (~\E t \in Threads : Flushing(t) /\ key[t] = k) =>
        Kv[k] = IF k \notin meta THEN NoFile
                ELSE IF k \in blind THEN Lost ELSE data[k])'
  /\ (Kv = [k \in Keys |-> Kv[k]])'
  /\ (ClientStatus = [t \in Threads |-> ClientStatus[t]])'
  BY KvFlushing, KvResting, KvFunction, StatusFunction, PTL

(* A step of t changes what clients see of a key only through the disk or  *)
(* through a flush of its own.                                             *)
OthersSame(t) ==
  \A u \in Threads \ {t} : /\ pc'[u] = pc[u] /\ key'[u] = key[u]
                           /\ val'[u] = val[u] /\ status'[u] = status[u]

(* What clients see of a key that a step leaves alone stays.               *)
LEMMA KvSame ==
  ASSUME IInv, IInv', NEW t \in Threads, OthersSame(t), NEW k \in Keys,
         k \in meta' <=> k \in meta, k \in blind' <=> k \in blind,
         data'[k] = data[k],
         ~(Flushing(t) /\ key[t] = k), ~(Flushing(t)' /\ key'[t] = k)
  PROVE  Kv'[k] = Kv[k]
<1>1. CASE \E u \in Threads : Flushing(u) /\ key[u] = k
  <2>1. PICK u \in Threads : Flushing(u) /\ key[u] = k
    BY <1>1
  <2>2. u # t /\ Flushing(u)' /\ key'[u] = k /\ val'[u] = val[u]
    BY <2>1 DEF OthersSame, Flushing
  <2>3. Kv[k] = val[u]
    BY <2>1, KvFlushing
  <2>4. Kv'[k] = val'[u]
    BY <2>2, KvNext
  <2> QED
    BY <2>2, <2>3, <2>4
<1>2. CASE ~\E u \in Threads : Flushing(u) /\ key[u] = k
  <2>1. ~\E u \in Threads : Flushing(u)' /\ key'[u] = k
    BY <1>2 DEF OthersSame, Flushing
  <2>2. Kv[k] = IF k \notin meta THEN NoFile
                ELSE IF k \in blind THEN Lost ELSE data[k]
    BY <1>2, KvResting
  <2>3. Kv'[k] = IF k \notin meta' THEN NoFile
                 ELSE IF k \in blind' THEN Lost ELSE data'[k]
    BY <2>1, KvNext
  <2> QED
    BY <2>2, <2>3
<1> QED
  BY <1>1, <1>2

(* Every step of the store is a step of AtomicStore or invisible to the    *)
(* clients.                                                                *)
LEMMA CrashRefines ==
  ASSUME IInv, IInv', Die
  PROVE  Atomic!Crash /\ UNCHANGED misses
<1>1. ClientStatus' = [t \in Threads |-> "idle"]
  BY DEF Die, ClientStatus
<1>2. \A t \in Threads : ~Flushing(t)'
  BY DEF Die, Flushing
<1>3. \A k \in Keys : Kv'[k] = IF k \notin meta THEN NoFile
                            ELSE IF k \in blind THEN Lost ELSE data[k]
  BY <1>2, KvNext DEF Die, disk
<1>4. ASSUME NEW k \in Keys
      PROVE  Kv'[k] = Kv[k] \/ (Atomic!JustPut(k) /\ Kv'[k] = Half)
  <2>1. CASE \E t \in Threads : Flushing(t) /\ key[t] = k
    <3>1. PICK t \in Threads : Flushing(t) /\ key[t] = k
      BY <2>1
    <3>2. method[t] = "put" /\ k \in meta \ blind /\ data[k] = Half
      BY <3>1 DEF IInv, Local, Closes, Flushing
    <3>3. ClientStatus[t] = "ok"
      BY <3>1 DEF ClientStatus, Flushing
    <3> QED
      BY <3>1, <3>2, <3>3, <1>3 DEF Atomic!JustPut
  <2>2. CASE ~\E t \in Threads : Flushing(t) /\ key[t] = k
    BY <2>2, <1>3, KvResting
  <2> QED
    BY <2>1, <2>2
<1>5. DOMAIN Kv' = Keys
  BY KvNext
<1> QED
  BY <1>1, <1>4, <1>5 DEF Atomic!Crash, Die

(* How a step of t changes what the clients see.                           *)
LEMMA StatusOf ==
  ASSUME IInv, IInv', NEW t \in Threads, OthersSame(t)
  PROVE  /\ ClientStatus' = [ClientStatus EXCEPT ![t] = ClientStatus'[t]]
         /\ ClientStatus[t] = IF pc[t] = "idle" THEN "idle"
                              ELSE IF pc[t] = "remove" THEN "ok" ELSE status[t]
         /\ ClientStatus'[t] = IF pc'[t] = "idle" THEN "idle"
                               ELSE IF pc'[t] = "remove" THEN "ok" ELSE status'[t]
<1>1. \A u \in Threads \ {t} : ClientStatus'[u] = ClientStatus[u]
  BY DEF ClientStatus, OthersSame
<1>2. ClientStatus' = [u \in Threads |-> ClientStatus'[u]]
  BY KvNext
<1>3. /\ ClientStatus[t] = IF pc[t] = "idle" THEN "idle"
                           ELSE IF pc[t] = "remove" THEN "ok" ELSE status[t]
      /\ ClientStatus'[t] = IF pc'[t] = "idle" THEN "idle"
                            ELSE IF pc'[t] = "remove" THEN "ok" ELSE status'[t]
  BY DEF ClientStatus
<1> QED
  BY <1>1, <1>2, <1>3, StatusFunction

(* The map changes at the key of the step, or not at all.                  *)
LEMMA KvPointwise ==
  ASSUME NEW k \in Keys, \A j \in Keys \ {k} : Kv'[j] = Kv[j]
  PROVE  /\ Kv' = [Kv EXCEPT ![k] = Kv'[k]]
         /\ Kv'[k] = Kv[k] => Kv' = Kv
  BY KvFunction, KvNext

(* Every step of the store is a step of the abstract store, or none.       *)
LEMMA StepRefines ==
  ASSUME IInv, IInv', Next
  PROVE  Atomic!Next \/ UNCHANGED Atomic!vars
<1> USE DEF To, Status, disk, request, file, response, history
<1>c. CASE Die
  BY <1>c, CrashRefines DEF Atomic!Next
<1> SUFFICES ASSUME NEW t \in Threads,
                    \/ Handle(t) \/ HandleInvalid(t) \/ handlePut(t)
                    \/ handleDelete(t) \/ handleGet(t) \/ Respond(t)
             PROVE  Atomic!Next \/ UNCHANGED Atomic!vars
  BY <1>c DEF Next, Crash
<1>t. /\ key[t] \in Keys /\ key[t] \in Paths /\ TmpOf[key[t]] \in Paths
      /\ TmpOf[key[t]] # key[t] /\ TmpOf[key[t]] \notin Keys /\ Keys \subseteq Paths
  BY StoreAssumption DEF IInv, TypeOK
<1>none. pc[t] \notin {"close", "respond"} => status[t] = "none"
  BY DEF IInv, TypeOK
<1>1. CASE HandleInvalid(t)
  <2>1. OthersSame(t) /\ UNCHANGED <<disk, key, got, request, blind, misses>>
    BY <1>1 DEF HandleInvalid, OthersSame, IInv, TypeOK
  <2>2. ~Flushing(t) /\ ~Flushing(t)'
    BY <1>1 DEF HandleInvalid, Flushing, IInv, TypeOK
  <2>3. Kv' = Kv
    BY <2>1, <2>2, <1>t, KvSame, KvPointwise
  <2>4. ClientStatus[t] = "none" /\ ClientStatus'[t] = "invalid"
    BY <1>1, <2>1, <1>none, StatusOf DEF HandleInvalid, IInv, TypeOK
  <2>5. Atomic!Refuse(t)
    BY <2>1, <2>3, <2>4, StatusOf DEF Atomic!Refuse, Atomic!Respond, Atomic!request
  <2> QED
    BY <2>1, <2>5 DEF Atomic!Next, Atomic!Step
<1>2. CASE PutNoBuffer(t)
  <2>1. OthersSame(t) /\ UNCHANGED <<disk, key, got, request, blind, misses>>
    BY <1>2 DEF PutNoBuffer, OthersSame, IInv, TypeOK
  <2>2. ~Flushing(t) /\ ~Flushing(t)'
    BY <1>2 DEF PutNoBuffer, Flushing, IInv, TypeOK
  <2>3. Kv' = Kv
    BY <2>1, <2>2, <1>t, KvSame, KvPointwise
  <2>4. ClientStatus[t] = "none" /\ ClientStatus'[t] = "exception"
    BY <1>2, <2>1, <1>none, StatusOf DEF PutNoBuffer, IInv, TypeOK
  <2>5. Atomic!Refuse(t)
    BY <2>1, <2>3, <2>4, StatusOf DEF Atomic!Refuse, Atomic!Respond, Atomic!request
  <2> QED
    BY <2>1, <2>5 DEF Atomic!Next, Atomic!Step
<1>3. CASE PutWriteFails(t)
  <2>1. OthersSame(t) /\ UNCHANGED <<disk, key, got, request, blind, misses>>
    BY <1>3 DEF PutWriteFails, OthersSame, IInv, TypeOK
  <2>2. ~Flushing(t) /\ ~Flushing(t)'
    BY <1>3 DEF PutWriteFails, Flushing, IInv, TypeOK
  <2>3. Kv' = Kv
    BY <2>1, <2>2, <1>t, KvSame, KvPointwise
  <2>4. ClientStatus[t] = "none" /\ ClientStatus'[t] = "exception"
    BY <1>3, <2>1, <1>none, StatusOf DEF PutWriteFails, IInv, TypeOK
  <2>5. Atomic!Refuse(t)
    BY <2>1, <2>3, <2>4, StatusOf DEF Atomic!Refuse, Atomic!Respond, Atomic!request
  <2> QED
    BY <2>1, <2>5 DEF Atomic!Next, Atomic!Step
<1>4. CASE PutCommitFails(t)
  <2>1. OthersSame(t) /\ UNCHANGED <<disk, key, got, request, blind, misses>>
    BY <1>4 DEF PutCommitFails, OthersSame, IInv, TypeOK
  <2>2. ~Flushing(t) /\ ~Flushing(t)'
    BY <1>4 DEF PutCommitFails, Flushing, IInv, TypeOK
  <2>3. Kv' = Kv
    BY <2>1, <2>2, <1>t, KvSame, KvPointwise
  <2>4. ClientStatus[t] = "none" /\ ClientStatus'[t] = "exception"
    BY <1>4, <2>1, <1>none, StatusOf DEF PutCommitFails, IInv, TypeOK
  <2>5. Atomic!Refuse(t)
    BY <2>1, <2>3, <2>4, StatusOf DEF Atomic!Refuse, Atomic!Respond, Atomic!request
  <2> QED
    BY <2>1, <2>5 DEF Atomic!Next, Atomic!Step
<1>5. CASE GetReadFails(t)
  <2>1. OthersSame(t) /\ UNCHANGED <<disk, key, got, request, blind, misses>>
    BY <1>5 DEF GetReadFails, OthersSame, IInv, TypeOK
  <2>2. ~Flushing(t) /\ ~Flushing(t)'
    BY <1>5 DEF GetReadFails, Flushing, IInv, TypeOK
  <2>3. Kv' = Kv
    BY <2>1, <2>2, <1>t, KvSame, KvPointwise
  <2>4. ClientStatus[t] = "none" /\ ClientStatus'[t] = "exception"
    BY <1>5, <2>1, <1>none, StatusOf DEF GetReadFails, IInv, TypeOK
  <2>5. Atomic!Refuse(t)
    BY <2>1, <2>3, <2>4, StatusOf DEF Atomic!Refuse, Atomic!Respond, Atomic!request
  <2> QED
    BY <2>1, <2>5 DEF Atomic!Next, Atomic!Step
<1>6. CASE DeleteMetaFails(t)
  <2>1. OthersSame(t) /\ UNCHANGED <<disk, key, got, request, blind, misses>>
    BY <1>6 DEF DeleteMetaFails, OthersSame, IInv, TypeOK
  <2>2. ~Flushing(t) /\ ~Flushing(t)'
    BY <1>6 DEF DeleteMetaFails, Flushing, IInv, TypeOK
  <2>3. Kv' = Kv
    BY <2>1, <2>2, <1>t, KvSame, KvPointwise
  <2>4. ClientStatus[t] = "none" /\ method[t] = "delete" /\ key[t] \in meta
        /\ ClientStatus'[t] = IF data[key[t]] = NoFile THEN "not_found" ELSE "exception"
    BY <1>6, <2>1, <1>none, StatusOf DEF DeleteMetaFails, IInv, TypeOK
  <2>5. CASE data[key[t]] # NoFile
    <3>1. Atomic!Refuse(t)
      BY <2>1, <2>3, <2>4, <2>5, StatusOf DEF Atomic!Refuse, Atomic!Respond, Atomic!request
    <3> QED
      BY <2>1, <3>1 DEF Atomic!Next, Atomic!Step
  <2>6. CASE data[key[t]] = NoFile
    <3>1. Kv[key[t]] = Lost
      BY <2>4, <2>6, <1>t DEF Kv, IInv, MetaHasFile
    <3>2. Atomic!DeleteLost(t)
      BY <2>1, <2>3, <2>4, <2>6, <3>1, StatusOf
         DEF Atomic!DeleteLost, Atomic!Respond, Atomic!request
    <3> QED
      BY <2>1, <3>2 DEF Atomic!Next, Atomic!Step
  <2> QED
    BY <2>5, <2>6
<1>7. CASE PutWrite(t)
  <2>1. OthersSame(t) /\ UNCHANGED <<disk, key, got, request, blind, misses>>
    BY <1>7 DEF PutWrite, OthersSame, IInv, TypeOK
  <2>2. ~Flushing(t) /\ ~Flushing(t)'
    BY <1>7 DEF PutWrite, Flushing, IInv, TypeOK
  <2>3. Kv' = Kv
    BY <2>1, <2>2, <1>t, KvSame, KvPointwise
  <2>4. ClientStatus'[t] = ClientStatus[t]
    BY <1>7, <2>1, StatusOf DEF PutWrite, IInv, TypeOK
  <2> QED
    BY <2>1, <2>3, <2>4, StatusOf, StatusFunction DEF Atomic!vars, Atomic!request
<1>8. CASE GetMeta(t)
  <2>1. OthersSame(t) /\ UNCHANGED <<disk, key, got, request, blind, misses>>
    BY <1>8 DEF GetMeta, OthersSame, IInv, TypeOK
  <2>2. ~Flushing(t) /\ ~Flushing(t)'
    BY <1>8 DEF GetMeta, Flushing, IInv, TypeOK
  <2>3. Kv' = Kv
    BY <2>1, <2>2, <1>t, KvSame, KvPointwise
  <2>4. ClientStatus'[t] = ClientStatus[t]
    BY <1>8, <2>1, StatusOf DEF GetMeta, IInv, TypeOK
  <2> QED
    BY <2>1, <2>3, <2>4, StatusOf, StatusFunction DEF Atomic!vars, Atomic!request
<1>9. CASE PutOpen(t)
  <2>1. OthersSame(t) /\ UNCHANGED <<key, got, request, meta, blind, misses>>
    BY <1>9 DEF PutOpen, OthersSame, IInv, TypeOK
  <2>2. ~Flushing(t) /\ ~Flushing(t)'
    BY <1>9 DEF PutOpen, Flushing, IInv, TypeOK
  <2>3. \A k \in Keys : data'[k] = data[k]
    BY <1>9, <1>t DEF PutOpen, IInv, TypeOK
  <2>4. Kv' = Kv
    BY <2>1, <2>2, <2>3, <1>t, KvSame, KvPointwise
  <2>6. ClientStatus'[t] = ClientStatus[t]
    BY <1>9, <2>1, StatusOf DEF PutOpen, IInv, TypeOK
  <2> QED
    BY <2>1, <2>4, <2>6, StatusOf, StatusFunction DEF Atomic!vars, Atomic!request
<1>20. CASE PutOpenNew(t)
  <2>1. OthersSame(t) /\ UNCHANGED <<key, got, request, meta>>
    BY <1>20 DEF PutOpenNew, OthersSame, IInv, TypeOK
  <2>2. ~Flushing(t) /\ ~Flushing(t)'
    BY <1>20 DEF PutOpenNew, Flushing, IInv, TypeOK
  <2>3. \A k \in Keys \ {key[t]} : data'[k] = data[k] /\ (k \in blind' <=> k \in blind)
    BY <1>20, <1>t DEF PutOpenNew, IInv, TypeOK
  <2>4. \A k \in Keys \ {key[t]} : Kv'[k] = Kv[k]
    BY <2>1, <2>2, <2>3, KvSame
  <2>5. ClientStatus[t] = "none" /\ ClientStatus'[t] = "none"
    BY <1>20, <2>1, <1>none, StatusOf DEF PutOpenNew, IInv, TypeOK
  <2>6. ClientStatus' = ClientStatus
    BY <2>1, <2>5, StatusOf, StatusFunction
  <2>7. CASE key[t] \in meta
    <3>1. key[t] \in blind' /\ misses < MaxMisses /\ misses' = misses + 1
          /\ method[t] = "put"
      BY <1>20, <2>7 DEF PutOpenNew, NotFound
    <3>2. Kv'[key[t]] = Lost
      BY <3>1, <2>1, <2>7, <1>t DEF Kv
    <3>3. Kv[key[t]] # NoFile
      BY <1>20, <2>7, <1>t, Present DEF PutOpenNew, lock, Holds, Flushing, Writing
    <3>4. Atomic!Overlook(t)
      BY <2>1, <2>4, <2>5, <2>6, <3>1, <3>2, <3>3, <1>t, KvPointwise
         DEF Atomic!Overlook, Atomic!request
    <3> QED
      BY <3>4 DEF Atomic!Next
  <2>8. CASE key[t] \notin meta
    <3>1. UNCHANGED misses /\ Kv'[key[t]] = Kv[key[t]]
      BY <1>20, <2>1, <2>8, <1>t DEF PutOpenNew, NotFound, Kv
    <3> QED
      BY <2>1, <2>4, <2>6, <3>1, <1>t, KvPointwise DEF Atomic!vars, Atomic!request
  <2> QED
    BY <2>7, <2>8
<1>10. CASE PutMeta(t)
  <2>1. OthersSame(t) /\ UNCHANGED <<key, got, request, misses>>
    BY <1>10 DEF PutMeta, Restored, OthersSame, IInv, TypeOK
  <2>2. ~Flushing(t) /\ Flushing(t)'
    BY <1>10 DEF PutMeta, Flushing, IInv, TypeOK
  <2>3. method[t] = "put"
        /\ \A k \in Keys \ {key[t]} : 
          /\ (k \in meta' <=> k \in meta) /\ (k \in blind' <=> k \in blind)
          /\ data'[k] = data[k]
    BY <1>10, <1>t DEF PutMeta, Restored, IInv, TypeOK, Local, Writes, Fresh
  <2>4. \A k \in Keys \ {key[t]} : Kv'[k] = Kv[k]
    BY <2>1, <2>2, <2>3, KvSame
  <2>5. Kv'[key[t]] = val[t]
    BY <2>1, <2>2, KvNext
  <2>6. ClientStatus[t] = "none" /\ ClientStatus'[t] = "ok"
    BY <1>10, <2>1, <1>none, StatusOf DEF PutMeta, IInv, TypeOK
  <2>7. Atomic!Put(t)
    BY <2>1, <2>3, <2>4, <2>5, <2>6, <1>t, KvPointwise, StatusOf
       DEF Atomic!Put, Atomic!Respond, Atomic!request
  <2> QED
    BY <2>1, <2>7 DEF Atomic!Next, Atomic!Step
<1>11. CASE PutRename(t)
  <2>1. OthersSame(t) /\ UNCHANGED <<key, got, request, misses>>
    BY <1>11 DEF PutRename, Restored, OthersSame, IInv, TypeOK
  <2>2. ~Flushing(t) /\ Flushing(t)'
    BY <1>11 DEF PutRename, Flushing, IInv, TypeOK
  <2>3. method[t] = "put"
        /\ \A k \in Keys \ {key[t]} : 
          /\ (k \in meta' <=> k \in meta) /\ (k \in blind' <=> k \in blind)
          /\ data'[k] = data[k]
    BY <1>11, <1>t DEF PutRename, Restored, IInv, TypeOK, Local, Writes, Fresh
  <2>4. \A k \in Keys \ {key[t]} : Kv'[k] = Kv[k]
    BY <2>1, <2>2, <2>3, KvSame
  <2>5. Kv'[key[t]] = val[t]
    BY <2>1, <2>2, KvNext
  <2>6. ClientStatus[t] = "none" /\ ClientStatus'[t] = "ok"
    BY <1>11, <2>1, <1>none, StatusOf DEF PutRename, IInv, TypeOK
  <2>7. Atomic!Put(t)
    BY <2>1, <2>3, <2>4, <2>5, <2>6, <1>t, KvPointwise, StatusOf
       DEF Atomic!Put, Atomic!Respond, Atomic!request
  <2> QED
    BY <2>1, <2>7 DEF Atomic!Next, Atomic!Step
<1>12. CASE PutClose(t)
  <2>1. OthersSame(t) /\ UNCHANGED <<key, got, request, meta, blind, misses>> /\ ~Flushing(t)'
    BY <1>12 DEF PutClose, OthersSame, Flushing, IInv, TypeOK
  <2>2. \A k \in Keys \ {key[t]} : data'[k] = data[k]
    BY <1>12, <1>t DEF PutClose, IInv, TypeOK, Local, Closes, Fresh
  <2>3. \A k \in Keys \ {key[t]} : Kv'[k] = Kv[k]
    BY <2>1, <2>2, KvSame
  <2>4. Kv'[key[t]] = Kv[key[t]]
    <3>1. CASE Flushing(t)
      <4>1. Kv[key[t]] = val[t]
        BY <3>1, KvFlushing
      <4>2. key[t] \in meta' \ blind' /\ data'[key[t]] = val[t]
        BY <1>12, <3>1, <1>t DEF PutClose, Flushing, IInv, TypeOK, Local, Closes
      <4>3. \A u \in Threads \ {t} : Flushing(u) => key[u] # key[t]
        BY <1>12, Alone DEF PutClose, Flushing, Writing, IInv
      <4>4. ~\E u \in Threads : Flushing(u)' /\ key'[u] = key[t]
        BY <4>3, <2>1 DEF OthersSame, Flushing
      <4> QED
        BY <4>1, <4>2, <4>4, <1>t, KvNext
    <3>2. CASE ~Flushing(t) /\ (key[t] \notin meta \/ key[t] \in blind)
      BY <3>2, <2>1, <1>t DEF Kv
    <3>3. CASE ~Flushing(t) /\ key[t] \in meta \ blind
      <4>1. data'[key[t]] = data[key[t]]
        BY <1>12, <3>3, <1>t DEF PutClose, Flushing, IInv, TypeOK, Local, Closes, Fresh
      <4> QED
        BY <4>1, <3>3, <2>1, <1>t, KvSame
    <3> QED
      BY <3>1, <3>2, <3>3
  <2>5. ClientStatus'[t] = ClientStatus[t]
    BY <1>12, <2>1, StatusOf DEF PutClose, IInv, TypeOK
  <2> QED
    BY <2>1, <2>3, <2>4, <2>5, <1>t, KvPointwise, StatusOf, StatusFunction
       DEF Atomic!vars, Atomic!request
<1>13. CASE DeleteUnknown(t)
  <2>1. OthersSame(t) /\ UNCHANGED <<key, got, request, meta>>
    BY <1>13 DEF DeleteUnknown, OthersSame, IInv, TypeOK
  <2>2. ~Flushing(t) /\ ~Flushing(t)'
    BY <1>13 DEF DeleteUnknown, Flushing, IInv, TypeOK
  <2>3. \A k \in Keys \ {key[t]} : data'[k] = data[k] /\ (k \in blind' <=> k \in blind)
    BY <1>13, <1>t DEF DeleteUnknown, Remove, IInv, TypeOK
  <2>4. \A k \in Keys \ {key[t]} : Kv'[k] = Kv[k]
    BY <2>1, <2>2, <2>3, KvSame
  <2>5. ClientStatus[t] = "none" /\ ClientStatus'[t] = "not_found"
    BY <1>13, <2>1, <1>none, StatusOf DEF DeleteUnknown, IInv, TypeOK
  <2>6. method[t] = "delete"
    BY <1>13 DEF DeleteUnknown
  <2>7. CASE key[t] \in meta
    <3>1. misses < MaxMisses /\ misses' = misses + 1
      BY <1>13, <2>7 DEF DeleteUnknown, NotFound
    <3>2. Kv[key[t]] # NoFile
      BY <1>13, <2>7, <1>t, Present DEF DeleteUnknown, lock, Holds, Flushing, Writing
    <3>3. Kv'[key[t]] \in {Lost, Kv[key[t]]}
      <4>1. CASE key[t] \in blind'
        BY <4>1, <2>1, <2>7, <1>t DEF Kv
      <4>2. CASE key[t] \notin blind'
        <5>1. key[t] \notin blind /\ data'[key[t]] = data[key[t]]
          BY <4>2, <1>13, <2>7, <1>t DEF DeleteUnknown, Remove, IInv, TypeOK
        <5> QED
          BY <5>1, <4>2, <2>1, <2>2, <1>t, KvSame
      <4> QED
        BY <4>1, <4>2
    <3>4. Kv' \in {Kv, [Kv EXCEPT ![key[t]] = Lost]}
      BY <3>3, <2>4, <1>t, KvPointwise
    <3>5. Atomic!Respond(t, "not_found")
      BY <2>1, <2>5, StatusOf DEF Atomic!Respond, Atomic!request
    <3>6. Atomic!Overlook(t)
      BY <2>1, <2>6, <3>1, <3>2, <3>4, <3>5 DEF Atomic!Overlook
    <3> QED
      BY <3>6 DEF Atomic!Next
  <2>8. CASE key[t] \notin meta
    <3>1. Kv[key[t]] = NoFile /\ Kv'[key[t]] = NoFile /\ NoFile # Lost
      BY <2>8, <2>1, <1>t, StoreAssumption DEF Kv
    <3>2. UNCHANGED misses
      BY <1>13, <2>8 DEF DeleteUnknown, NotFound
    <3>3. Atomic!Delete(t)
      BY <2>1, <2>4, <2>5, <2>6, <3>1, <1>t, KvPointwise, StatusOf
         DEF Atomic!Delete, Atomic!Respond, Atomic!request
    <3> QED
      BY <3>2, <3>3 DEF Atomic!Next, Atomic!Step
  <2> QED
    BY <2>7, <2>8
<1>14. CASE DeleteMeta(t)
  <2>1. OthersSame(t) /\ UNCHANGED <<key, got, request, data, misses>>
        /\ method[t] = "delete" /\ key[t] \in meta
    BY <1>14 DEF DeleteMeta, Restored, OthersSame, IInv, TypeOK
  <2>2. ~Flushing(t) /\ ~Flushing(t)'
    BY <1>14 DEF DeleteMeta, Flushing, IInv, TypeOK
  <2>3. \A k \in Keys \ {key[t]} : (k \in meta' <=> k \in meta)
                                 /\ (k \in blind' <=> k \in blind)
    BY <1>14 DEF DeleteMeta, Restored
  <2>4. \A k \in Keys \ {key[t]} : Kv'[k] = Kv[k]
    BY <2>1, <2>2, <2>3, KvSame
  <2>5. Kv'[key[t]] = NoFile
    BY <1>14, <2>1, <1>t DEF DeleteMeta, Kv
  <2>6. Kv' = [Kv EXCEPT ![key[t]] = NoFile]
    BY <2>4, <2>5, <1>t, KvPointwise
  <2>7. ClientStatus[t] = "none"
        /\ ClientStatus'[t] = IF data[key[t]] = NoFile THEN "not_found" ELSE "ok"
    BY <1>14, <2>1, <1>none, StatusOf DEF DeleteMeta, IInv, TypeOK
  <2>8. CASE key[t] \in blind
    <3>1. Kv[key[t]] = Lost
      BY <2>1, <2>8, <1>t DEF Kv
    <3>2. \E s \in {"ok", "not_found"} : Atomic!Respond(t, s)
      BY <2>1, <2>7, StatusOf DEF Atomic!Respond, Atomic!request
    <3>3. Atomic!DeleteLost(t)
      BY <2>1, <2>6, <3>1, <3>2 DEF Atomic!DeleteLost
    <3> QED
      BY <2>1, <3>3 DEF Atomic!Next, Atomic!Step
  <2>9. CASE key[t] \notin blind
    <3>1. data[key[t]] # NoFile
      BY <2>1, <2>9 DEF IInv, MetaHasFile
    <3>2. Kv[key[t]] # NoFile /\ Kv[key[t]] # Lost
      BY <1>14, <2>1, <2>9, <1>t, Present DEF DeleteMeta, lock, Holds, Flushing, Writing
    <3>3. Atomic!Delete(t)
      BY <2>1, <2>6, <2>7, <3>1, <3>2, StatusOf
         DEF Atomic!Delete, Atomic!Respond, Atomic!request
    <3> QED
      BY <2>1, <3>3 DEF Atomic!Next, Atomic!Step
  <2> QED
    BY <2>8, <2>9
<1>15. CASE DeleteRemove(t)
  <2>1. OthersSame(t) /\ UNCHANGED <<key, got, request, meta, blind, misses>>
    BY <1>15 DEF DeleteRemove, OthersSame, IInv, TypeOK
  <2>2. ~Flushing(t) /\ ~Flushing(t)'
    BY <1>15 DEF DeleteRemove, Flushing, IInv, TypeOK
  <2>3. \A k \in Keys \ {key[t]} : data'[k] = data[k]
    BY <1>15, <1>t DEF DeleteRemove, Remove, IInv, TypeOK
  <2>4. \A k \in Keys \ {key[t]} : Kv'[k] = Kv[k]
    BY <2>1, <2>2, <2>3, KvSame
  <2>5. Kv'[key[t]] = Kv[key[t]]
    BY <1>15, <2>1, <1>t DEF DeleteRemove, Kv, IInv, Local
  <2>6. ClientStatus'[t] = ClientStatus[t]
    BY <1>15, <2>1, StatusOf DEF DeleteRemove, IInv, TypeOK
  <2> QED
    BY <2>1, <2>4, <2>5, <2>6, <1>t, KvPointwise, StatusOf, StatusFunction
       DEF Atomic!vars, Atomic!request
<1>16. CASE GetUnknown(t)
  <2>1. OthersSame(t) /\ UNCHANGED <<disk, key, request, blind>> /\ method[t] = "get"
        /\ got' = [got EXCEPT ![t] = NoFile]
    BY <1>16 DEF GetUnknown, OthersSame, IInv, TypeOK
  <2>2. ~Flushing(t) /\ ~Flushing(t)'
    BY <1>16 DEF GetUnknown, Flushing, IInv, TypeOK
  <2>3. Kv' = Kv
    BY <2>1, <2>2, <1>t, KvSame, KvPointwise
  <2>4. ClientStatus[t] = "none" /\ ClientStatus'[t] = "not_found"
    BY <1>16, <2>1, <1>none, StatusOf DEF GetUnknown, IInv, TypeOK
  <2>5. Atomic!Respond(t, "not_found")
    BY <2>1, <2>4, StatusOf DEF Atomic!Respond, Atomic!request
  <2>6. CASE key[t] \in meta
    <3>1. misses < MaxMisses /\ misses' = misses + 1
      BY <1>16, <2>6 DEF GetUnknown, NotFound
    <3>2. \A u \in Threads : Flushing(u) => key[u] # key[t]
      BY <1>16 DEF GetUnknown, lock_shared, Holds, Flushing, Writing
    <3>3. Kv[key[t]] # NoFile
      BY <2>6, <3>2, <1>t, Present
    <3>4. Atomic!Overlook(t)
      BY <2>1, <2>3, <2>5, <3>1, <3>3 DEF Atomic!Overlook
    <3> QED
      BY <3>4 DEF Atomic!Next
  <2>7. CASE key[t] \notin meta
    <3>1. Kv[key[t]] = NoFile /\ NoFile # Lost
      BY <2>7, <1>t, StoreAssumption DEF Kv
    <3>2. UNCHANGED misses
      BY <1>16, <2>7 DEF GetUnknown, NotFound
    <3>3. Atomic!Get(t)
      BY <2>1, <2>3, <2>5, <3>1 DEF Atomic!Get
    <3> QED
      BY <3>2, <3>3 DEF Atomic!Next, Atomic!Step
  <2> QED
    BY <2>6, <2>7
<1>17. CASE GetRead(t)
  <2>0. CASE data[key[t]] = NoFile
    BY <1>17, <2>0, <1>c DEF GetRead
  <2> SUFFICES ASSUME data[key[t]] # NoFile
               PROVE  Atomic!Next \/ UNCHANGED Atomic!vars
    BY <2>0
  <2>1. OthersSame(t) /\ UNCHANGED <<disk, key, request, blind, misses>>
        /\ got' = [got EXCEPT ![t] = data[key[t]]]
    BY <1>17 DEF GetRead, OthersSame, IInv, TypeOK
  <2>2. ~Flushing(t) /\ ~Flushing(t)'
    BY <1>17 DEF GetRead, Flushing, IInv, TypeOK
  <2>3. Kv' = Kv
    BY <2>1, <2>2, <1>t, KvSame, KvPointwise
  <2>4. \A u \in Threads : Flushing(u) => key[u] # key[t]
    BY <1>17, <2>2 DEF GetRead, Flushing, Writing, IInv, Exclusive, Holds
  <2>5. method[t] = "get" /\ key[t] \in meta
    BY <1>17 DEF GetRead, IInv, Local
  <2>6. ClientStatus[t] = "none" /\ ClientStatus'[t] = "ok"
    BY <1>17, <2>1, <1>none, StatusOf DEF GetRead, IInv, TypeOK
  <2>7. Atomic!Respond(t, "ok")
    BY <2>1, <2>6, StatusOf DEF Atomic!Respond, Atomic!request
  <2>8. CASE key[t] \in blind
    <3>1. Kv[key[t]] = Lost
      BY <2>5, <2>8, <1>t DEF Kv
    <3>2. data[key[t]] \in Values \cup {Half}
      BY <1>t DEF IInv, TypeOK, Contents
    <3>3. Atomic!GetLost(t)
      BY <2>1, <2>3, <2>5, <2>7, <3>1, <3>2 DEF Atomic!GetLost
    <3> QED
      BY <2>1, <3>3 DEF Atomic!Next, Atomic!Step
  <2>9. CASE key[t] \notin blind
    <3>1. Kv[key[t]] = data[key[t]] /\ Kv[key[t]] # Lost
      BY <2>4, <2>5, <2>9, <1>t, KvResting, Present
    <3>2. Atomic!Get(t)
      BY <2>1, <2>3, <2>5, <2>7, <3>1 DEF Atomic!Get
    <3> QED
      BY <2>1, <3>2 DEF Atomic!Next, Atomic!Step
  <2> QED
    BY <2>8, <2>9
<1>18. CASE Handle(t)
  <2>1. OthersSame(t) /\ UNCHANGED <<disk, blind, misses>> /\ Atomic!OthersUnchanged(t)
    BY <1>18 DEF Handle, OthersSame, Atomic!OthersUnchanged, IInv, TypeOK
  <2>2. ~Flushing(t) /\ ~Flushing(t)'
    BY <1>18 DEF Handle, Flushing, IInv, TypeOK
  <2>3. Kv' = Kv
    BY <2>1, <2>2, <1>t, KvSame, KvPointwise
  <2>4. ClientStatus[t] = "idle" /\ ClientStatus'[t] = "none"
    BY <1>18, <2>1, <1>none, StatusOf DEF Handle, IInv, TypeOK
  <2>5. Atomic!Arrive(t)
    BY <2>1, <2>3, <2>4, StatusOf DEF Atomic!Arrive
  <2> QED
    BY <2>1, <2>5 DEF Atomic!Next, Atomic!Step
<1>19. CASE Respond(t)
  <2>1. OthersSame(t) /\ UNCHANGED <<disk, blind, misses>> /\ Atomic!OthersUnchanged(t)
    BY <1>19 DEF Respond, OthersSame, Atomic!OthersUnchanged, IInv, TypeOK
  <2>2. ~Flushing(t) /\ ~Flushing(t)'
    BY <1>19 DEF Respond, Flushing, IInv, TypeOK
  <2>3. Kv' = Kv
    BY <2>1, <2>2, <1>t, KvSame, KvPointwise
  <2>4. ClientStatus[t] \notin {"idle", "none"} /\ ClientStatus'[t] = "idle"
    BY <1>19, <2>1, <1>none, StatusOf DEF Respond, IInv, TypeOK
  <2>5. Atomic!Return(t)
    BY <2>1, <2>3, <2>4, StatusOf DEF Atomic!Return
  <2> QED
    BY <2>1, <2>5 DEF Atomic!Next, Atomic!Step
<1> QED
  BY <1>1, <1>2, <1>3, <1>4, <1>5, <1>6, <1>7, <1>8, <1>9, <1>10, <1>11,
     <1>12, <1>13, <1>14, <1>15, <1>16, <1>17, <1>18, <1>19, <1>20
     DEF handlePut, handleDelete, handleGet

(* The store implements AtomicStore: for its clients every operation       *)
(* happens at one moment, a crash harms only what is being flushed, and    *)
(* only a lookup that fails makes a request overlook or lose a value.      *)
THEOREM StoreIsAtomic == Spec => ImplementsAtomic
<1>1. Init => Atomic!Init
  BY DEF Init, Atomic!Init, Kv, ClientStatus
<1>2. IInv /\ IInv' /\ [Next]_vars => [Atomic!Next]_(Atomic!vars)
  <2>1. ASSUME IInv, IInv', Next PROVE Atomic!Next \/ UNCHANGED Atomic!vars
    BY <2>1, StepRefines
  <2>2. ASSUME UNCHANGED vars PROVE UNCHANGED Atomic!vars
    BY <2>2 DEF vars, disk, request, file, response, history, Atomic!vars,
       Atomic!request, Kv, ClientStatus, Flushing
  <2> QED
    BY <2>1, <2>2
<1> QED
  BY <1>1, <1>2, Inductive, PTL DEF Spec, ImplementsAtomic, Atomic!Spec
=============================================================================
