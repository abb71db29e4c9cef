----------------------------- MODULE AtomicStore -----------------------------
(***************************************************************************)
(* What an object store promises to its clients: every request takes       *)
(* effect at one moment between its arrival and its response, or is        *)
(* refused without an effect.  A crash of the server forgets the requests  *)
(* being handled and may tear the value of one that has just taken effect. *)
(* At most MaxMisses times a request takes a key with a value for one      *)
(* without: a get then finds nothing, a put or a delete may lose the       *)
(* value.  What is read of a lost value is not defined.                    *)
(***************************************************************************)
EXTENDS Naturals

CONSTANTS Threads, Keys, Values, Absent, Torn, Lost, MaxMisses

VARIABLES kv,                       \* the value of each key
          method, key, val,         \* the request each thread handles
          status, got,              \* its response
          misses                    \* how often a value was overlooked

request == <<method, key, val>>
vars == <<kv, request, status, got, misses>>

Init ==
  /\ kv = [k \in Keys |-> Absent]
  /\ status = [t \in Threads |-> "idle"]
  /\ misses = 0

(* Only t's request and response may change.                               *)
OthersUnchanged(t) ==
  \A u \in Threads \ {t} :
    /\ method'[u] = method[u] /\ key'[u] = key[u] /\ val'[u] = val[u]
    /\ got'[u] = got[u]

Arrive(t) ==
  /\ status[t] = "idle" /\ OthersUnchanged(t)
  /\ status' = [status EXCEPT ![t] = "none"]
  /\ UNCHANGED kv

Respond(t, s) ==
  /\ status[t] = "none"
  /\ status' = [status EXCEPT ![t] = s]
  /\ UNCHANGED request

Put(t) ==
  /\ method[t] = "put" /\ Respond(t, "ok")
  /\ kv' = [kv EXCEPT ![key[t]] = val[t]]
  /\ UNCHANGED got

Delete(t) ==
  /\ method[t] = "delete" /\ kv[key[t]] # Lost
  /\ Respond(t, IF kv[key[t]] = Absent THEN "not_found" ELSE "ok")
  /\ kv' = [kv EXCEPT ![key[t]] = Absent]
  /\ UNCHANGED got

Get(t) ==
  /\ method[t] = "get" /\ kv[key[t]] # Lost
  /\ Respond(t, IF kv[key[t]] = Absent THEN "not_found" ELSE "ok")
  /\ got' = [got EXCEPT ![t] = kv[key[t]]]
  /\ UNCHANGED kv

(* A lost value can be anything when it is read, also half of one; a       *)
(* delete may find nothing to delete, and then may not get rid of it.      *)
GetLost(t) ==
  /\ method[t] = "get" /\ kv[key[t]] = Lost /\ Respond(t, "ok")
  /\ \E v \in Values \cup {Torn} : got' = [got EXCEPT ![t] = v]
  /\ UNCHANGED kv

DeleteLost(t) ==
  /\ method[t] = "delete" /\ kv[key[t]] = Lost
  /\ \/ /\ \E s \in {"ok", "not_found"} : Respond(t, s)
        /\ kv' = [kv EXCEPT ![key[t]] = Absent]
     \/ Respond(t, "not_found") /\ UNCHANGED kv
  /\ UNCHANGED got

(* The request overlooks a value.                                          *)
Overlook(t) ==
  /\ kv[key[t]] # Absent /\ misses < MaxMisses /\ misses' = misses + 1
  /\ \/ /\ method[t] = "get" /\ Respond(t, "not_found")
        /\ got' = [got EXCEPT ![t] = Absent] /\ UNCHANGED kv
     \/ /\ method[t] = "delete" /\ Respond(t, "not_found") /\ UNCHANGED got
        /\ kv' \in {kv, [kv EXCEPT ![key[t]] = Lost]}
     \/ /\ method[t] = "put" /\ status[t] = "none" /\ UNCHANGED <<request, status, got>>
        /\ kv' = [kv EXCEPT ![key[t]] = Lost]

Refuse(t) ==
  /\ \E s \in {"exception", "invalid"} : Respond(t, s)
  /\ UNCHANGED <<kv, got>>

Return(t) ==
  /\ status[t] \notin {"idle", "none"} /\ OthersUnchanged(t)
  /\ status' = [status EXCEPT ![t] = "idle"]
  /\ UNCHANGED kv

JustPut(k) == \E t \in Threads :
                method[t] = "put" /\ key[t] = k /\ status[t] = "ok"

Crash ==
  /\ status' = [t \in Threads |-> "idle"]
  /\ \A k \in Keys : kv'[k] = kv[k] \/ (JustPut(k) /\ kv'[k] = Torn)
  /\ DOMAIN kv' = Keys

Step(t) == \/ Arrive(t) \/ Put(t) \/ Delete(t) \/ Get(t) \/ DeleteLost(t)
           \/ GetLost(t) \/ Refuse(t) \/ Return(t)

Next == \/ (Crash \/ \E t \in Threads : Step(t)) /\ UNCHANGED misses
        \/ \E t \in Threads : Overlook(t)

Spec == Init /\ [][Next]_vars
=============================================================================
