------------------------------ MODULE KVStore ------------------------------
(***************************************************************************)
(* What the tree promises its clients: a map on which insert, search and   *)
(* del take effect atomically at one moment between call and return.       *)
(***************************************************************************)
CONSTANTS
  Thread,      \* the clients
  Key,         \* the keys they use
  kValueNull,  \* "no value": what del leaves and a search miss reports
  NoCall       \* the call of a client between two operations

VARIABLES
  kv,     \* the map: a value or kValueNull for each key
  call,   \* the operation each client has called, [op, k, v] or NoCall
  phase,  \* whether that operation has taken effect
  res     \* what a search found

vars == <<kv, call, phase, res>>

Init ==
  /\ DOMAIN kv = Key                     \* whatever was stored before
  /\ call = [t \in Thread |-> NoCall]
  /\ phase = [t \in Thread |-> "idle"]
  /\ res = [t \in Thread |-> kValueNull]

Invoke(t, c) ==
  /\ phase[t] = "idle"
  /\ phase' = [phase EXCEPT ![t] = "called"]
  /\ call' = [call EXCEPT ![t] = c]
  /\ UNCHANGED <<kv, res>>

\* The operation takes effect.
Commit(t) ==
  /\ phase[t] = "called"
  /\ phase' = [phase EXCEPT ![t] = "done"]
  /\ LET c == call[t] IN
     \/ /\ c.op = "insert"
        /\ kv' = [kv EXCEPT ![c.k] = c.v]
        /\ UNCHANGED res
     \/ /\ c.op = "del"
        /\ kv' = [kv EXCEPT ![c.k] = kValueNull]
        /\ UNCHANGED res
     \/ /\ c.op = "search"
        /\ res' = [res EXCEPT ![t] = kv[c.k]]
        /\ UNCHANGED kv
  /\ UNCHANGED call

Respond(t) ==
  /\ phase[t] = "done"
  /\ phase' = [phase EXCEPT ![t] = "idle"]
  /\ call' = [call EXCEPT ![t] = NoCall]
  /\ res' = [res EXCEPT ![t] = kValueNull]
  /\ UNCHANGED kv

\* A client may call any operation; call' is then whatever it asked for.
Next ==
  \E t \in Thread : Invoke(t, call'[t]) \/ Commit(t) \/ Respond(t)

Spec == Init /\ [][Next]_vars
=============================================================================
