----------------------------- MODULE RpcPromise -----------------------------
(***************************************************************************)
(* What the RPC layer of hypha/rpc.py promises for a remote method call,   *)
(* without sessions, timers, heartbeats or messages.                       *)
(*                                                                         *)
(* The code of a remote method runs at most once for a call.  The          *)
(* caller's future is settled at most once: with the value the method      *)
(* returned, with the error it raised (or was refused with), or with an    *)
(* error made up on the caller's side (a timeout, a failed send).  A       *)
(* callback passed in the arguments of a call can only be called by a      *)
(* peer that was given the arguments.                                      *)
(*                                                                         *)
(* HyphaCall implements it.  The calls of version 1 do too, except for     *)
(* what it says of parents: see KeepsPromise in PluginCalls_proof.         *)
(***************************************************************************)
CONSTANTS
  Call,     \* remote method calls
  NoCall,   \* the parent of a call that is not a callback
  Parent    \* the call in whose arguments a callback was passed

VARIABLES
  outcome,  \* the caller's view of the call
  run       \* the callee's view of the call

vars == <<outcome, run>>

Outcome == {"idle", "pending", "resolved", "rejected", "failed"}
Run == {"idle", "refused", "running", "returned", "raised", "cancelled"}

(* A run in which the method was handed its arguments. *)
Started == {"running", "returned", "raised", "cancelled"}

Init ==
  /\ outcome = [c \in Call |-> "idle"]
  /\ run = [c \in Call |-> "idle"]

(* The caller invokes the method; the request may be impossible to encode. *)
Issue(c) ==
  /\ outcome[c] = "idle"
  /\ Parent[c] # NoCall => run[Parent[c]] \in Started
  /\ \E o \in {"pending", "failed"} : outcome' = [outcome EXCEPT ![c] = o]
  /\ UNCHANGED run

(* The callee takes the request and answers it or starts working on it. *)
Execute(c) ==
  /\ outcome[c] # "idle"
  /\ run[c] = "idle"
  /\ \E r \in {"refused", "running", "returned", "raised"} :
        run' = [run EXCEPT ![c] = r]
  /\ UNCHANGED outcome

Finish(c) ==
  /\ run[c] = "running"
  /\ \E r \in {"returned", "raised", "cancelled"} : run' = [run EXCEPT ![c] = r]
  /\ UNCHANGED outcome

(* The caller learns what the callee answered. *)
Deliver(c) ==
  /\ outcome[c] = "pending"
  /\ \/ run[c] = "returned" /\ outcome' = [outcome EXCEPT ![c] = "resolved"]
     \/ /\ run[c] \in {"raised", "refused"}
        /\ outcome' = [outcome EXCEPT ![c] = "rejected"]
  /\ UNCHANGED run

GiveUp(c) ==
  /\ outcome[c] = "pending"
  /\ outcome' = [outcome EXCEPT ![c] = "failed"]
  /\ UNCHANGED run

Next ==
  \E c \in Call : Issue(c) \/ Execute(c) \/ Finish(c) \/ Deliver(c) \/ GiveUp(c)

Spec == Init /\ [][Next]_vars
=============================================================================
