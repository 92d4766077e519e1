------------------------------ MODULE MCWorker ------------------------------
(* What the worker's loop does between two imports.  The parts share no      *)
(* state but the gate, which is each one's failing read, so one of them runs *)
(* and the others stay where they begin.                                     *)
(*                                                                           *)
(* A unit of the slow passes is five minutes, but the full pass comes every  *)
(* fifty, not every three hours, and the deal's window is as long and not 95 *)
(* minutes.  A unit of the nights is half of SWEEP_RETRY_MS, which a read or *)
(* a sweep may take twice; five of ten are night, and the first process      *)
(* starts in the third.  A page of orders holds one.                         *)
EXTENDS SlowPasses, FloorFeed, OpenChats, NightWork, Moysklad

MCLookback == [deal |-> 10, arrival |-> 7]

VARIABLE part   \* The part that runs.

parts == <<vars, feedVars, chatVars, nightVars, moyVars>>

MCInit ==
  /\ Init /\ FeedInit /\ ChatsInit /\ NightInit /\ MoyInit
  /\ part \in {"passes", "feed", "chats", "night", "orders"}
  /\ talking = {} \/ part = "chats"

MCNext ==
  /\ \/ part = "passes" /\ Next /\ UNCHANGED <<feedVars, chatVars, nightVars, moyVars>>
     \/ part = "feed" /\ FeedNext /\ UNCHANGED <<vars, chatVars, nightVars, moyVars>>
     \/ part = "chats" /\ ChatsNext /\ UNCHANGED <<vars, feedVars, nightVars, moyVars>>
     \/ part = "night" /\ NightNext /\ UNCHANGED <<vars, feedVars, chatVars, moyVars>>
     \/ part = "orders" /\ MoyNext /\ UNCHANGED <<vars, feedVars, chatVars, nightVars>>
  /\ UNCHANGED part

MCSpec == MCInit /\ [][MCNext]_<<parts, part>>

\* Every part keeps its types: the floors under the rows, the anchors in
\* their order, the pages within their cap.
WorkerTypeOK == TypeOK /\ FeedTypeOK /\ ChatsTypeOK /\ NightTypeOK /\ MoyTypeOK
=============================================================================
