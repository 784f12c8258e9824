-------------------------------- MODULE Relay --------------------------------
(***************************************************************************)
(* The gateway's relay between a program that runs in the browser and the  *)
(* editor (server/main.go, relayQueue to relayWait): one buffered Go       *)
(* channel per user, run and name, made by whoever comes first, removed    *)
(* with all others of the run when the run is dropped.  One run of one     *)
(* user is modelled; the keys keep the others apart.                       *)
(*                                                                         *)
(* A name without an entry is to everybody as one whose channel is empty,  *)
(* so it is not told apart.                                                *)
(*                                                                         *)
(* A handler looks its channel up once and waits on what it found.  When   *)
(* the entry is dropped meanwhile it waits on, apart from the channel that *)
(* the next push or wait makes.  A push, too, looks its channel up and     *)
(* sends outside the lock; it is one step here, because a send to a        *)
(* channel dropped in between does what the same send before the drop      *)
(* would have done, or loses the message, as requests may be lost anyhow.  *)
(***************************************************************************)
EXTENDS Integers, Sequences, SequencesExt

CONSTANTS
  Channel,    \* the names: "stdin", "debug-event", "debug-command"
  QueueMax    \* 256: what a channel holds before relayPush drops

ASSUME RelayAssumption == QueueMax \in Nat \ {0}

VARIABLES
  queue,      \* [Channel -> Seq], what the entry's channel holds
  orphan,     \* [Channel -> Seq], what a dropped one holds, while waited on
  wait        \* [Channel -> {"no", "here", "apart"}], the handler in relayWait

relayVars == <<queue, orphan, wait>>

Waiting == {"here", "apart"}

RelayInit ==
  /\ queue = [c \in Channel |-> <<>>]
  /\ orphan = [c \in Channel |-> <<>>]
  /\ wait = [c \in Channel |-> "no"]

(* What the handler waiting on c can receive.                              *)
Heard(c) == IF wait[c] = "here" THEN queue[c] ELSE orphan[c]

(* Mutant: the channel is taken to be as long as it needs to be.           *)
RelayPushAlways(c, m) ==
  /\ queue' = [queue EXCEPT ![c] = Append(@, m)]
  /\ UNCHANGED <<orphan, wait>>

Full(c) == Len(queue[c]) >= QueueMax

(* Never blocks: a message for a full channel is forgotten.                *)
RelayPush(c, m) ==
  /\ queue' = IF Full(c) THEN queue ELSE [queue EXCEPT ![c] = Append(@, m)]
  /\ UNCHANGED <<orphan, wait>>

(* Mutant: whoever waits makes the channel.                                *)
RelayWaitFresh(c) ==
  /\ wait[c] = "no"
  /\ wait' = [wait EXCEPT ![c] = "here"]
  /\ queue' = [queue EXCEPT ![c] = <<>>]
  /\ UNCHANGED orphan

(* relayWait begins: the channel is looked up, or made.                    *)
RelayWait(c) ==
  /\ wait[c] = "no"
  /\ wait' = [wait EXCEPT ![c] = "here"]
  /\ UNCHANGED <<queue, orphan>>

(* It ends with the oldest message.                                        *)
RelayReceive(c) ==
  /\ wait[c] \in Waiting
  /\ Heard(c) # <<>>
  /\ IF wait[c] = "here"
       THEN queue' = [queue EXCEPT ![c] = Tail(@)] /\ UNCHANGED orphan
       ELSE orphan' = [orphan EXCEPT ![c] = Tail(@)] /\ UNCHANGED queue
  /\ wait' = [wait EXCEPT ![c] = "no"]

(* It ends without one: the time is over or the client is gone.  A blocked *)
(* select is ended by what comes first, so nothing has come until now.     *)
RelayGivesUp(c) ==
  /\ wait[c] \in Waiting
  /\ Heard(c) = <<>>
  /\ wait' = [wait EXCEPT ![c] = "no"]
  /\ UNCHANGED <<queue, orphan>>

(* The entries go; who waits on one of them waits on.                      *)
DropRelayQueues ==
  /\ queue' = [c \in Channel |-> <<>>]
  /\ orphan' = [c \in Channel |->
                  IF wait[c] = "here" THEN queue[c] ELSE orphan[c]]
  /\ wait' = [c \in Channel |-> IF wait[c] = "no" THEN "no" ELSE "apart"]
=============================================================================
