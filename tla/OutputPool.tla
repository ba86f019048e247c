----------------------------- MODULE OutputPool -----------------------------
(***************************************************************************)
(* The pool that flushes the output of protocols (outputmessage.cpp) and   *)
(* the buffer each protocol fills (Protocol::getOutputBuffer).  The pool   *)
(* schedules sendAll when it gets its first protocol, and sendAll          *)
(* schedules itself for as long as it finds one.  All of it runs on the    *)
(* dispatcher; other messages are sent past the buffer.                    *)
(***************************************************************************)
EXTENDS Naturals, Sequences, SequencesExt

CONSTANTS
  Protocols,
  Capacity,     \* messages that fit into one OutputMessage
  MaxMessages,  \* bound: messages of one protocol
  MaxLogins     \* bound: how often protocols enter the pool

VARIABLES
  bufferedProtocols,
  scheduled,  \* sendAll events waiting in the scheduler or the dispatcher
  buffer,     \* the messages in the outputBuffer of a protocol
  written,    \* history: how many messages were put into the buffer
  wire,       \* history: what was handed to the connection, in order
  open,       \* protocols whose connection takes messages
  logins

vars == <<bufferedProtocols, scheduled, buffer, written, wire, open, logins>>

InPool == {bufferedProtocols[i] : i \in 1..Len(bufferedProtocols)}

TypeOK ==
  /\ bufferedProtocols \in Seq(Protocols)
  /\ scheduled \in 0..MaxLogins
  /\ buffer \in [Protocols -> Seq(1..MaxMessages)]
  /\ \A p \in Protocols : Len(buffer[p]) <= Capacity
  /\ written \in [Protocols -> 0..MaxMessages]
  /\ wire \in [Protocols -> Seq(1..MaxMessages)]
  /\ open \subseteq Protocols
  /\ logins \in 0..MaxLogins

Init ==
  /\ bufferedProtocols = <<>>
  /\ scheduled = 0
  /\ buffer = [p \in Protocols |-> <<>>]
  /\ written = [p \in Protocols |-> 0]
  /\ wire = [p \in Protocols |-> <<>>]
  /\ open = Protocols
  /\ logins = 0

(* Variants of the operators below, each with one slip a change of this     *)
(* code could make; the runs must notice them.                              *)
NeverFull(p) == FALSE
FirstOfTwo == Len(bufferedProtocols) = 1
AlwaysAgain == scheduled
NeverAgain == scheduled - 1
CopiedOut == buffer

-----------------------------------------------------------------------------
(* Protocol::send drops what the connection does not take any more. *)
Sent(p) == IF p \in open THEN wire[p] \o buffer[p] ELSE wire[p]

Full(p) == Len(buffer[p]) = Capacity

(* getOutputBuffer, and the message written into what it returns. *)
Write(p) ==
  /\ written[p] < MaxMessages
  /\ written' = [written EXCEPT ![p] = @ + 1]
  /\ IF Full(p)
     THEN /\ wire' = [wire EXCEPT ![p] = Sent(p)]
          /\ buffer' = [buffer EXCEPT ![p] = <<written[p] + 1>>]
     ELSE /\ buffer' = [buffer EXCEPT ![p] = Append(@, written[p] + 1)]
          /\ UNCHANGED wire
  /\ UNCHANGED <<bufferedProtocols, scheduled, open, logins>>

WasEmpty == bufferedProtocols = <<>>

(* addProtocolToAutosend, at the end of login. *)
AddProtocolToAutosend(p) ==
  /\ p \notin InPool
  /\ logins < MaxLogins
  /\ logins' = logins + 1
  /\ scheduled' = IF WasEmpty THEN scheduled + 1 ELSE scheduled
  /\ bufferedProtocols' = Append(bufferedProtocols, p)
  /\ UNCHANGED <<buffer, written, wire, open>>

(* removeProtocolFromAutosend: the last one takes the place of p. *)
Swapped(i) ==
  Front([bufferedProtocols EXCEPT ![i] = Last(bufferedProtocols)])

(* In release, after the connection was closed. *)
RemoveProtocolFromAutosend(p) ==
  /\ p \notin open
  /\ \E i \in 1..Len(bufferedProtocols) :
       bufferedProtocols[i] = p /\ bufferedProtocols' = Swapped(i)
  /\ UNCHANGED <<scheduled, buffer, written, wire, open, logins>>

(* The connection closes; with the next login it is another one. *)
CloseConnection(p) ==
  /\ p \in open
  /\ open' = open \ {p}
  /\ UNCHANGED <<bufferedProtocols, scheduled, buffer, written, wire, logins>>

Another(p) ==
  /\ p \notin open /\ p \notin InPool
  /\ open' = open \cup {p}
  /\ buffer' = [buffer EXCEPT ![p] = <<>>]
  /\ written' = [written EXCEPT ![p] = 0]
  /\ wire' = [wire EXCEPT ![p] = <<>>]
  /\ UNCHANGED <<bufferedProtocols, scheduled, logins>>

MovedOut == [p \in Protocols |-> IF p \in InPool THEN <<>> ELSE buffer[p]]

Rescheduled == IF bufferedProtocols # <<>> THEN scheduled ELSE scheduled - 1

(* sendAll *)
SendAll ==
  /\ scheduled > 0
  /\ wire' = [p \in Protocols |-> IF p \in InPool THEN Sent(p) ELSE wire[p]]
  /\ buffer' = MovedOut
  /\ scheduled' = Rescheduled
  /\ UNCHANGED <<bufferedProtocols, written, open, logins>>

Next ==
  \/ \E p \in Protocols :
       \/ Write(p) \/ AddProtocolToAutosend(p) \/ RemoveProtocolFromAutosend(p)
       \/ CloseConnection(p) \/ Another(p)
  \/ SendAll

(* The scheduler fires its events, and the release of a closed connection   *)
(* is run.                                                                  *)
Fairness ==
  /\ WF_vars(SendAll)
  /\ \A p \in Protocols : WF_vars(RemoveProtocolFromAutosend(p))

Spec == Init /\ [][Next]_vars /\ Fairness

-----------------------------------------------------------------------------
(* While there is a protocol in the pool its output will be flushed: the    *)
(* chain of events neither breaks when the pool runs empty and fills again  *)
(* nor is forgotten.                                                        *)
PoolIsServed == bufferedProtocols # <<>> => scheduled > 0

(* A client gets what was written for it once and in order: what went out   *)
(* and what is buffered make up everything that was written.                *)
OutputInOrder ==
  \A p \in open : wire[p] \o buffer[p] = [i \in 1..written[p] |-> i]

(* The pool, its chain of events and the buffers fit together. *)
PoolInv == TypeOK /\ PoolIsServed /\ OutputInOrder

(* What is written for a client in the pool goes out, unless it leaves.     *)
Buffered(p) == {buffer[p][i] : i \in 1..Len(buffer[p])}

OutputIsSent ==
  \A p \in Protocols, m \in 1..MaxMessages :
    (p \in InPool /\ m \in Buffered(p)) ~> (m \notin Buffered(p) \/ p \notin open)

(* The events end when the pool stays empty: a pool that was filled again   *)
(* before the last event fired has two chains of them, but none for ever.   *)
ChainsEnd == <>[](bufferedProtocols = <<>>) => <>[](scheduled = 0)

(* The chain runs as long as there is something to send, and no longer.     *)
ChainServes == OutputIsSent /\ ChainsEnd
=============================================================================
