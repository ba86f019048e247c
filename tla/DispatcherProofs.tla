-------------------------- MODULE DispatcherProofs --------------------------
(***************************************************************************)
(* Proofs about Dispatcher for every set of tasks: its types, that no      *)
(* wake-up is lost, that the thread ends with an empty queue, and that     *)
(* seen from outside it serves one queue in order, as TaskQueue says.      *)
(***************************************************************************)
EXTENDS Dispatcher, ListFacts

(* A task is running only while it heads the batch; setGameState goes on    *)
(* only in the task of a signal.                                            *)
HasCurrent ==
  /\ pc \in {"exec", "quit", "stop"} => tmpTaskList # <<>>
  /\ pc \in {"quit", "stop"} => Current \in Quit

TypeInv == TypeOK /\ HasCurrent

LEMMA TypeInvCorrect == Spec => []TypeInv
<1>1. Init => TypeInv
  BY EmptySeq DEF Init, TypeInv, TypeOK, HasCurrent
<1>2. ASSUME TypeInv, [Next]_vars PROVE TypeInv'
  <2> USE <1>2 DEF TypeInv, TypeOK, HasCurrent
  <2>a. /\ Work \subseteq Task /\ Quit \subseteq Task
        /\ GameShutdown \in Task /\ Terminate \in Task
    BY DEF Task
  <2>b. /\ \A t \in Task : Append(taskList, t) \in Seq(Task)
        /\ \A t \in Task : Append(accepted, t) \in Seq(Task)
    BY SeqFacts
  <2>c. ASSUME tmpTaskList # <<>>
        PROVE  /\ Tail(tmpTaskList) \in Seq(Task)
               /\ Append(done, Current) \in Seq(Task)
    BY <2>c, SeqFacts DEF Current
  <2>1. CASE Start
    BY <2>1 DEF Start
  <2>2. CASE Online
    BY <2>2 DEF Online, Current
  <2>3. CASE Abort
    BY <2>3, <2>a, <2>b DEF Current, Abort, PushTerminate, Push, NotifyOne
  <2>4. ASSUME NEW t \in Work \cup Quit, AddTask(t) PROVE TypeInv'
    BY <2>4, <2>a, <2>b DEF AddTask, Push, Current
  <2>5. ASSUME NEW t \in Work \cup Quit, Signal(t) PROVE TypeInv'
    BY <2>5 DEF Signal, NotifyOne, Current
  <2>6. ASSUME NEW t \in Work, TaskAdds(t) PROVE TypeInv'
    BY <2>6, <2>a, <2>b DEF TaskAdds, Push, Current
  <2>7. CASE SpuriousWakeup
    BY <2>7 DEF SpuriousWakeup
  <2>8. CASE CheckState \/ LockTaskList \/ SwapTaskList \/ EndOfBatch
    BY <2>8 DEF CheckState, LockTaskList, SwapTaskList, EndOfBatch
  <2>9. CASE NextTask
    BY <2>9, <2>c DEF NextTask
  <2>10. CASE RunWork
    BY <2>10, <2>c DEF RunWork, Finish
  <2>11. CASE SetGameState
    BY <2>11, <2>c DEF SetGameState, Finish, Current
  <2>12. CASE QueueShutdown
    BY <2>12, <2>a, <2>b DEF QueueShutdown, Push, Current
  <2>13. CASE StopDispatcher
    BY <2>13, <2>c DEF StopDispatcher, Stop, Finish
  <2>14. CASE RunGameShutdown
    BY <2>14, <2>a, <2>b, <2>c DEF RunGameShutdown, Finish, PushTerminate, Push
  <2>15. CASE RunTerminate
    BY <2>15, <2>c DEF RunTerminate, Finish
  <2>16. CASE UNCHANGED vars
    BY <2>16 DEF vars, Current
  <2>17. QED
    BY <2>1, <2>2, <2>3, <2>4, <2>5, <2>6, <2>7, <2>8, <2>9, <2>10, <2>11,
       <2>12, <2>13, <2>14, <2>15, <2>16 DEF Next, ThreadStep
<1>3. QED
  BY <1>1, <1>2, PTL DEF Spec

(* The variables of Dispatcher keep their types: in particular the lists    *)
(* only ever hold tasks.                                                     *)
THEOREM TypeCorrect == Spec => []TypeOK
BY TypeInvCorrect, PTL DEF TypeInv

-----------------------------------------------------------------------------
(* No wake-up is lost: NoLostWakeup is inductive on its own once the types  *)
(* are known, because the thread tests the list and blocks in one critical  *)
(* section, and an adder to an empty list always owes a notification.       *)
THEOREM NoWakeupLost == Spec => []NoLostWakeup
<1>1. Init => NoLostWakeup
  BY DEF Init, NoLostWakeup
<1>2. ASSUME TypeOK, NoLostWakeup, [Next]_vars PROVE NoLostWakeup'
  <2> USE <1>2 DEF TypeOK, NoLostWakeup
  <2>1. CASE Start \/ Online
    BY <2>1 DEF Start, Online
  <2>2. CASE Abort
    BY <2>2 DEF Abort, NotifyOne
  <2>3. ASSUME NEW t \in Work \cup Quit, AddTask(t) PROVE NoLostWakeup'
    BY <2>3 DEF AddTask, DoSignal
  <2>4. ASSUME NEW t \in Work \cup Quit, Signal(t) PROVE NoLostWakeup'
    BY <2>4 DEF Signal, NotifyOne
  <2>5. ASSUME NEW t \in Work, TaskAdds(t) PROVE NoLostWakeup'
    BY <2>5 DEF TaskAdds
  <2>6. CASE SpuriousWakeup
    BY <2>6 DEF SpuriousWakeup
  <2>7. CASE LockTaskList
    BY <2>7 DEF LockTaskList
  <2>8. CASE CheckState \/ SwapTaskList \/ NextTask \/ EndOfBatch
    BY <2>8 DEF CheckState, SwapTaskList, NextTask, EndOfBatch
  <2>9. CASE RunWork \/ SetGameState \/ QueueShutdown \/ StopDispatcher
             \/ RunGameShutdown \/ RunTerminate
    BY <2>9 DEF RunWork, SetGameState, QueueShutdown, StopDispatcher, RunGameShutdown,
                RunTerminate, Finish
  <2>10. CASE UNCHANGED vars
    BY <2>10 DEF vars
  <2>11. QED
    BY <2>1, <2>2, <2>3, <2>4, <2>5, <2>6, <2>7, <2>8, <2>9, <2>10
    DEF Next, ThreadStep
<1>3. QED
  BY <1>1, <1>2, TypeCorrect, PTL DEF Spec

-----------------------------------------------------------------------------
(* The queue seen from outside: the two lists one after the other.          *)
Whole == tmpTaskList \o taskList
Held == Elems(Whole) \cup Elems(done)

LEMMA WholeFacts ==
  ASSUME TypeInv
  PROVE  /\ Whole \in Seq(Task) /\ done \in Seq(Task) /\ accepted \in Seq(Task)
         /\ tmpTaskList = <<>> => Whole = taskList
         /\ Whole = <<>> => taskList = <<>> /\ tmpTaskList = <<>>
<1>1. tmpTaskList \in Seq(Task) /\ taskList \in Seq(Task)
  BY DEF TypeInv, TypeOK
<1>2. Whole \in Seq(Task) /\ Len(Whole) = Len(tmpTaskList) + Len(taskList)
  BY <1>1, ConcatProperties DEF Whole
<1>3. Whole = <<>> => taskList = <<>> /\ tmpTaskList = <<>>
  <2>1. \A s \in Seq(Task) : Len(s) \in Nat /\ (s = <<>> <=> Len(s) = 0)
    BY SeqFacts
  <2>2. QED
    BY <1>1, <1>2, <2>1
<1>4. tmpTaskList = <<>> => Whole = taskList
  BY <1>1, ConcatEmptySeq DEF Whole
<1>5. QED
  BY <1>2, <1>3, <1>4 DEF TypeInv, TypeOK

(* A task is added: it is the last one of the queue. *)
LEMMA Pushing ==
  ASSUME TypeInv, NEW t \in Task, Push(t), UNCHANGED <<tmpTaskList, done>>
  PROVE  /\ Whole' = Append(Whole, t)
         /\ Elems(Whole') = Elems(Whole) \cup {t}
         /\ Elems(accepted') = Elems(accepted) \cup {t}
         /\ Held' = Held \cup {t}
<1>1. Whole' = Append(Whole, t)
  BY AppendConcat DEF TypeInv, TypeOK, Push, Whole
<1>2. QED
  BY <1>1, WholeFacts, ElemsFacts DEF Push, Held

(* A task is done with: it was the first one. *)
LEMMA Finishing ==
  ASSUME TypeInv, tmpTaskList # <<>>, tmpTaskList' = Tail(tmpTaskList),
         done' = Append(done, Current)
  PROVE  /\ Whole # <<>> /\ Head(Whole) = Current /\ Current \in Task
         /\ tmpTaskList' \o taskList = Tail(Whole)
         /\ Tail(Whole) \in Seq(Task)
         /\ Elems(Whole) = {Current} \cup Elems(Tail(Whole))
         /\ Elems(done') = Elems(done) \cup {Current}
<1>1. /\ tmpTaskList \in Seq(Task) /\ taskList \in Seq(Task)
      /\ done \in Seq(Task)
  BY DEF TypeInv, TypeOK
<1>2. Current \in Task
  BY <1>1, SeqFacts DEF Current
<1>3. /\ Whole # <<>>
      /\ Head(Whole) = Current
      /\ tmpTaskList' \o taskList = Tail(Whole)
  BY <1>1, TailConcat DEF Current, Whole
<1>4. Elems(done') = Elems(done) \cup {Current}
  BY <1>1, <1>2, ElemsFacts
<1>5. Tail(Whole) \in Seq(Task)
  BY <1>3, WholeFacts, SeqFacts
<1>6. Elems(Whole) = {Current} \cup Elems(Tail(Whole))
  <2>1. /\ Len(Whole) \in Nat \ {0} /\ Len(Tail(Whole)) = Len(Whole) - 1
        /\ \A i \in 1..Len(Tail(Whole)) : Tail(Whole)[i] = Whole[i + 1]
        /\ Current = Whole[1]
    BY <1>3, WholeFacts, SeqFacts
  <2>2. \A i \in 1..Len(Whole) : i = 1 \/ i - 1 \in 1..Len(Tail(Whole))
    BY <2>1
  <2>3. \A i \in 1..Len(Tail(Whole)) : i + 1 \in 1..Len(Whole)
    BY <2>1
  <2>4. \A i \in 1..Len(Whole) : i # 1 => Whole[i] = Tail(Whole)[i - 1]
    BY <2>1, <2>2
  <2>5. 1 \in 1..Len(Whole)
    BY <2>1
  <2>6. \A x \in Elems(Tail(Whole)) : x \in Elems(Whole)
    BY <2>1, <2>3 DEF Elems
  <2>7. \A x \in Elems(Whole) : x = Current \/ x \in Elems(Tail(Whole))
    BY <2>1, <2>2, <2>4 DEF Elems
  <2>8. Current \in Elems(Whole)
    BY <2>1, <2>5 DEF Elems
  <2>9. QED
    BY <2>6, <2>7, <2>8
<1>7. QED
  BY <1>2, <1>3, <1>4, <1>5, <1>6

LEMMA CurrentHeld ==
  ASSUME TypeInv, tmpTaskList # <<>>
  PROVE  Whole # <<>> /\ Head(Whole) = Current /\ Current \in Held
<1>1. /\ tmpTaskList \in Seq(Task) /\ taskList \in Seq(Task)
  BY DEF TypeInv, TypeOK
<1>2. /\ Whole # <<>> /\ Head(Whole) = Current
  BY <1>1, TailConcat DEF Current, Whole
<1>3. /\ Len(Whole) \in Nat \ {0} /\ Head(Whole) = Whole[1]
  BY <1>2, WholeFacts, SeqFacts
<1>4. 1 \in 1..Len(Whole)
  BY <1>3
<1>5. QED
  BY <1>2, <1>3, <1>4 DEF Held, Elems

(* A task that is done with may have added one before. *)
LEMMA FinishingAndPushing ==
  ASSUME TypeInv, pc = "exec", Finish, NEW t \in Task, Push(t)
  PROVE  /\ Whole # <<>> /\ Head(Whole) = Current /\ Current \in Task
         /\ Whole' = Append(Tail(Whole), t)
         /\ Tail(Whole) \in Seq(Task)
         /\ Elems(Whole) = {Current} \cup Elems(Tail(Whole))
         /\ done' = Append(done, Current)
         /\ Elems(accepted') = Elems(accepted) \cup {t}
         /\ Held' = Held \cup {t}
<1>1. /\ tmpTaskList # <<>> /\ tmpTaskList' = Tail(tmpTaskList)
      /\ done' = Append(done, Current)
  BY DEF TypeInv, HasCurrent, Finish
<1>2. tmpTaskList' \in Seq(Task) /\ taskList \in Seq(Task)
  BY <1>1, SeqFacts DEF TypeInv, TypeOK
<1>3. Whole' = Append(tmpTaskList' \o taskList, t)
  BY <1>2, AppendConcat DEF Push, Whole
<1>4. /\ Whole # <<>> /\ Head(Whole) = Current /\ Current \in Task
      /\ tmpTaskList' \o taskList = Tail(Whole)
      /\ Tail(Whole) \in Seq(Task)
      /\ Elems(Whole) = {Current} \cup Elems(Tail(Whole))
      /\ Elems(done') = Elems(done) \cup {Current}
  BY <1>1, Finishing
<1>5. Elems(Whole') = Elems(Tail(Whole)) \cup {t}
  BY <1>3, <1>4, ElemsFacts
<1>6. Elems(accepted') = Elems(accepted) \cup {t}
  BY WholeFacts, ElemsFacts DEF Push
<1>7. QED
  BY <1>1, <1>3, <1>4, <1>5, <1>6 DEF Held

(* What the lists hold was accepted, so a fresh task is not among it.        *)
(* Before main is online nobody can ask the server to quit.  Game::shutdown  *)
(* is accepted once, by the task that quits, before it closes the list; and  *)
(* the batch is empty whenever the lists are swapped.                       *)
QueueInv ==
  /\ Held \subseteq Elems(accepted)
  /\ pc = "off" => Elems(accepted) = {} /\ threadState = "TERMINATED"
  /\ pc = "exit" => threadState = "TERMINATED"
  /\ main = "loading" => Elems(accepted) \subseteq Work
  /\ main # "online" => /\ ~gameClosing
                        /\ Elems(accepted) \cap (Quit \cup {GameShutdown}) = {}
  /\ GameShutdown \in Elems(accepted) => gameClosing /\ pc # "quit"
  /\ gameClosing /\ pc # "quit" => GameShutdown \in Held
  /\ main # "aborted" /\ ~gameClosing =>
       Terminate \notin Elems(accepted) /\ (pc # "off" => threadState = "RUNNING")
  /\ pc \in {"quit", "stop"} => gameClosing /\ threadState = "RUNNING"
  /\ gameClosing /\ pc \notin {"quit", "stop"} => threadState # "RUNNING"
  /\ pc \notin {"next", "exec", "quit", "stop"} => tmpTaskList = <<>>

LEMMA QueueInvCorrect == Spec => []QueueInv
<1>1. Init => QueueInv
  BY ElemsFacts, ConcatEmptySeq, EmptySeq DEF Init, QueueInv, Held, Whole
<1>2. ASSUME TypeInv, QueueInv, [Next]_vars PROVE QueueInv'
  <2> USE TaskAssumption
  <2>a. /\ Work \subseteq Task /\ Quit \subseteq Task
        /\ GameShutdown \in Task /\ Terminate \in Task
        /\ GameShutdown \notin Work \cup Quit
        /\ Terminate \notin Work \cup Quit \cup {GameShutdown}
    BY DEF Task
  <2>b. pc \in {"exec", "quit", "stop"} => tmpTaskList # <<>>
    BY <1>2 DEF TypeInv, HasCurrent
  <2>1. CASE Online \/ SpuriousWakeup \/ CheckState \/ EndOfBatch
    BY <1>2, <2>1 DEF Online, SpuriousWakeup, CheckState, EndOfBatch,
                      QueueInv, Held, Whole
  <2>2. CASE Start
    BY <1>2, <2>2 DEF Start, QueueInv, Held, Whole
  <2>3. CASE Abort
    <3>1. /\ main = "loading" /\ main' = "aborted" /\ Push(Terminate)
          /\ pc' \in {pc, "swap"} /\ (pc' = pc \/ pc = "wait") /\ pc # "off"
          /\ UNCHANGED <<threadState, tmpTaskList, gameClosing, done>>
      BY <2>3 DEF Abort, PushTerminate, NotifyOne
    <3>2. /\ Elems(accepted') = Elems(accepted) \cup {Terminate}
          /\ Held' = Held \cup {Terminate}
      BY <1>2, <2>a, <3>1, Pushing
    <3>3. QED
      BY <1>2, <2>a, <3>1, <3>2 DEF QueueInv
  <2>4. ASSUME NEW t \in Work \cup Quit, AddTask(t) \/ (t \in Work /\ TaskAdds(t))
        PROVE  QueueInv'
    <3>1. /\ t \in Quit => main = "online"
          /\ Push(t) /\ pc # "off"
          /\ UNCHANGED <<threadState, tmpTaskList, pc, gameClosing, main, done>>
      BY <2>4 DEF AddTask, TaskAdds
    <3>2. /\ Elems(accepted') = Elems(accepted) \cup {t}
          /\ Held' = Held \cup {t}
      BY <1>2, <2>a, <3>1, Pushing
    <3>3. QED
      BY <1>2, <2>a, <3>1, <3>2 DEF QueueInv
  <2>5. ASSUME NEW t \in Work \cup Quit, Signal(t) PROVE QueueInv'
    BY <1>2, <2>5 DEF Signal, NotifyOne, QueueInv, Held, Whole
  <2>6. CASE LockTaskList \/ SwapTaskList
    <3>1. /\ tmpTaskList = <<>> /\ taskList \in Seq(Task)
          /\ UNCHANGED <<threadState, gameClosing, main, accepted, done>>
          /\ pc \in {"lock", "swap"} /\ pc' \in {"wait", "next"}
          /\ \/ UNCHANGED <<taskList, tmpTaskList>>
             \/ pc' = "next" /\ taskList' = tmpTaskList /\ tmpTaskList' = taskList
      BY <1>2, <2>6 DEF LockTaskList, SwapTaskList, QueueInv, TypeInv, TypeOK
    <3>2. Whole' = Whole
      BY <3>1, ConcatEmptySeq DEF Whole
    <3>3. QED
      BY <1>2, <3>1, <3>2 DEF QueueInv, Held
  <2>7. ASSUME tmpTaskList # <<>>, tmpTaskList' = Tail(tmpTaskList),
               done' = Append(done, Current), UNCHANGED taskList
        PROVE  Held' = Held
    <3>1. Whole' = Tail(Whole)
      BY <1>2, <2>7, Finishing DEF Whole
    <3>2. QED
      BY <1>2, <2>7, <3>1, Finishing DEF Held
  <2>8. CASE NextTask
    BY <1>2, <2>7, <2>8 DEF NextTask, QueueInv, Held, Whole
  <2>9. CASE RunWork \/ RunTerminate \/ StopDispatcher
    <3>1. /\ pc \in {"exec", "stop"} /\ pc' = "next" /\ Held' = Held
          /\ threadState' \in {threadState, "TERMINATED", "CLOSING"}
          /\ pc = "stop" => threadState' = "CLOSING"
          /\ UNCHANGED <<gameClosing, main, accepted>>
      BY <2>7, <2>9, <2>b DEF RunWork, RunTerminate, StopDispatcher, Stop, Finish
    <3>2. RunTerminate => Terminate \in Held
      BY <1>2, <2>b, CurrentHeld DEF RunTerminate
    <3>3. RunTerminate \/ RunWork => pc = "exec" /\ threadState' \in {threadState, "TERMINATED"}
      BY DEF RunTerminate, RunWork
    <3>4. RunWork => threadState' = threadState
      BY DEF RunWork
    <3>5. CASE StopDispatcher
      BY <1>2, <3>1, <3>5 DEF QueueInv, StopDispatcher
    <3>6. CASE RunWork
      BY <1>2, <3>1, <3>3, <3>4, <3>6 DEF QueueInv
    <3>7. CASE RunTerminate
      <4>1. main = "aborted" \/ gameClosing
        BY <1>2, <3>2, <3>7 DEF QueueInv
      <4>2. threadState' = "TERMINATED" /\ pc = "exec"
        BY <3>7 DEF RunTerminate
      <4>3. QED
        BY <1>2, <3>1, <4>1, <4>2 DEF QueueInv
    <3>8. QED
      BY <2>9, <3>5, <3>6, <3>7
  <2>10. CASE SetGameState
    <3>1. /\ pc = "exec" /\ Current \in Quit /\ gameClosing'
          /\ UNCHANGED <<threadState, main, accepted>>
          /\ Held' = Held
          /\ IF gameClosing THEN pc' = "next" ELSE pc' = "quit"
      BY <2>7, <2>10, <2>b DEF SetGameState, Finish, Held, Whole
    <3>2. Current \in Held
      BY <1>2, <2>b, <3>1, CurrentHeld
    <3>3. main = "online"
      BY <1>2, <3>1, <3>2 DEF QueueInv
    <3>4. ~gameClosing => threadState = "RUNNING"
      BY <1>2, <3>1, <3>3 DEF QueueInv
    <3>5. CASE gameClosing
      BY <1>2, <3>1, <3>3, <3>5 DEF QueueInv
    <3>6. CASE ~gameClosing
      BY <1>2, <3>1, <3>3, <3>4, <3>6 DEF QueueInv
    <3>7. QED
      BY <3>5, <3>6
  <2>11. CASE QueueShutdown
    <3>1. /\ pc = "quit" /\ pc' = "stop" /\ threadState = "RUNNING" /\ gameClosing
          /\ Push(GameShutdown)
          /\ UNCHANGED <<threadState, tmpTaskList, gameClosing, main, done>>
      BY <1>2, <2>11 DEF QueueShutdown, QueueInv
    <3>2. /\ Elems(accepted') = Elems(accepted) \cup {GameShutdown}
          /\ Held' = Held \cup {GameShutdown}
      BY <1>2, <2>a, <3>1, Pushing
    <3>3. QED
      BY <1>2, <2>a, <3>1, <3>2 DEF QueueInv
  <2>12. CASE RunGameShutdown
    <3>1. /\ pc = "exec" /\ pc' = "next" /\ Current = GameShutdown
          /\ Push(Terminate) /\ Finish
          /\ UNCHANGED <<threadState, gameClosing, main>>
      BY <2>12 DEF RunGameShutdown, PushTerminate, Finish
    <3>2. /\ Elems(accepted') = Elems(accepted) \cup {Terminate}
          /\ Held' = Held \cup {Terminate}
      BY <1>2, <2>a, <3>1, FinishingAndPushing
    <3>3. main # "loading" /\ gameClosing
      BY <1>2, <2>a, <2>b, <3>1, CurrentHeld DEF QueueInv
    <3>4. QED
      BY <1>2, <2>a, <3>1, <3>2, <3>3 DEF QueueInv
  <2>13. CASE UNCHANGED vars
    BY <1>2, <2>13 DEF vars, QueueInv, Held, Whole
  <2>14. QED
    BY <1>2, <2>1, <2>2, <2>3, <2>4, <2>5, <2>6, <2>8, <2>9, <2>10, <2>11, <2>12,
       <2>13 DEF Next, ThreadStep
<1>3. QED
  BY <1>1, <1>2, TypeInvCorrect, PTL DEF Spec

-----------------------------------------------------------------------------
(* The shutdown argument.  No task is in the queue twice, Game::shutdown     *)
(* among them; tasks may be behind it, but by the time it runs the list is  *)
(* closed, so the terminating lambda is the last of the queue from the      *)
(* moment it is in it, and leaves both lists empty when it runs.  None of   *)
(* this holds when main aborted: then the lambda is pushed on an open list. *)
LambdaIsLast ==
  Terminate \in Elems(Whole) =>
    /\ GameShutdown \notin Elems(Whole)
    /\ Whole[Len(Whole)] = Terminate
    /\ threadState = "CLOSING"

ClosedInv ==
  /\ pc # "off" /\ threadState = "TERMINATED" => Whole = <<>>
  /\ Distinct(Whole)
  /\ LambdaIsLast

ShutdownInv == main # "aborted" => ClosedInv

(* What is left of a queue without its first task. *)
LEMMA Shortened ==
  ASSUME TypeInv, Whole # <<>>, Head(Whole) = Current, Distinct(Whole), LambdaIsLast
  PROVE  /\ Tail(Whole) \in Seq(Task) /\ Distinct(Tail(Whole))
         /\ Elems(Tail(Whole)) = Elems(Whole) \ {Current}
         /\ Current = Terminate => Tail(Whole) = <<>>
         /\ Terminate \in Elems(Tail(Whole)) =>
              Tail(Whole)[Len(Tail(Whole))] = Terminate
<1>1. Whole \in Seq(Task) /\ Whole[1] = Current
  BY WholeFacts, SeqFacts
<1>2. /\ Tail(Whole) \in Seq(Task) /\ Distinct(Tail(Whole))
      /\ Current \in Elems(Whole)
      /\ Elems(Tail(Whole)) = Elems(Whole) \ {Current}
      /\ Tail(Whole) = <<>> <=> Len(Whole) = 1
  BY <1>1, TailFacts
<1>3. /\ Len(Whole) \in Nat \ {0} /\ Len(Tail(Whole)) = Len(Whole) - 1
      /\ \A i \in 1..Len(Tail(Whole)) : Tail(Whole)[i] = Whole[i + 1]
  BY <1>1, SeqFacts
<1>4. ASSUME Current = Terminate PROVE Tail(Whole) = <<>>
  <2>1. Whole[Len(Whole)] = Whole[1]
    BY <1>1, <1>2, <1>4 DEF LambdaIsLast
  <2>2. 1 \in 1..Len(Whole) /\ Len(Whole) \in 1..Len(Whole)
    BY <1>3
  <2>3. QED
    BY <1>2, <2>1, <2>2 DEF Distinct
<1>5. ASSUME Terminate \in Elems(Tail(Whole))
      PROVE  Tail(Whole)[Len(Tail(Whole))] = Terminate
  <2>1. Len(Tail(Whole)) # 0
    <3>1. Len(Tail(Whole)) = 0 => Tail(Whole) = <<>>
      BY <1>2, SeqFacts
    <3>2. QED
      BY <1>5, <3>1, NoElems
  <2>2. Len(Tail(Whole)) \in 1..Len(Tail(Whole)) /\ Len(Tail(Whole)) + 1 = Len(Whole)
    BY <1>3, <2>1
  <2>3. QED
    BY <1>2, <1>3, <1>5, <2>2 DEF LambdaIsLast
<1>6. QED
  BY <1>2, <1>4, <1>5

LEMMA ShutdownInvCorrect == Spec => []ShutdownInv
<1>1. Init => ShutdownInv
  BY NoElems, ConcatEmptySeq, EmptySeq
  DEF Init, ShutdownInv, ClosedInv, LambdaIsLast, Whole
<1>2. ASSUME TypeInv, QueueInv, ShutdownInv, [Next]_vars PROVE ShutdownInv'
  <2> USE TaskAssumption
  <2> SUFFICES ASSUME main' # "aborted" PROVE ClosedInv'
    BY DEF ShutdownInv
  <2>a. main # "aborted"
    BY <1>2 DEF Next, Start, Online, Abort, AddTask, Signal, TaskAdds, SpuriousWakeup,
                ThreadStep, CheckState, LockTaskList, SwapTaskList, NextTask,
                EndOfBatch, RunWork, SetGameState, QueueShutdown, StopDispatcher,
                RunGameShutdown, RunTerminate, vars
  <2>b. ClosedInv
    BY <1>2, <2>a DEF ShutdownInv
  <2>c. /\ Work \subseteq Task /\ Quit \subseteq Task
        /\ GameShutdown \in Task /\ Terminate \in Task
        /\ GameShutdown \notin Work \cup Quit
        /\ Terminate \notin Work \cup Quit \cup {GameShutdown}
    BY DEF Task
  <2>d. pc \in {"exec", "quit", "stop"} => tmpTaskList # <<>>
    BY <1>2 DEF TypeInv, HasCurrent
  <2>e. /\ Whole \in Seq(Task) /\ Elems(Whole) \subseteq Held
        /\ Held \subseteq Elems(accepted)
        /\ Whole # <<>> => Elems(Whole) # {}
    BY <1>2, WholeFacts, ElemsEmpty DEF Held, QueueInv
  (* One task more, which is not the last lambda. *)
  <2>1. ASSUME NEW t \in Task \ {Terminate}, Push(t), t \notin Elems(accepted),
               threadState = "RUNNING", UNCHANGED <<tmpTaskList, done, threadState>>
        PROVE  Distinct(Whole') /\ LambdaIsLast'
    <3>1. /\ Whole' = Append(Whole, t) /\ Elems(Whole') = Elems(Whole) \cup {t}
          /\ t \notin Elems(Whole)
      BY <1>2, <2>1, <2>e, Pushing
    <3>2. Terminate \notin Elems(Whole')
      BY <2>1, <2>b, <3>1 DEF ClosedInv, LambdaIsLast
    <3>3. QED
      BY <2>b, <2>e, <2>1, <3>1, <3>2, DistinctAppend DEF ClosedInv, LambdaIsLast
  (* One task less. *)
  <2>2. ASSUME tmpTaskList # <<>>, tmpTaskList' = Tail(tmpTaskList),
               done' = Append(done, Current), UNCHANGED taskList
        PROVE  /\ Distinct(Whole')
               /\ threadState' = threadState => LambdaIsLast'
               /\ Elems(Whole') \subseteq Elems(Whole)
               /\ Current \in Elems(Whole)
               /\ Current = Terminate => Whole' = <<>>
               /\ Whole # <<>>
    <3>1. /\ Whole' = Tail(Whole) /\ Whole # <<>> /\ Head(Whole) = Current
          /\ Current \in Elems(Whole)
      BY <1>2, <2>2, Finishing DEF Whole
    <3>2. QED
      BY <1>2, <2>b, <3>1, Shortened DEF ClosedInv, LambdaIsLast
  <2>3. CASE Start
    <3>1. Whole' = <<>>
      BY <1>2, <2>3, <2>e DEF Start, QueueInv, Whole
    <3>2. QED
      BY <2>3, <3>1, NoElems DEF Start, ClosedInv, LambdaIsLast
  <2>4. CASE Online \/ SpuriousWakeup \/ CheckState \/ EndOfBatch
    BY <2>b, <2>4 DEF Online, SpuriousWakeup, CheckState, EndOfBatch, ClosedInv,
                      LambdaIsLast, Whole
  <2>5. CASE Abort
    BY <2>5 DEF Abort
  <2>6. ASSUME NEW t \in Work \cup Quit, AddTask(t) \/ (t \in Work /\ TaskAdds(t))
        PROVE  ClosedInv'
    <3>1. /\ Push(t) /\ t \notin Elems(accepted) /\ threadState = "RUNNING"
          /\ UNCHANGED <<threadState, tmpTaskList, done>>
      BY <2>6 DEF AddTask, TaskAdds, Fresh
    <3>2. Distinct(Whole') /\ LambdaIsLast'
      BY <2>1, <2>c, <3>1
    <3>3. QED
      BY <3>1, <3>2 DEF ClosedInv
  <2>7. ASSUME NEW t \in Work \cup Quit, Signal(t) PROVE ClosedInv'
    BY <1>2, <2>b, <2>7 DEF Signal, NotifyOne, ClosedInv, LambdaIsLast, Whole
  <2>8. CASE LockTaskList \/ SwapTaskList
    <3>1. /\ tmpTaskList = <<>> /\ taskList \in Seq(Task)
          /\ pc # "off" /\ UNCHANGED <<threadState, gameClosing>>
          /\ \/ UNCHANGED <<taskList, tmpTaskList>>
             \/ taskList' = tmpTaskList /\ tmpTaskList' = taskList
      BY <1>2, <2>8 DEF LockTaskList, SwapTaskList, QueueInv, TypeInv, TypeOK
    <3>2. Whole' = Whole
      BY <3>1, ConcatEmptySeq DEF Whole
    <3>3. QED
      BY <2>b, <3>1, <3>2 DEF ClosedInv, LambdaIsLast
  <2>9. CASE NextTask
    <3>1. /\ pc = "next" /\ tmpTaskList # <<>>
          /\ UNCHANGED <<threadState, gameClosing, taskList>>
          /\ \/ UNCHANGED tmpTaskList
             \/ tmpTaskList' = Tail(tmpTaskList) /\ done' = Append(done, Current)
      BY <2>9 DEF NextTask
    <3>2. CASE UNCHANGED tmpTaskList
      BY <2>b, <3>1, <3>2 DEF ClosedInv, LambdaIsLast, Whole
    <3>3. CASE tmpTaskList' = Tail(tmpTaskList) /\ done' = Append(done, Current)
      BY <2>b, <2>2, <3>1, <3>3 DEF ClosedInv
    <3>4. QED
      BY <3>1, <3>2, <3>3
  <2>10. CASE RunWork
    BY <2>b, <2>d, <2>2, <2>10 DEF RunWork, Finish, ClosedInv
  <2>11. CASE SetGameState
    <3>1. CASE gameClosing
      BY <2>b, <2>d, <2>2, <2>11, <3>1 DEF SetGameState, Finish, ClosedInv
    <3>2. CASE ~gameClosing
      BY <2>b, <2>11, <3>2 DEF SetGameState, ClosedInv, LambdaIsLast, Whole
    <3>3. QED
      BY <3>1, <3>2
  <2>12. CASE QueueShutdown
    <3>1. /\ pc = "quit" /\ threadState = "RUNNING"
          /\ Push(GameShutdown) /\ GameShutdown \notin Elems(accepted)
          /\ UNCHANGED <<threadState, tmpTaskList, done>>
      BY <1>2, <2>12 DEF QueueShutdown, QueueInv
    <3>2. Distinct(Whole') /\ LambdaIsLast'
      BY <2>1, <2>c, <3>1
    <3>3. QED
      BY <3>1, <3>2 DEF ClosedInv
  <2>13. CASE StopDispatcher
    <3>1. /\ threadState = "RUNNING" /\ threadState' = "CLOSING" /\ gameClosing'
          /\ pc = "stop" /\ Finish /\ UNCHANGED taskList
      BY <1>2, <2>13 DEF StopDispatcher, Stop, QueueInv
    <3>2. /\ Distinct(Whole') /\ Elems(Whole') \subseteq Elems(Whole)
      BY <2>d, <2>2, <3>1 DEF Finish
    <3>3. Terminate \notin Elems(Whole)
      BY <2>b, <3>1 DEF ClosedInv, LambdaIsLast
    <3>4. QED
      BY <3>1, <3>2, <3>3 DEF ClosedInv, LambdaIsLast
  <2>14. CASE RunGameShutdown
    <3>1. /\ pc = "exec" /\ Current = GameShutdown /\ pc' = "next"
          /\ Push(Terminate) /\ Finish /\ UNCHANGED <<threadState, gameClosing>>
      BY <2>14 DEF RunGameShutdown, PushTerminate, Finish
    <3>2. /\ Whole # <<>> /\ Head(Whole) = Current
          /\ Whole' = Append(Tail(Whole), Terminate)
          /\ Elems(Whole) = {Current} \cup Elems(Tail(Whole))
      BY <1>2, <2>c, <3>1, FinishingAndPushing
    <3>3. threadState = "CLOSING"
      BY <1>2, <2>b, <2>e, <3>1, <3>2 DEF ClosedInv, QueueInv, TypeInv, TypeOK
    <3>4. /\ Tail(Whole) \in Seq(Task) /\ Distinct(Tail(Whole))
          /\ GameShutdown \notin Elems(Tail(Whole))
          /\ Terminate \notin Elems(Tail(Whole))
      BY <1>2, <2>b, <3>1, <3>2, Shortened DEF ClosedInv, LambdaIsLast
    <3>5. /\ Distinct(Whole') /\ Elems(Whole') = Elems(Tail(Whole)) \cup {Terminate}
          /\ Whole'[Len(Whole')] = Terminate
      <4>1. /\ Distinct(Whole') /\ Elems(Whole') = Elems(Tail(Whole)) \cup {Terminate}
        BY <2>c, <3>2, <3>4, DistinctAppend, ElemsFacts
      <4>2. /\ Len(Whole') = Len(Tail(Whole)) + 1
            /\ Whole'[Len(Tail(Whole)) + 1] = Terminate
        BY <2>c, <3>2, <3>4, SeqFacts
      <4>3. QED
        BY <4>1, <4>2
    <3>6. QED
      BY <2>b, <2>c, <3>1, <3>3, <3>4, <3>5 DEF ClosedInv, LambdaIsLast
  <2>15. CASE RunTerminate
    <3>1. /\ Current = Terminate /\ Finish /\ UNCHANGED <<taskList, gameClosing>>
          /\ pc = "exec" /\ threadState' = "TERMINATED"
      BY <2>15 DEF RunTerminate
    <3>2. Whole' = <<>> /\ Current \in Elems(Whole)
      BY <2>d, <2>2, <3>1 DEF Finish
    <3>3. threadState = "CLOSING"
      BY <2>b, <3>1, <3>2 DEF ClosedInv, LambdaIsLast
    <3>4. QED
      BY <3>1, <3>2, <3>3, NoElems DEF ClosedInv, LambdaIsLast
  <2>16. CASE UNCHANGED vars
    BY <2>b, <2>16 DEF vars, ClosedInv, LambdaIsLast, Whole
  <2>17. QED
    BY <1>2, <2>3, <2>4, <2>5, <2>6, <2>7, <2>8, <2>9, <2>10, <2>11, <2>12, <2>13,
       <2>14, <2>15, <2>16 DEF Next, ThreadStep
<1>3. QED
  BY <1>1, <1>2, TypeInvCorrect, QueueInvCorrect, PTL DEF Spec

(* Unless main gave up, the dispatcher thread leaves its loop only when     *)
(* every task it ever accepted has been taken: also those that other        *)
(* threads added behind Game::shutdown, before setGameState came to stop().  *)
THEOREM ExitIsDrained == Spec => []DrainedAtExit
<1>1. TypeInv /\ QueueInv /\ ShutdownInv => DrainedAtExit
  BY WholeFacts DEF QueueInv, ShutdownInv, ClosedInv, DrainedAtExit
<1>2. QED
  BY <1>1, TypeInvCorrect, QueueInvCorrect, ShutdownInvCorrect, PTL

-----------------------------------------------------------------------------
(* Every step is one of the queue, or leaves it alone. *)
LEMMA StepOfQueue ==
  ASSUME TypeInv, QueueInv, [Next]_vars
  PROVE  [Queue!Next]_(Queue!vars)
<1> USE TaskAssumption
<1>a. /\ Work \subseteq Task /\ Quit \subseteq Task
      /\ GameShutdown \in Task /\ Terminate \in Task
      /\ GameShutdown \notin Work \cup Quit
      /\ Terminate \notin Work \cup Quit \cup {GameShutdown}
  BY DEF Task
<1>b. pc \in {"exec", "quit", "stop"} => tmpTaskList # <<>>
  BY DEF TypeInv, HasCurrent
<1>c. /\ Queue!Known = Held /\ Held \subseteq Elems(accepted)
      /\ Elems(Whole) \subseteq Held
  BY DEF Queue!Known, Held, Whole, QueueInv, Elems, Queue!Elems
<1>1. ASSUME Whole' = Whole, done' = done,
             (threadState = "RUNNING") = (threadState' = "RUNNING")
      PROVE  UNCHANGED Queue!vars
  BY <1>1 DEF Queue!vars, Whole
<1>2. ASSUME NEW t \in Task, Push(t), t \notin Elems(accepted),
             threadState = "RUNNING", UNCHANGED <<tmpTaskList, done, threadState>>
      PROVE  Queue!Accept(t)
  BY <1>2, <1>c, Pushing DEF Queue!Accept, Whole
<1>3. ASSUME tmpTaskList # <<>>, tmpTaskList' = Tail(tmpTaskList),
             done' = Append(done, Current), UNCHANGED taskList
      PROVE  Queue!Served /\ Head(Whole) = Current /\ Current \in Held
  BY <1>3, Finishing DEF Queue!Served, Whole, Held
<1>4. CASE Start
  <2>1. Queue!Known = {}
    BY <1>4, <1>c DEF Start, QueueInv
  <2>2. Queue!Open
    BY <1>4, <2>1 DEF Start, QueueInv, Queue!Open
  <2>3. QED
    BY <2>2 DEF Queue!Next
<1>5. CASE Online \/ SpuriousWakeup \/ CheckState \/ EndOfBatch
           \/ \E t \in Work \cup Quit : Signal(t)
  BY <1>1, <1>5
  DEF Online, SpuriousWakeup, CheckState, EndOfBatch, Signal, Whole
<1>6. CASE Abort
  <2>1. /\ Push(Terminate) /\ UNCHANGED <<tmpTaskList, done, threadState>>
        /\ main = "loading"
    BY <1>6 DEF Abort, PushTerminate
  <2>2. Queue!Known \subseteq Work
    BY <1>c, <2>1 DEF QueueInv
  <2>3. Queue!Abort
    BY <1>a, <2>1, <2>2, Pushing DEF Queue!Abort, Whole
  <2>4. QED
    BY <2>3 DEF Queue!Next
<1>7. ASSUME NEW t \in Work \cup Quit, AddTask(t) \/ (t \in Work /\ TaskAdds(t))
      PROVE  Queue!Next
  <2>1. Queue!Accept(t)
    BY <1>2, <1>7, <1>a DEF AddTask, TaskAdds, Fresh
  <2>2. QED
    BY <2>1 DEF Queue!Next
<1>8. CASE LockTaskList \/ SwapTaskList
  <2>1. /\ tmpTaskList = <<>> /\ taskList \in Seq(Task)
        /\ UNCHANGED <<done, threadState>>
        /\ \/ UNCHANGED <<taskList, tmpTaskList>>
           \/ taskList' = tmpTaskList /\ tmpTaskList' = taskList
    BY <1>8 DEF LockTaskList, SwapTaskList, QueueInv, TypeInv, TypeOK
  <2>2. Whole' = Whole
    BY <2>1, ConcatEmptySeq DEF Whole
  <2>3. QED
    BY <1>1, <2>1, <2>2
<1>9. CASE NextTask
  <2>1. /\ tmpTaskList # <<>> /\ UNCHANGED <<taskList, threadState>>
        /\ \/ UNCHANGED <<tmpTaskList, done>>
           \/ /\ Current \in Work
              /\ tmpTaskList' = Tail(tmpTaskList) /\ done' = Append(done, Current)
    BY <1>9 DEF NextTask
  <2>2. CASE UNCHANGED <<tmpTaskList, done>>
    BY <1>1, <2>1, <2>2 DEF Whole
  <2>3. CASE Current \in Work /\ tmpTaskList' = Tail(tmpTaskList)
             /\ done' = Append(done, Current)
    <3>1. Queue!Serve
      BY <1>3, <2>1, <2>3 DEF Queue!Serve, Whole
    <3>2. QED
      BY <3>1 DEF Queue!Next
  <2>4. QED
    BY <2>1, <2>2, <2>3
<1>10. CASE RunWork
  <2>1. Queue!Serve
    BY <1>3, <1>b, <1>10 DEF RunWork, Finish, Queue!Serve, Whole
  <2>2. QED
    BY <2>1 DEF Queue!Next
<1>11. CASE SetGameState
  <2>1. CASE gameClosing
    <3>1. /\ threadState # "RUNNING" /\ threadState' = threadState
          /\ GameShutdown \in Held /\ Current \in Quit
      BY <1>11, <2>1 DEF SetGameState, QueueInv
    <3>2. Queue!Served /\ Head(Whole) = Current
      BY <1>3, <1>b, <1>11, <2>1 DEF SetGameState, Finish
    <3>3. Queue!ServeAndClose
      BY <1>a, <1>c, <3>1, <3>2 DEF Queue!ServeAndClose, Whole
    <3>4. QED
      BY <3>3 DEF Queue!Next
  <2>2. CASE ~gameClosing
    BY <1>1, <1>11, <2>2 DEF SetGameState, Whole
  <2>3. QED
    BY <2>1, <2>2
<1>12. CASE QueueShutdown
  <2>1. /\ pc = "quit" /\ Push(GameShutdown) /\ threadState = "RUNNING"
        /\ GameShutdown \notin Elems(accepted) /\ Current \in Quit
        /\ UNCHANGED <<tmpTaskList, done, threadState>>
    BY <1>12 DEF QueueShutdown, QueueInv, TypeInv, HasCurrent
  <2>2. Queue!Accept(GameShutdown)
    BY <1>2, <1>a, <2>1
  <2>3. Whole # <<>> /\ Head(Whole) = Current
    BY <1>b, <2>1, CurrentHeld
  <2>4. Queue!AcceptShutdown
    BY <2>1, <2>2, <2>3 DEF Queue!AcceptShutdown, Whole
  <2>5. QED
    BY <2>4 DEF Queue!Next
<1>13. CASE StopDispatcher
  <2>1. /\ pc = "stop" /\ GameShutdown \in Held /\ Current \in Quit
        /\ threadState' = "CLOSING"
    BY <1>13 DEF StopDispatcher, Stop, QueueInv, TypeInv, HasCurrent
  <2>2. Queue!Served /\ Head(Whole) = Current
    BY <1>3, <1>b, <1>13 DEF StopDispatcher, Finish
  <2>3. Queue!ServeAndClose
    BY <1>c, <2>1, <2>2 DEF Queue!ServeAndClose, Whole
  <2>4. QED
    BY <2>3 DEF Queue!Next
<1>14. CASE RunGameShutdown
  <2>1. /\ pc = "exec" /\ Finish /\ Current = GameShutdown /\ Push(Terminate)
        /\ UNCHANGED threadState
    BY <1>14 DEF RunGameShutdown, PushTerminate
  <2>2. threadState # "RUNNING"
    BY <1>b, <1>c, <2>1, CurrentHeld DEF QueueInv
  <2>3. Queue!ServeAndTerminate
    BY <1>a, <2>1, <2>2, FinishingAndPushing DEF Queue!ServeAndTerminate, Whole
  <2>4. QED
    BY <2>3 DEF Queue!Next
<1>15. CASE RunTerminate
  <2>1. Current = Terminate /\ threadState' = "TERMINATED"
    BY <1>15 DEF RunTerminate
  <2>2. Queue!Served /\ Head(Whole) = Current
    BY <1>3, <1>b, <1>15 DEF RunTerminate, Finish
  <2>3. Queue!ServeAndClose
    BY <1>a, <2>1, <2>2 DEF Queue!ServeAndClose, Whole
  <2>4. QED
    BY <2>3 DEF Queue!Next
<1>16. CASE UNCHANGED vars
  BY <1>1, <1>16 DEF vars, Whole
<1>17. QED
  BY <1>4, <1>5, <1>6, <1>7, <1>8, <1>9, <1>10, <1>11, <1>12, <1>13, <1>14, <1>15,
     <1>16
  DEF Next, ThreadStep

(* The dispatcher implements TaskQueue: whatever the threads do, its two     *)
(* lists are one queue that is served in order and takes no task twice,     *)
(* Game::shutdown is queued before it is closed, what was accepted until     *)
(* then is in front of the terminating task, and nothing follows that one.   *)
THEOREM ServesInOrder == Spec => ImplementsQueue
<1>1. Init => Queue!Init
  BY ConcatEmptySeq, EmptySeq DEF Init, Queue!Init
<1>2. TypeInv /\ QueueInv /\ [Next]_vars => [Queue!Next]_(Queue!vars)
  BY StepOfQueue
<1>3. QED
  BY <1>1, <1>2, TypeInvCorrect, QueueInvCorrect, PTL
  DEF Spec, ImplementsQueue, Queue!Spec
=============================================================================
