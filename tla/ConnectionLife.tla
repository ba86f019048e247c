--------------------------- MODULE ConnectionLife ---------------------------
(***************************************************************************)
(* What a connection promises to the protocol bound to it: the protocol    *)
(* may post tasks to the dispatcher while the connection is open; closing  *)
(* it posts Protocol::release once, after every one of those tasks, and    *)
(* the object goes away (the weak pointer of the protocol expires) only    *)
(* after it was closed.  Whether release runs before or after that is      *)
(* open.                                                                   *)
(***************************************************************************)
VARIABLES
  life,     \* of the Connection object
  bound,    \* Connection::protocol is set
  release   \* of the protocol: Protocol::release not posted, posted, run

lifeVars == <<life, bound, release>>

LifeInit ==
  /\ life = "open"
  /\ bound \in BOOLEAN
  /\ release = "none"

Bind ==
  /\ life = "open" /\ ~bound
  /\ bound' = TRUE
  /\ UNCHANGED <<life, release>>

(* A dispatcher that was stopped takes no task any more, so a connection    *)
(* closed by the shutdown of the server may never release its protocol.     *)
Close ==
  /\ life = "open"
  /\ life' = "closing"
  /\ release' \in IF bound' THEN {"posted", "lost"} ELSE {"none"}
  /\ bound' \in BOOLEAN /\ (bound => bound')

Release ==
  /\ release = "posted"
  /\ release' = "run"
  /\ UNCHANGED <<life, bound>>

Lose ==
  /\ release = "posted"
  /\ release' = "lost"
  /\ UNCHANGED <<life, bound>>

Expire ==
  /\ life = "closing"
  /\ life' = "gone"
  /\ UNCHANGED <<bound, release>>

LifeNext == Bind \/ Close \/ Release \/ Lose \/ Expire

LifeSpec == LifeInit /\ [][LifeNext]_lifeVars
=============================================================================
