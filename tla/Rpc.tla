--------------------------------- MODULE Rpc ---------------------------------
(***************************************************************************)
(* What the bus promises about function calls, without queues, inboxes or  *)
(* tokens: a call is made, given to one server, answered by that server,   *)
(* and over, in this order; it may end early at every point, and nothing   *)
(* that is over comes back.  So a call is executed at most once and has at *)
(* most one answer, whoever closes, binds or opens in between.             *)
(***************************************************************************)
EXTENDS Common

CONSTANTS Calls, Servers

VARIABLE life   \* life[x]: how far call x is, and who was given it

Phase(phase, by) == [phase |-> phase, by |-> by]

Unmade == Phase("unmade", Nil)
Queued == Phase("queued", Nil)
Given(server) == Phase("given", server)
Answered == Phase("answered", Nil)
Over == Phase("over", Nil)

Init == life = [x \in Calls |-> Unmade]

(* The calls of xs, and no others, go from one point to another. *)
Move(xs, from, to) == \A x \in xs : life[x] = from /\ life'[x] = to

One(xs) == \E x \in xs : xs = {x}

Make(xs) == One(xs) /\ Move(xs, Unmade, Queued)

(* A server takes what waits for it, all at once. *)
Give(xs, server) == Move(xs, Queued, Given(server))

Answer(xs, server) == One(xs) /\ Move(xs, Given(server), Answered)

(* The caller has its answer, or somebody closed, or something failed. *)
End(xs) == \A x \in xs : life'[x] = Over

Next ==
    /\ DOMAIN life' = Calls
    /\ LET moved == {x \in Calls : life'[x] # life[x]}
       IN  \/ Make(moved) \/ End(moved)
           \/ \E server \in Servers : Give(moved, server) \/ Answer(moved, server)

Spec == Init /\ [][Next]_life
===============================================================================
