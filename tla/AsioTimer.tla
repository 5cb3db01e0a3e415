----------------------------- MODULE AsioTimer -----------------------------
(***************************************************************************)
(* boost::asio's high_resolution_timer, as the modules use it.  async_wait  *)
(* adds a wait to the timer; expires_at and cancel drop the waits that have *)
(* not come due (their handlers run with operation_aborted, return at once, *)
(* and are left out); the reactor turns the waits of a due timer into       *)
(* handlers, and does so only once every handler it collected before has    *)
(* run.  A handler that has been collected can not be cancelled any more.   *)
(*                                                                         *)
(* Times are relative to now: the clock lowers them, down to -MaxLate,      *)
(* below which lateness is not told apart.  Far is a time that never comes. *)
(***************************************************************************)
EXTENDS Integers

CONSTANT MaxLate  \* bound: ticks by which a past time is tracked

ASSUME MaxLateAssumption == MaxLate \in Nat

Far == 1000

Timer == [waiting : Nat, ready : Nat, expiry : Int]

Unarmed == [waiting |-> 0, ready |-> 0, expiry |-> 0]

Cancel(t) == [t EXCEPT !.waiting = 0]
ExpiresAt(t, e) == [t EXCEPT !.waiting = 0, !.expiry = e]
AsyncWait(t) == [t EXCEPT !.waiting = @ + 1]
Start(t, e) == AsyncWait(ExpiresAt(t, e))

Due(t) == t.waiting > 0 /\ t.expiry <= 0
Collect(t) == [t EXCEPT !.ready = @ + t.waiting, !.waiting = 0]
Return(t) == [t EXCEPT !.ready = @ - 1]

(* A wait that will come to a handler, or a handler that will run. *)
Pending(t) == t.waiting + t.ready > 0

Closer(e) == IF e = Far \/ e <= -MaxLate THEN e ELSE e - 1
Tock(t) == [t EXCEPT !.expiry = Closer(@)]
=============================================================================
