---------------------------- MODULE ThisContract ----------------------------
(***************************************************************************)
(* this_contract: which contract a callback reaches that calls             *)
(* this_contract::schedule() or release().  process_contract() puts a      *)
(* guard on the stack of the thread; tlsThisContract_ points to the guard  *)
(* made last, and each guard to the one before it.  A callback may itself  *)
(* call execute_next_contract() of this or another group, and every        *)
(* callback may end by an exception, which is caught by an outer one or    *)
(* not.  process_release() makes no guard.                                 *)
(***************************************************************************)
EXTENDS Integers, SequencesExt

CONSTANTS
  Contracts,  \* of all groups a thread may execute
  Threads

VARIABLES
  stack,      \* per thread: the visits under way, the innermost last
  tls,        \* per thread: tlsThisContract_, as the depth of the visit that
              \* made the guard (0: null)
  visited,    \* contracts whose execute flag is set, until they are erased
  requested,  \* contracts whose schedule flag is set
  released    \* contracts whose release flag is set

vars == <<stack, tls, visited, requested, released>>

(* A visit of a contract for its work or its release, the guard it found   *)
(* in tlsThisContract_ when it made its own, and where it is: before the   *)
(* guard is made, in its callback, in the exception callback, with both    *)
(* over, with the guard gone.                                              *)
Steps  == {"begun", "callback", "handler", "over", "unguarded"}
Visits == [contract : Contracts, kind : {"work", "release"},
           prev : Nat, step : Steps]

depth(t) == Len(stack[t])
Top(t)   == stack[t][depth(t)]

InCallback(t) == depth(t) > 0 /\ Top(t).step \in {"callback", "handler"}

Goto(t, step) == stack' = [stack EXCEPT ![t][depth(t)].step = step]

-----------------------------------------------------------------------------
(* execute_next_contract(), called by a thread or by a callback on it,     *)
(* comes upon a contract: process_contract() sets its execute flag.        *)
Begin(t, c) ==
  /\ depth(t) = 0 \/ InCallback(t)
  /\ c \in requested \ visited
  /\ visited' = visited \cup {c}
  /\ requested' = requested \ {c}
  /\ stack' = [stack EXCEPT ![t] =
       Append(@, IF c \in released
                 THEN [contract |-> c, kind |-> "release", prev |-> 0, step |-> "callback"]
                 ELSE [contract |-> c, kind |-> "work",    prev |-> 0, step |-> "begun"])]
  /\ UNCHANGED <<tls, released>>

(* The constructor of the guard.  *)
MakeGuard(t) ==
  /\ depth(t) > 0 /\ Top(t).step = "begun"
  /\ stack' = [stack EXCEPT ![t][depth(t)].prev = tls[t],
                            ![t][depth(t)].step = "callback"]
  /\ tls' = [tls EXCEPT ![t] = depth(t)]
  /\ UNCHANGED <<visited, requested, released>>

(* Mutant: the guard's destructor leaves null behind. *)
ForgetOuterGuard(t) ==
  /\ depth(t) > 0 /\ Top(t).step = "over" /\ Top(t).kind = "work"
  /\ tls' = [tls EXCEPT ![t] = 0]
  /\ Goto(t, "unguarded")
  /\ UNCHANGED <<visited, requested, released>>

(* The destructor of the guard, which runs however the callbacks ended.    *)
DestroyGuard(t) ==
  /\ depth(t) > 0 /\ Top(t).step = "over" /\ Top(t).kind = "work"
  /\ tls' = [tls EXCEPT ![t] = Top(t).prev]
  /\ Goto(t, "unguarded")
  /\ UNCHANGED <<visited, requested, released>>

(* The destructor of auto_clear_execute_flag: a run is over.  *)
EndRun(t) ==
  /\ depth(t) > 0 /\ Top(t).step = "unguarded" /\ Top(t).kind = "work"
  /\ visited' = visited \ {Top(t).contract}
  /\ stack' = [stack EXCEPT ![t] = Front(@)]
  /\ UNCHANGED <<tls, requested, released>>

(* The destructor of auto_erase_contract: a released contract is erased,   *)
(* and the slot may get another one.                                       *)
EndRelease(t) ==
  LET c == Top(t).contract IN
  /\ depth(t) > 0 /\ Top(t).step = "over" /\ Top(t).kind = "release"
  /\ visited' = visited \ {c}
  /\ requested' = requested \ {c}
  /\ released' = released \ {c}
  /\ stack' = [stack EXCEPT ![t] = Front(@)]
  /\ UNCHANGED tls

-----------------------------------------------------------------------------
(* What callbacks do. *)

(* An exception leaves the callback and the exception callback is called:  *)
(* there is one, and the exception is of a kind that is caught (any kind   *)
(* in a run, std::exception in a release).                                 *)
Throw(t) ==
  /\ depth(t) > 0 /\ Top(t).step = "callback"
  /\ Goto(t, "handler")
  /\ UNCHANGED <<tls, visited, requested, released>>

(* Mutant: the execute flag is cleared while the guard is still there. *)
ReturnAndClear(t) ==
  /\ InCallback(t)
  /\ Goto(t, "over")
  /\ visited' = visited \ {Top(t).contract}
  /\ UNCHANGED <<tls, requested, released>>

(* The callback, or the exception callback, returns.  *)
Return(t) ==
  /\ InCallback(t)
  /\ Goto(t, "over")
  /\ UNCHANGED <<tls, visited, requested, released>>

(* Mutant: the end of a visit is written as the last statements of         *)
(* process_contract() and process_release(), which an exception passes by. *)
EscapeAtOnce(t) ==
  /\ InCallback(t)
  /\ stack' = [stack EXCEPT ![t] = Front(@)]
  /\ tls' = IF Top(t).kind = "work" THEN [tls EXCEPT ![t] = Top(t).prev] ELSE tls
  /\ UNCHANGED <<visited, requested, released>>

(* An exception leaves the visit: the callback's, where there is no        *)
(* exception callback or the exception is of a kind that is not caught, or *)
(* the exception callback's own.  It passes the destructors on its way to  *)
(* the outer callback, which makes of it what it likes and goes on as by   *)
(* Throw, Escape or Return, or by something else.                          *)
Escape(t) ==
  /\ InCallback(t)
  /\ Goto(t, "over")
  /\ UNCHANGED <<tls, visited, requested, released>>

Named(t) == stack[t][tls[t]].contract

(* this_contract::schedule(), through the guard that tlsThisContract_      *)
(* points to.  (Through null, the behaviour is undefined.)                 *)
ThisSchedule(t) ==
  /\ InCallback(t)
  /\ tls[t] # 0
  /\ requested' = requested \cup {Named(t)}
  /\ UNCHANGED <<stack, tls, visited, released>>

(* this_contract::release() *)
ThisRelease(t) ==
  /\ InCallback(t)
  /\ tls[t] # 0
  /\ requested' = requested \cup {Named(t)}
  /\ released' = released \cup {Named(t)}
  /\ UNCHANGED <<stack, tls, visited>>

(* schedule() and release() through an object, by whoever has it. *)
ClientRequest(c) ==
  /\ requested' = requested \cup {c}
  /\ released' \in {released, released \cup {c}}
  /\ UNCHANGED <<stack, tls, visited>>

-----------------------------------------------------------------------------
Init ==
  /\ stack = [t \in Threads |-> <<>>]
  /\ tls = [t \in Threads |-> 0]
  /\ visited = {}
  /\ requested = {}
  /\ released = {}

Next ==
  \/ \E t \in Threads :
       \/ \E c \in Contracts : Begin(t, c)
       \/ MakeGuard(t) \/ DestroyGuard(t) \/ EndRun(t) \/ EndRelease(t)
       \/ Throw(t) \/ Return(t) \/ Escape(t)
       \/ ThisSchedule(t) \/ ThisRelease(t)
  \/ \E c \in Contracts : ClientRequest(c)

Spec == Init /\ [][Next]_vars

-----------------------------------------------------------------------------
(* The visit has a guard on the stack. *)
Guarded(v) == v.kind = "work" /\ v.step \in {"callback", "handler", "over"}

TypeOK ==
  /\ stack \in [Threads -> Seq(Visits)]
  /\ tls \in [Threads -> Nat]
  /\ \A t \in Threads : tls[t] <= depth(t)
  /\ visited \subseteq Contracts
  /\ requested \subseteq Contracts
  /\ released \subseteq Contracts

(* In the callbacks of a run, this_contract is that run's contract, and    *)
(* again so after runs nested in it have ended, by whatever exception; and *)
(* tlsThisContract_ never points to a guard that is gone.                  *)
NamesInnermostRun ==
  \A t \in Threads :
    /\ tls[t] # 0 => tls[t] <= depth(t) /\ Guarded(stack[t][tls[t]])
    /\ \A i \in tls[t] + 1 .. depth(t) : ~Guarded(stack[t][i])

(* What this_contract names is executing, and on this thread only: the     *)
(* guard is gone before the contract can be run by another thread, so that *)
(* schedule() and release() never reach a run they were not called in.     *)
NamedContractIsOurs ==
  \A t \in Threads : tls[t] # 0 =>
    /\ Named(t) \in visited
    /\ \A u \in Threads \ {t} : \A i \in 1 .. depth(u) :
         stack[u][i].contract # Named(t)

(* A thread is at a visit of c, of one of the kinds. *)
UnderWay(c, kinds) ==
  \E t \in Threads : \E k \in 1 .. depth(t) :
    stack[t][k].contract = c /\ stack[t][k].kind \in kinds

(* However callbacks end, exceptions that an exception callback throws in  *)
(* its turn and exceptions that leave execute_next_contract() among them,  *)
(* no contract is stranded: one whose execute flag is set is being visited *)
(* by a thread, and one that was released has its release ahead of it or   *)
(* under way.                                                              *)
NoneStrandedByExceptions ==
  /\ \A c \in visited : UnderWay(c, {"work", "release"})
  /\ \A c \in released \ requested : UnderWay(c, {"release"})
=============================================================================
