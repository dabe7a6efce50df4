----------------------------- MODULE Exceptions -----------------------------
(***************************************************************************)
(* The exceptions of source/arith/errors.c and the way the functions of    *)
(* the library use them, in the build with THREAD_SAFE_POLYLIB:            *)
(*                                                                         *)
(*   CATCH(any_exception_error) { free what is allocated; RETHROW(); }     *)
(*   TRY { ... }                                                           *)
(*   UNCATCH(any_exception_error);                                         *)
(*                                                                         *)
(* Each thread has its own exception stack; the last exception thrown,     *)
(* which RETHROW throws again, is one global variable.  The jump buffer of *)
(* a stack entry is the depth of the activation that longjmp returns to.   *)
(***************************************************************************)
EXTENDS Integers

CONSTANTS
  Threads,
  Kinds,                 \* the bits of an exception; a mask is a set of them
  Functions,             \* the functions with a CATCH
  Library,               \* those of the library: they end with RETHROW
  Mask,                  \* [Functions -> the mask of their CATCH]
  NoFunction,            \* in the slots that have not been used yet
  MAX_STACKED_CONTEXTS

ASSUME MaxAssumption == MAX_STACKED_CONTEXTS \in Nat \ {0}
ASSUME MaskAssumption == Mask \in [Functions -> SUBSET Kinds]
ASSUME NoFunctionAssumption == NoFunction \notin Functions
ASSUME LibraryAssumption == Library \subseteq Functions

VARIABLES
  exception_stack,       \* [Threads -> [slot -> [what, function, where]]]
  exception_index,       \* [Threads -> the next available slot]
  the_last_just_thrown_exception,
  callbacks,             \* push_callback and pop_callback have been set
  active,                \* [Threads -> [depth -> an activation on the C stack]]
  depth,                 \* [Threads -> activations of functions with a CATCH]
  pushed,                \* [Threads -> push_callbacks minus pop_callbacks]
  status                 \* "running", or why the program aborted

vars == <<exception_stack, exception_index, the_last_just_thrown_exception,
          callbacks, active, depth, pushed, status>>

Slots == 0 .. MAX_STACKED_CONTEXTS - 1
Depths == 0 .. MAX_STACKED_CONTEXTS
NoFrame == [what |-> {}, function |-> NoFunction, where |-> 0]

\* An activation is in its TRY part, or in the handler of what it caught.
NoActivation == [function |-> NoFunction, phase |-> "try", caught |-> {}]

Init ==
  /\ exception_stack = [t \in Threads |-> [n \in Slots |-> NoFrame]]
  /\ exception_index = [t \in Threads |-> 0]
  /\ the_last_just_thrown_exception = {}
  /\ callbacks \in BOOLEAN
  /\ active = [t \in Threads |-> [d \in Depths |-> NoActivation]]
  /\ depth = [t \in Threads |-> 0]
  /\ pushed = [t \in Threads |-> 0]
  /\ status = "running"

Innermost(t) == active[t][depth[t] - 1]
InHandler(t) == depth[t] > 0 /\ Innermost(t).phase = "handler"

\* The activations from d on have returned, or longjmp leaves them.
Unwound(t, d) ==
  [active EXCEPT ![t] = [e \in Depths |-> IF e < d THEN @[e] ELSE NoActivation]]

\* abort(): the program is gone.
Abort(why) ==
  /\ status' = why
  /\ UNCHANGED <<exception_stack, exception_index,
                 the_last_just_thrown_exception, callbacks, active, depth,
                 pushed>>

(***************************************************************************)
(* CATCH(what) at the beginning of f: push_exception_on_stack.             *)
(***************************************************************************)
Full(t) == exception_index[t] = MAX_STACKED_CONTEXTS

Counted(t, n) == IF callbacks THEN [pushed EXCEPT ![t] = @ + n] ELSE pushed

Catch(t, f) ==
  /\ status = "running"
  /\ ~InHandler(t)
  /\ ~Full(t)
  /\ pushed' = Counted(t, 1)
  /\ the_last_just_thrown_exception' = {}
  /\ exception_stack' = [exception_stack EXCEPT ![t][exception_index[t]] =
       [what |-> Mask[f], function |-> f, where |-> depth[t]]]
  /\ exception_index' = [exception_index EXCEPT ![t] = @ + 1]
  /\ active' = [active EXCEPT ![t][depth[t]] =
       [function |-> f, phase |-> "try", caught |-> {}]]
  /\ depth' = [depth EXCEPT ![t] = @ + 1]
  /\ UNCHANGED <<callbacks, status>>

CatchFull(t) ==
  /\ status = "running"
  /\ ~InHandler(t)
  /\ Full(t)
  /\ Abort("stack overflow")

(***************************************************************************)
(* UNCATCH(what) at the end of the innermost function, which returns:      *)
(* pop_exception_from_stack.                                               *)
(***************************************************************************)
Popped(t) == exception_stack[t][exception_index[t] - 1]

\* Wrong variant: an entry is left behind.
AfterPopLeft(n) == n
AfterPop(n) == n - 1

Pop(t) ==
  /\ pushed' = Counted(t, -1)
  /\ the_last_just_thrown_exception' = {}
  /\ exception_index' = [exception_index EXCEPT ![t] = AfterPop(@)]
  /\ IF /\ Popped(t).what = Mask[Innermost(t).function]
        /\ Popped(t).function = Innermost(t).function
     THEN /\ depth' = [depth EXCEPT ![t] = @ - 1]
          /\ active' = Unwound(t, depth[t] - 1)
          /\ UNCHANGED status
     ELSE /\ status' = "stack mismatch"
          /\ UNCHANGED <<depth, active>>
  /\ UNCHANGED <<exception_stack, callbacks>>

Uncatch(t) ==
  /\ status = "running"
  /\ depth[t] > 0
  /\ ~InHandler(t)
  /\ IF exception_index[t] = 0 THEN Abort("stack underflow") ELSE Pop(t)

(***************************************************************************)
(* throw_exception(what): the entries that do not catch it are skipped,    *)
(* each with a pop_callback; control is then in the handler of the         *)
(* activation that pushed the first entry that does.                       *)
(***************************************************************************)
Catching(t, what) ==
  {n \in 0 .. exception_index[t] - 1 : exception_stack[t][n].what \cap what # {}}

\* Wrong variants: the entry that catches stays on the stack, or one more
\* goes; a skipped entry has no pop_callback.
AfterCatchKept(n) == n + 1
AfterCatchBelow(n) == n - 1
AfterCatch(n) == n

PopCallbacksOnce(t, n) == -1
PopCallbacks(t, n) == n - exception_index[t]

ThrowTo(t, what, n) ==
  LET to == exception_stack[t][n].where
  IN  /\ the_last_just_thrown_exception' = what
      /\ pushed' = Counted(t, PopCallbacks(t, n))
      /\ exception_index' = [exception_index EXCEPT ![t] = AfterCatch(n)]
      /\ depth' = [depth EXCEPT ![t] = to + 1]
      /\ active' = [Unwound(t, to) EXCEPT ![t][to] =
           [function |-> active[t][to].function, phase |-> "handler",
            caught |-> what]]
      /\ UNCHANGED <<exception_stack, callbacks, status>>

\* No entry catches it: each has had its pop_callback when abort() comes.
NotFound(t, what) ==
  /\ the_last_just_thrown_exception' = what
  /\ pushed' = Counted(t, PopCallbacks(t, 0))
  /\ status' = "exception not found"
  /\ UNCHANGED <<exception_stack, exception_index, callbacks, active, depth>>

throw_exception(t, what) ==
  \/ \E n \in Catching(t, what) :
       /\ \A m \in Catching(t, what) : m <= n
       /\ ThrowTo(t, what, n)
  \/ Catching(t, what) = {} /\ NotFound(t, what)

\* THROW in the TRY part of the innermost function, or in one it calls.
Throw(t) ==
  /\ status = "running"
  /\ depth[t] > 0
  /\ ~InHandler(t)
  /\ \E kind \in Kinds : throw_exception(t, {kind})

\* RETHROW() at the end of the handler of a library function.
Rethrow(t) ==
  /\ status = "running"
  /\ InHandler(t)
  /\ Innermost(t).function \in Library
  /\ throw_exception(t, the_last_just_thrown_exception)

\* The handler of a caller of the library ends: its function returns.
Recover(t) ==
  /\ status = "running"
  /\ InHandler(t)
  /\ Innermost(t).function \notin Library
  /\ depth' = [depth EXCEPT ![t] = @ - 1]
  /\ active' = Unwound(t, depth[t] - 1)
  /\ UNCHANGED <<exception_stack, exception_index, callbacks, pushed,
                 the_last_just_thrown_exception, status>>
----------------------------------------------------------------------------
Step(t) ==
  \/ \E f \in Functions : Catch(t, f)
  \/ CatchFull(t) \/ Uncatch(t)
  \/ Throw(t) \/ Rethrow(t) \/ Recover(t)

Next == \E t \in Threads : Step(t)

Spec == Init /\ [][Next]_vars

\* A thread that handles an exception goes on: nothing in a handler blocks.
FairSpec == Spec /\ \A t \in Threads : WF_vars(Rethrow(t) \/ Recover(t))
----------------------------------------------------------------------------
Frames == [what : SUBSET Kinds, function : Functions \cup {NoFunction},
           where : Depths]
Activations == [function : Functions \cup {NoFunction},
                phase : {"try", "handler"}, caught : SUBSET Kinds]

TypeOK ==
  /\ exception_stack \in [Threads -> [Slots -> Frames]]
  /\ exception_index \in [Threads -> Depths]
  /\ the_last_just_thrown_exception \in SUBSET Kinds
  /\ callbacks \in BOOLEAN
  /\ active \in [Threads -> [Depths -> Activations]]
  /\ depth \in [Threads -> Depths]
  /\ pushed \in [Threads -> Int]
  /\ status \in {"running", "stack overflow", "stack underflow",
                 "stack mismatch", "exception not found"}

\* The entries of t are those of the activations in their TRY part, in order.
FramesOf(t) ==
  /\ exception_index[t] = depth[t] - (IF InHandler(t) THEN 1 ELSE 0)
  /\ \A n \in 0 .. exception_index[t] - 1 :
       /\ exception_stack[t][n].where = n
       /\ exception_stack[t][n].function = active[t][n].function
       /\ exception_stack[t][n].function \in Functions
       /\ exception_stack[t][n].what = Mask[active[t][n].function]
       /\ active[t][n].phase = "try"

(***************************************************************************)
(* longjmp never returns to a function that has returned, or to one whose  *)
(* handler runs already: the entries of a stack are those of the functions *)
(* that are active, after any sequence of calls, returns and exceptions    *)
(* and whatever the other threads do.  Hence the checks of                 *)
(* pop_exception_from_stack never fail.                                    *)
(***************************************************************************)
JumpsToLive ==
  status = "running" => \A t \in Threads : FramesOf(t)

NeverMismatched == status \notin {"stack mismatch", "stack underflow"}

(***************************************************************************)
(* A client that counts with its callbacks, as one with timeouts does,     *)
(* counts the entries on the stack, exceptions that skip entries included. *)
(***************************************************************************)
CallbacksBalanced ==
  status = "running" =>
    \A t \in Threads :
      pushed[t] = IF callbacks THEN exception_index[t] ELSE 0

(***************************************************************************)
(* No exception is lost in a program whose threads call the library under  *)
(* a CATCH for all exceptions.                                             *)
(***************************************************************************)
AllKindsCaught(t) ==
  /\ active[t][0].function \notin Library
  /\ Mask[active[t][0].function] = Kinds
NeverLost ==
  status = "exception not found" =>
    \E t \in Threads : depth[t] > 0 /\ ~AllKindsCaught(t)

(***************************************************************************)
(* In such a program an exception is lost in one way only: while a thread  *)
(* handles what it caught, another one resets the global variable by a     *)
(* CATCH or an UNCATCH, and RETHROW throws nothing.  No entry is missed at *)
(* any level of nested handlers, an exception of another thread that took  *)
(* the place of the one caught still finds the CATCH of the program, and   *)
(* a program with one thread loses none.                                   *)
(***************************************************************************)
LostOnlyByReset ==
  status = "exception not found" =>
    \/ \E t \in Threads : depth[t] > 0 /\ ~AllKindsCaught(t)
    \/ /\ the_last_just_thrown_exception = {}
       /\ \E t \in Threads : InHandler(t) /\ Threads # {t}

(***************************************************************************)
(* Every exception comes to an end: handlers of the library pass it on     *)
(* until one of the program takes it or the program aborts.                *)
(***************************************************************************)
HandlingEnds ==
  \A t \in Threads : InHandler(t) ~> (~InHandler(t) \/ status # "running")
============================================================================
