-------------------------- MODULE Exceptions_proof --------------------------
(***************************************************************************)
(* Theorems about Exceptions, for any number of threads, functions and     *)
(* masks and any size of the stacks.  The inductive invariant is TypeOK    *)
(* with JumpsToLive: the entries of each stack are those of the            *)
(* activations in their TRY part.                                          *)
(***************************************************************************)
EXTENDS Exceptions, TLAPS

\* What a step of another thread leaves as it is.
OwnState(t) ==
  <<exception_stack[t], exception_index[t], active[t], depth[t], pushed[t]>>

FramesInv == TypeOK /\ JumpsToLive

LEMMA TypeInit == Init => TypeOK
<1> SUFFICES ASSUME Init PROVE TypeOK
  OBVIOUS
<1>1. NoFrame \in Frames
  BY MaxAssumption DEF NoFrame, Frames, Depths
<1>2. NoActivation \in Activations
  BY DEF NoActivation, Activations
<1>3. 0 \in Depths
  BY MaxAssumption DEF Depths
<1> QED
  BY <1>1, <1>2, <1>3 DEF Init, TypeOK

\* The types after each step of a thread.
LEMMA TypeCatch ==
  ASSUME TypeOK, JumpsToLive, NEW t \in Threads, NEW f \in Functions, Catch(t, f)
  PROVE  TypeOK'
<1>1. exception_index[t] \in Slots /\ exception_index[t] + 1 \in Depths
  BY MaxAssumption DEF Catch, Full, TypeOK, Depths, Slots
<1>2. depth[t] = exception_index[t]
  BY <1>1 DEF Catch, JumpsToLive, FramesOf, TypeOK, Depths
<1>3. [what |-> Mask[f], function |-> f, where |-> depth[t]] \in Frames
  BY MaskAssumption DEF Frames, TypeOK
<1>4. [function |-> f, phase |-> "try", caught |-> {}] \in Activations
  BY DEF Activations
<1>5. exception_stack' \in [Threads -> [Slots -> Frames]]
  BY <1>1, <1>3 DEF Catch, TypeOK
<1>6. active' \in [Threads -> [Depths -> Activations]]
  BY <1>1, <1>2, <1>4 DEF Catch, TypeOK
<1>7. exception_index' \in [Threads -> Depths] /\ depth' \in [Threads -> Depths]
  BY <1>1, <1>2 DEF Catch, TypeOK
<1>8. pushed' \in [Threads -> Int]
  BY DEF Catch, TypeOK, Counted
<1> QED
  BY <1>5, <1>6, <1>7, <1>8 DEF Catch, TypeOK

LEMMA CountedType ==
  ASSUME TypeOK, NEW t \in Threads, NEW n \in Int
  PROVE  Counted(t, n) \in [Threads -> Int]
<1>1. pushed \in [Threads -> Int]
  BY DEF TypeOK
<1>2. [pushed EXCEPT ![t] = @ + n] \in [Threads -> Int]
  BY <1>1
<1> QED
  BY <1>1, <1>2, Zenon DEF Counted

\* What is left when the activations of t from d on are gone.
LEMMA UnwoundIs ==
  ASSUME TypeOK, NEW t \in Threads, NEW d
  PROVE  /\ Unwound(t, d) \in [Threads -> [Depths -> Activations]]
         /\ \A e \in Depths : e < d => Unwound(t, d)[t][e] = active[t][e]
         /\ \A s \in Threads : s # t => Unwound(t, d)[s] = active[s]
<1>1. NoActivation \in Activations
  BY DEF NoActivation, Activations
<1>2. active \in [Threads -> [Depths -> Activations]]
  BY DEF TypeOK
<1> DEFINE left == [e \in Depths |-> IF e < d THEN active[t][e] ELSE NoActivation]
<1>3. left \in [Depths -> Activations] /\ \A e \in Depths : e < d => left[e] = active[t][e]
  BY <1>1, <1>2
<1>4. Unwound(t, d) = [active EXCEPT ![t] = left]
  BY <1>2 DEF Unwound
<1> HIDE DEF left
<1> QED
  BY <1>2, <1>3, <1>4

LEMMA FramesUnchanged ==
  ASSUME NEW t \in Threads, FramesOf(t), UNCHANGED OwnState(t)
  PROVE  FramesOf(t)'
BY DEF FramesOf, OwnState, InHandler, Innermost

\* CATCH: the new entry is that of the new activation.
LEMMA CatchFrames ==
  ASSUME FramesInv, NEW t \in Threads, NEW f \in Functions, Catch(t, f)
  PROVE  FramesOf(t)' /\ ~InHandler(t)'
<1> USE DEF FramesInv
<1>1. FramesOf(t)
  BY DEF JumpsToLive, Catch
<1> DEFINE n == exception_index[t]
<1>2. n \in Slots /\ depth[t] = n
  BY <1>1, MaxAssumption DEF Catch, FramesOf, TypeOK, Depths, Slots, Full
<1>3. exception_index'[t] = n + 1 /\ depth'[t] = n + 1
  BY <1>2 DEF Catch, TypeOK
<1>4. exception_stack'[t][n] = [what |-> Mask[f], function |-> f, where |-> n]
  BY <1>2 DEF Catch, TypeOK
<1>5. \A m \in Slots : m # n => exception_stack'[t][m] = exception_stack[t][m]
  BY <1>2 DEF Catch, TypeOK
<1>6. n \in Depths
  BY <1>2, MaxAssumption DEF Slots, Depths
<1>7. active'[t][n] = [function |-> f, phase |-> "try", caught |-> {}]
  BY <1>2, <1>6 DEF Catch, TypeOK
<1>8. \A m \in Depths : m # n => active'[t][m] = active[t][m]
  BY <1>2, <1>6 DEF Catch, TypeOK
<1>9. ~InHandler(t)'
  BY <1>2, <1>3, <1>7 DEF InHandler, Innermost, Slots
<1>10. ASSUME NEW m \in 0 .. n - 1
       PROVE  /\ exception_stack'[t][m] = exception_stack[t][m]
              /\ active'[t][m] = active[t][m]
  BY <1>2, <1>5, <1>8, MaxAssumption DEF Slots, Depths
<1> QED
  BY <1>1, <1>2, <1>3, <1>4, <1>7, <1>9, <1>10 DEF FramesOf, Slots

\* UNCATCH: the entry and the activation that go are the last ones.
LEMMA PopsEntry ==
  ASSUME FramesInv, NEW t \in Threads, Uncatch(t)
  PROVE  FramesOf(t) /\ Pop(t) /\ exception_index[t] # 0 /\ status = "running"
<1>1. FramesOf(t) /\ status = "running" /\ ~InHandler(t) /\ depth[t] > 0
  BY DEF FramesInv, JumpsToLive, Uncatch
<1>2. depth[t] \in Depths /\ exception_index[t] = depth[t] - 0
  BY <1>1 DEF FramesInv, FramesOf, TypeOK
<1>3. exception_index[t] # 0
  BY <1>1, <1>2 DEF Depths
<1> QED
  BY <1>1, <1>3 DEF Uncatch

LEMMA UncatchStep ==
  ASSUME FramesInv, NEW t \in Threads, Uncatch(t)
  PROVE  TypeOK' /\ status' = "running" /\ FramesOf(t)' /\ ~InHandler(t)'
<1> USE DEF FramesInv
<1> DEFINE n == exception_index[t]
<1>1. FramesOf(t) /\ Pop(t) /\ n # 0 /\ status = "running"
  BY PopsEntry
<1>2. n \in Depths /\ n > 0 /\ depth[t] = n /\ n - 1 \in Depths
  <2>1. n \in Depths /\ n # 0 /\ ~InHandler(t)
    BY <1>1 DEF TypeOK, Uncatch
  <2>2. n = depth[t] - (IF InHandler(t) THEN 1 ELSE 0) /\ depth[t] \in Depths
    BY <1>1 DEF FramesOf, TypeOK
  <2> QED
    BY <2>1, <2>2, MaxAssumption DEF Depths
<1>3. /\ Popped(t).what = Mask[Innermost(t).function]
      /\ Popped(t).function = Innermost(t).function
  BY <1>1, <1>2 DEF FramesOf, Popped, Innermost, Depths
<1>4. /\ status' = "running" /\ depth' = [depth EXCEPT ![t] = @ - 1]
      /\ active' = Unwound(t, depth[t] - 1)
  BY <1>1, <1>3 DEF Pop
<1>5. exception_index' = [exception_index EXCEPT ![t] = @ - 1]
  BY <1>1 DEF Pop, AfterPop
<1>6. exception_index'[t] = n - 1 /\ depth'[t] = n - 1
  BY <1>2, <1>4, <1>5 DEF TypeOK
<1>7. TypeOK'
  <2>1. exception_index' \in [Threads -> Depths] /\ depth' \in [Threads -> Depths]
    BY <1>2, <1>4, <1>5 DEF TypeOK
  <2>2. pushed' \in [Threads -> Int]
    <3>1. pushed' = Counted(t, -1)
      BY <1>1, Zenon DEF Pop
    <3>2. -1 \in Int
      OBVIOUS
    <3> QED
      BY <3>1, <3>2, CountedType
  <2>3. active' \in [Threads -> [Depths -> Activations]]
    BY <1>4, UnwoundIs
  <2> QED
    BY <1>4, <1>1, <2>1, <2>2, <2>3 DEF Pop, TypeOK
<1>8. \A m \in 0 .. n - 2 : active'[t][m] = active[t][m]
  <2>1. \A m \in 0 .. n - 2 : m \in Depths /\ m < n - 1
    BY <1>2, MaxAssumption DEF Depths
  <2> QED
    BY <1>2, <1>4, <2>1, UnwoundIs
<1>9. ~InHandler(t)'
  <2>1. CASE n = 1
    BY <2>1, <1>6 DEF InHandler
  <2>2. CASE n # 1
    <3>1. n - 2 \in 0 .. n - 1 /\ n - 2 \in 0 .. n - 2
      BY <2>2, <1>2 DEF Depths
    <3>2. active[t][n - 2].phase = "try"
      BY <3>1, <1>1 DEF FramesOf
    <3>3. depth'[t] - 1 = n - 2
      BY <1>2, <1>6 DEF Depths
    <3>4. active'[t][n - 2] = active[t][n - 2]
      BY <1>8, <3>1
    <3> QED
      BY <3>2, <3>3, <3>4 DEF InHandler, Innermost
  <2> QED
    BY <2>1, <2>2
<1>10. exception_stack' = exception_stack
  BY <1>1 DEF Pop
<1>11. \A m \in 0 .. n - 2 : m \in 0 .. n - 1
  BY <1>2 DEF Depths
<1>12. exception_index'[t] - 1 = n - 2
  BY <1>2, <1>6 DEF Depths
<1>13. FramesOf(t)'
  <2>1. exception_index'[t] = depth'[t] - 0
    BY <1>2, <1>6 DEF Depths
  <2>2. ASSUME NEW m \in 0 .. exception_index'[t] - 1
        PROVE  m \in 0 .. n - 1 /\ active'[t][m] = active[t][m]
    BY <2>2, <1>8, <1>11, <1>12
  <2> QED
    BY <1>1, <1>9, <1>10, <2>1, <2>2 DEF FramesOf
<1> QED
  BY <1>4, <1>7, <1>9, <1>13

\* THROW and RETHROW: the entries below the one that catches stay, and its
\* activation is the innermost one.
LEMMA ThrowTarget ==
  ASSUME FramesInv, NEW t \in Threads, NEW what \in SUBSET Kinds,
         status = "running", NEW n \in Catching(t, what), ThrowTo(t, what, n)
  PROVE  /\ TypeOK'
         /\ FramesOf(t)' /\ InHandler(t)'
         /\ active'[t][n].caught = what /\ depth'[t] = n + 1
<1> USE DEF FramesInv
<1>1. FramesOf(t)
  BY DEF JumpsToLive
<1>2. n \in 0 .. exception_index[t] - 1 /\ exception_index[t] \in Depths
  BY DEF Catching, TypeOK
<1>3. n \in Depths /\ n + 1 \in Depths
  BY <1>2, MaxAssumption DEF Depths
<1>4. exception_stack[t][n].where = n
  BY <1>1, <1>2 DEF FramesOf
<1>5. /\ exception_index' = [exception_index EXCEPT ![t] = n]
      /\ depth' = [depth EXCEPT ![t] = n + 1]
      /\ active' = [Unwound(t, n) EXCEPT ![t][n] =
           [function |-> active[t][n].function, phase |-> "handler",
            caught |-> what]]
      /\ the_last_just_thrown_exception' = what
      /\ UNCHANGED <<exception_stack, callbacks, status>>
  BY <1>4 DEF ThrowTo, AfterCatch
<1>6. exception_index'[t] = n /\ depth'[t] = n + 1
  BY <1>5 DEF TypeOK
<1>7. active'[t][n] = [function |-> active[t][n].function,
                       phase |-> "handler", caught |-> what]
  BY <1>3, <1>5, UnwoundIs
<1>8. \A m \in Depths : m < n => active'[t][m] = active[t][m]
  BY <1>3, <1>5, UnwoundIs, MaxAssumption DEF Depths
<1>9. InHandler(t)'
  BY <1>3, <1>6, <1>7 DEF InHandler, Innermost, Depths
<1>10. TypeOK'
  <2>1. active' \in [Threads -> [Depths -> Activations]]
    <3>1. active[t][n].function \in Functions \cup {NoFunction}
      BY <1>3 DEF TypeOK, Activations
    <3>2. [function |-> active[t][n].function, phase |-> "handler",
           caught |-> what] \in Activations
      BY <3>1 DEF Activations
    <3> QED
      BY <1>3, <1>5, <3>2, UnwoundIs
  <2>2. exception_index' \in [Threads -> Depths] /\ depth' \in [Threads -> Depths]
    BY <1>3, <1>5 DEF TypeOK
  <2>3. n - exception_index[t] \in Int
    BY <1>2 DEF Depths
  <2>4. pushed' \in [Threads -> Int]
    BY <2>3, CountedType DEF ThrowTo, PopCallbacks
  <2> QED
    BY <1>5, <2>1, <2>2, <2>4 DEF TypeOK
<1>11. ASSUME NEW m \in 0 .. n - 1
       PROVE  active'[t][m] = active[t][m] /\ m \in 0 .. exception_index[t] - 1
  BY <1>2, <1>8, MaxAssumption DEF Depths
<1>12. FramesOf(t)'
  <2>1. exception_index'[t] = depth'[t] - 1
    BY <1>3, <1>6 DEF Depths
  <2>2. ASSUME NEW m \in 0 .. exception_index'[t] - 1
        PROVE  m \in 0 .. n - 1
    BY <2>2, <1>6
  <2> QED
    BY <1>1, <1>5, <1>9, <1>11, <2>1, <2>2 DEF FramesOf
<1> QED
  BY <1>6, <1>7, <1>9, <1>10, <1>12

LEMMA ThrowStep ==
  ASSUME FramesInv, NEW t \in Threads, NEW what \in SUBSET Kinds,
         status = "running", throw_exception(t, what)
  PROVE  /\ TypeOK'
         /\ status' = "running" => FramesOf(t)'
         /\ status' \in {"running", "exception not found"}
<1>1. CASE NotFound(t, what)
  <2>1. pushed' \in [Threads -> Int]
    <3>1. exception_index[t] \in Depths
      BY DEF TypeOK, FramesInv
    <3>2. 0 - exception_index[t] \in Int
      BY <3>1, MaxAssumption DEF Depths
    <3> QED
      BY <1>1, <3>2, CountedType DEF NotFound, PopCallbacks, FramesInv
  <2> QED
    BY <1>1, <2>1 DEF NotFound, TypeOK, FramesInv
<1>2. CASE \E n \in Catching(t, what) : ThrowTo(t, what, n)
  <2>1. PICK n \in Catching(t, what) : ThrowTo(t, what, n)
    BY <1>2
  <2>2. status' = "running"
    BY <2>1 DEF ThrowTo
  <2> QED
    BY <2>1, <2>2, ThrowTarget
<1> QED
  BY <1>1, <1>2 DEF throw_exception

\* The handler of the program returns: its activation had no entry.
LEMMA RecoverStep ==
  ASSUME FramesInv, NEW t \in Threads, Recover(t)
  PROVE  TypeOK' /\ FramesOf(t)' /\ ~InHandler(t)'
<1> USE DEF FramesInv
<1>1. FramesOf(t) /\ depth[t] > 0
  BY DEF JumpsToLive, Recover, InHandler
<1>2. exception_index[t] = depth[t] - 1 /\ depth[t] \in Depths
  BY <1>1 DEF FramesOf, Recover, TypeOK
<1>3. depth'[t] = depth[t] - 1 /\ depth[t] - 1 \in Depths
  BY <1>1, <1>2, MaxAssumption DEF Recover, TypeOK, Depths
<1>4. /\ active' \in [Threads -> [Depths -> Activations]]
      /\ \A m \in 0 .. depth[t] - 2 : active'[t][m] = active[t][m]
  <2>1. active' = Unwound(t, depth[t] - 1)
    BY DEF Recover
  <2>2. \A m \in 0 .. depth[t] - 2 : m \in Depths /\ m < depth[t] - 1
    BY <1>2, <1>3, MaxAssumption DEF Depths
  <2> QED
    BY <2>1, <2>2, UnwoundIs
<1>5. TypeOK'
  BY <1>3, <1>4 DEF Recover, TypeOK
<1>6. ~InHandler(t)'
  <2>1. CASE depth'[t] = 0
    BY <2>1 DEF InHandler
  <2>2. CASE depth'[t] # 0
    <3>1. depth'[t] - 1 \in 0 .. exception_index[t] - 1 /\ depth'[t] - 1 \in 0 .. depth[t] - 2
      BY <2>2, <1>2, <1>3, MaxAssumption DEF Depths
    <3>2. active[t][depth'[t] - 1].phase = "try"
      BY <3>1, <1>1 DEF FramesOf
    <3>3. active'[t][depth'[t] - 1] = active[t][depth'[t] - 1]
      BY <3>1, <1>4
    <3> QED
      BY <3>2, <3>3 DEF InHandler, Innermost
  <2> QED
    BY <2>1, <2>2
<1>7. FramesOf(t)'
  <2>1. exception_index'[t] = depth'[t] - 0 /\ exception_stack' = exception_stack
    BY <1>2, <1>3, MaxAssumption DEF Recover, Depths
  <2>2. ASSUME NEW m \in 0 .. exception_index'[t] - 1
        PROVE  m \in 0 .. exception_index[t] - 1 /\ active'[t][m] = active[t][m]
    <3>1. exception_index'[t] - 1 = depth[t] - 2 /\ exception_index[t] - 1 = depth[t] - 2
      BY <1>2, MaxAssumption DEF Recover, Depths
    <3> QED
      BY <2>2, <3>1, <1>4
  <2> QED
    BY <1>1, <1>6, <2>1, <2>2 DEF FramesOf
<1> QED
  BY <1>5, <1>6, <1>7

\* A step of t leaves the own state of the other threads alone.
LEMMA StepOwn ==
  ASSUME FramesInv, NEW t \in Threads, Step(t), NEW s \in Threads, s # t
  PROVE  UNCHANGED OwnState(s)
<1> USE DEF FramesInv, OwnState
<1>1. ASSUME NEW n \in Int PROVE Counted(t, n)[s] = pushed[s]
  BY DEF Counted, TypeOK
<1>2. ASSUME NEW f \in Functions, Catch(t, f) PROVE UNCHANGED OwnState(s)
  BY <1>1, <1>2 DEF Catch, TypeOK
<1>3. CASE Uncatch(t)
  <2>1. Pop(t)
    BY <1>3, PopsEntry
  <2>2. pushed'[s] = pushed[s]
    <3>1. -1 \in Int
      OBVIOUS
    <3> QED
      BY <3>1, <1>1, <2>1 DEF Pop
  <2>3. active'[s] = active[s]
    <3>1. active' = active \/ active' = Unwound(t, depth[t] - 1)
      BY <2>1 DEF Pop
    <3> QED
      BY <3>1, UnwoundIs
  <2> QED
    BY <2>1, <2>2, <2>3 DEF Pop, TypeOK
<1>4. ASSUME NEW why, Abort(why) PROVE UNCHANGED OwnState(s)
  BY <1>4 DEF Abort
<1>5. ASSUME NEW what, throw_exception(t, what) PROVE UNCHANGED OwnState(s)
  <2>1. ASSUME NEW n \in Catching(t, what), ThrowTo(t, what, n)
        PROVE  UNCHANGED OwnState(s)
    <3>1. PopCallbacks(t, n) \in Int
      <4>1. n \in 0 .. exception_index[t] - 1 /\ exception_index[t] \in Depths
        BY DEF Catching, TypeOK
      <4>2. n \in Int /\ exception_index[t] \in Int
        BY <4>1, MaxAssumption DEF Depths
      <4> QED
        BY <4>2 DEF PopCallbacks
    <3>2. pushed'[s] = pushed[s]
      BY <1>1, <2>1, <3>1 DEF ThrowTo
    <3>3. active'[s] = active[s]
      BY <2>1, UnwoundIs DEF ThrowTo
    <3> QED
      BY <2>1, <3>2, <3>3 DEF ThrowTo, TypeOK
  <2>2. CASE NotFound(t, what)
    <3>1. 0 - exception_index[t] \in Int
      <4>1. exception_index[t] \in Depths
        BY DEF TypeOK
      <4> QED
        BY <4>1, MaxAssumption DEF Depths
    <3>2. pushed'[s] = pushed[s]
      BY <1>1, <2>2, <3>1 DEF NotFound, PopCallbacks
    <3> QED
      BY <2>2, <3>2 DEF NotFound
  <2> QED
    BY <1>5, <2>1, <2>2 DEF throw_exception
<1>6. CASE Recover(t)
  <2>1. active'[s] = active[s]
    BY <1>6, UnwoundIs DEF Recover
  <2> QED
    BY <1>6, <2>1 DEF Recover, TypeOK
<1> QED
  BY <1>2, <1>3, <1>4, <1>5, <1>6
  DEF Step, CatchFull, Throw, Rethrow

\* A step of t keeps the types, and the stack of t exact.
LEMMA StepFrames ==
  ASSUME FramesInv, NEW t \in Threads, Step(t)
  PROVE  /\ TypeOK'
         /\ status' = "running" => FramesOf(t)'
<1> USE DEF FramesInv
<1>1. ASSUME NEW f \in Functions, Catch(t, f)
      PROVE  TypeOK' /\ FramesOf(t)'
  BY <1>1, TypeCatch, CatchFrames
<1>2. CASE Uncatch(t)
  BY <1>2, UncatchStep
<1>3. CASE CatchFull(t)
  BY <1>3 DEF CatchFull, Abort, TypeOK
<1>4. CASE Throw(t)
  <2>1. PICK kind \in Kinds : throw_exception(t, {kind})
    BY <1>4 DEF Throw
  <2>2. {kind} \in SUBSET Kinds /\ status = "running"
    BY <1>4 DEF Throw
  <2> QED
    BY <2>1, <2>2, ThrowStep
<1>5. CASE Rethrow(t)
  <2>1. the_last_just_thrown_exception \in SUBSET Kinds /\ status = "running"
    BY <1>5 DEF Rethrow, TypeOK
  <2>2. throw_exception(t, the_last_just_thrown_exception)
    BY <1>5 DEF Rethrow
  <2> QED
    BY <2>1, <2>2, ThrowStep
<1>6. CASE Recover(t)
  BY <1>6, RecoverStep
<1> QED
  BY <1>1, <1>2, <1>3, <1>4, <1>5, <1>6 DEF Step

LEMMA FramesInit == Init => FramesInv
<1> SUFFICES ASSUME Init PROVE FramesInv
  OBVIOUS
<1>1. TypeOK
  BY TypeInit
<1>2. ASSUME NEW t \in Threads PROVE FramesOf(t)
  <2>1. exception_index[t] = 0 /\ depth[t] = 0
    BY DEF Init
  <2> QED
    BY <2>1 DEF FramesOf, InHandler
<1> QED
  BY <1>1, <1>2 DEF FramesInv, JumpsToLive

LEMMA FramesNext ==
  ASSUME FramesInv, [Next]_vars PROVE FramesInv'
<1>1. CASE UNCHANGED vars
  <2>1. TypeOK' /\ status' = status
    BY <1>1 DEF vars, FramesInv, TypeOK
  <2>2. ASSUME NEW t \in Threads PROVE UNCHANGED OwnState(t)
    BY <1>1 DEF vars, OwnState
  <2> QED
    BY <2>1, <2>2, FramesUnchanged DEF FramesInv, JumpsToLive
<1>2. CASE Next
  <2>1. PICK t \in Threads : Step(t)
    BY <1>2 DEF Next
  <2>2. status = "running"
    BY <2>1 DEF Step, Catch, CatchFull, Uncatch, Throw, Rethrow,
                Recover
  <2>3. ASSUME status' = "running", NEW s \in Threads
        PROVE  FramesOf(s)'
    <3>1. CASE s = t
      BY <3>1, <2>1, <2>3, StepFrames
    <3>2. CASE s # t
      <4>1. FramesOf(s)
        BY <2>2 DEF FramesInv, JumpsToLive
      <4> QED
        BY <3>2, <4>1, <2>1, StepOwn, FramesUnchanged
    <3> QED
      BY <3>1, <3>2
  <2> QED
    BY <2>1, <2>3, StepFrames DEF FramesInv, JumpsToLive
<1> QED
  BY <1>1, <1>2

(***************************************************************************)
(* The variables of errors.c keep their types; in particular no stack is   *)
(* written outside its MAX_STACKED_CONTEXTS entries.                       *)
(***************************************************************************)
THEOREM TypeCorrect == Spec => []TypeOK
<1>1. FramesInv => TypeOK
  BY DEF FramesInv
<1> QED
  BY <1>1, FramesInit, FramesNext, PTL DEF Spec

(***************************************************************************)
(* For any number of threads, longjmp never returns to an activation that  *)
(* has returned or that handles an exception already.                      *)
(***************************************************************************)
THEOREM JumpsToLiveCorrect == Spec => []JumpsToLive
<1>1. FramesInv => JumpsToLive
  BY DEF FramesInv
<1> QED
  BY <1>1, FramesInit, FramesNext, PTL DEF Spec

(***************************************************************************)
(* The checks of pop_exception_from_stack never abort the program: a       *)
(* "stack mismatch" or "stack underflow" does not come from the functions  *)
(* of the library, whatever they throw.                                    *)
(***************************************************************************)
THEOREM NeverMismatchedCorrect == Spec => []NeverMismatched
<1>1. Init => NeverMismatched
  BY DEF Init, NeverMismatched
<1>2. ASSUME FramesInv, NeverMismatched, [Next]_vars PROVE NeverMismatched'
  <2>1. CASE UNCHANGED vars
    BY <2>1, <1>2 DEF vars, NeverMismatched
  <2>2. CASE Next
    <3>1. PICK t \in Threads : Step(t)
      BY <2>2 DEF Next
    <3>2. CASE Uncatch(t)
      <4>1. status' = "running"
        BY <3>2, <1>2, UncatchStep
      <4> QED
        BY <4>1 DEF NeverMismatched
    <3>3. ASSUME NEW what, throw_exception(t, what) PROVE NeverMismatched'
      BY <3>3, <1>2 DEF throw_exception, ThrowTo, NotFound, NeverMismatched
    <3> QED
      BY <3>1, <3>2, <3>3, <1>2
      DEF Step, Catch, CatchFull, Abort, Throw, Rethrow, Recover, NeverMismatched
  <2> QED
    BY <1>2, <2>1, <2>2
<1> QED
  BY <1>1, <1>2, FramesInit, FramesNext, PTL DEF Spec

\* What a handler has caught is an exception, and is the last one thrown where
\* there are no other threads.
Caught(t) ==
  InHandler(t) =>
    /\ Innermost(t).caught # {}
    /\ Threads = {t} => the_last_just_thrown_exception = Innermost(t).caught
AllCaught == status = "running" => \A t \in Threads : Caught(t)

LEMMA CaughtThrow ==
  ASSUME FramesInv, NEW t \in Threads, NEW what \in SUBSET Kinds,
         status = "running", throw_exception(t, what), status' = "running"
  PROVE  Caught(t)'
<1>1. PICK n \in Catching(t, what) : ThrowTo(t, what, n)
  BY DEF throw_exception, NotFound
<1>2. active'[t][n].caught = what /\ depth'[t] = n + 1
  BY <1>1, ThrowTarget
<1>3. n \in Int
  <2>1. n \in 0 .. exception_index[t] - 1 /\ exception_index[t] \in Depths
    BY <1>1 DEF Catching, FramesInv, TypeOK
  <2> QED
    BY <2>1, MaxAssumption DEF Depths
<1>4. depth'[t] - 1 = n
  BY <1>2, <1>3
<1>5. what # {}
  BY <1>1 DEF Catching
<1> QED
  BY <1>1, <1>2, <1>4, <1>5 DEF Caught, ThrowTo, Innermost

\* A step of t: what it catches itself, and what the others have caught.
LEMMA CaughtStep ==
  ASSUME FramesInv, AllCaught, NEW t \in Threads, Step(t)
  PROVE  AllCaught'
<1> SUFFICES ASSUME status' = "running", NEW s \in Threads PROVE Caught(s)'
  BY DEF AllCaught
<1>1. status = "running"
  BY DEF Step, Catch, CatchFull, Uncatch, Throw, Rethrow, Recover
<1>2. CASE s # t
  <2>1. UNCHANGED OwnState(s) /\ Threads # {s}
    BY <1>2, StepOwn
  <2> QED
    BY <1>1, <2>1 DEF AllCaught, Caught, OwnState, InHandler, Innermost
<1>3. ASSUME ~InHandler(t)' PROVE Caught(t)'
  BY <1>3 DEF Caught
<1>4. ASSUME NEW f \in Functions, Catch(t, f) PROVE Caught(t)'
  BY <1>3, <1>4, CatchFrames
<1>5. ASSUME CatchFull(t) PROVE Caught(t)'
  BY <1>1, <1>5 DEF CatchFull, Abort
<1>6. ASSUME Uncatch(t) PROVE Caught(t)'
  BY <1>3, <1>6, UncatchStep
<1>7. ASSUME Throw(t) PROVE Caught(t)'
  <2>1. PICK kind \in Kinds : throw_exception(t, {kind})
    BY <1>7 DEF Throw
  <2>2. {kind} \in SUBSET Kinds
    OBVIOUS
  <2> QED
    BY <1>1, <2>1, <2>2, CaughtThrow
<1>8. ASSUME Rethrow(t) PROVE Caught(t)'
  <2>1. the_last_just_thrown_exception \in SUBSET Kinds
    BY DEF FramesInv, TypeOK
  <2> QED
    BY <1>1, <1>8, <2>1, CaughtThrow DEF Rethrow
<1>9. ASSUME Recover(t) PROVE Caught(t)'
  BY <1>3, <1>9, RecoverStep
<1> QED
  BY <1>2, <1>4, <1>5, <1>6, <1>7, <1>8, <1>9 DEF Step

\* Under a CATCH for all exceptions, every one is caught by an entry: the first
\* at the latest, in the handlers of the functions of the library too.
LEMMA NotFoundIsNone ==
  ASSUME FramesInv, NEW t \in Threads, status = "running", AllKindsCaught(t),
         depth[t] > 0, InHandler(t) => Innermost(t).function \in Library,
         NEW what \in SUBSET Kinds, Catching(t, what) = {}
  PROVE  what = {}
<1>1. FramesOf(t) /\ depth[t] \in Depths /\ exception_index[t] \in Depths
  BY DEF FramesInv, JumpsToLive, TypeOK
<1>2. exception_index[t] # 0
  <2>1. CASE InHandler(t)
    <3>1. active[t][depth[t] - 1].function # active[t][0].function
      BY <2>1 DEF Innermost, AllKindsCaught
    <3>2. depth[t] - 1 # 0
      BY <3>1
    <3> QED
      BY <1>1, <2>1, <3>2 DEF FramesOf
  <2>2. CASE ~InHandler(t)
    <3>1. exception_index[t] = depth[t] - 0
      BY <1>1, <2>2 DEF FramesOf
    <3> QED
      BY <1>1, <3>1, MaxAssumption DEF Depths
  <2> QED
    BY <2>1, <2>2
<1>3. 0 \in 0 .. exception_index[t] - 1
  BY <1>1, <1>2, MaxAssumption DEF Depths
<1>4. exception_stack[t][0].what = Kinds
  BY <1>1, <1>3 DEF FramesOf, AllKindsCaught
<1>5. ~(exception_stack[t][0].what \cap what # {})
  BY <1>3 DEF Catching
<1> QED
  BY <1>4, <1>5

\* A step that does not find an entry.
LEMMA LostStep ==
  ASSUME FramesInv, AllCaught, NEW t \in Threads, Step(t), status' = "exception not found"
  PROVE  LostOnlyByReset'
<1>1. status = "running"
  BY DEF Step, Catch, CatchFull, Uncatch, Throw, Rethrow, Recover
<1>2. ASSUME NEW what, throw_exception(t, what)
      PROVE  /\ NotFound(t, what) /\ Catching(t, what) = {}
             /\ UNCHANGED <<active, depth>> /\ the_last_just_thrown_exception' = what
  BY <1>1, <1>2 DEF throw_exception, ThrowTo, NotFound
<1>3. CASE Throw(t)
  <2>1. PICK kind \in Kinds : throw_exception(t, {kind})
    BY <1>3 DEF Throw
  <2>2. Catching(t, {kind}) = {} /\ UNCHANGED <<active, depth>> /\ {kind} \in SUBSET Kinds
    BY <1>2, <2>1
  <2>3. depth[t] > 0 /\ ~InHandler(t)
    BY <1>3 DEF Throw
  <2>4. ~AllKindsCaught(t)
    BY <1>1, <2>2, <2>3, NotFoundIsNone
  <2> QED
    BY <2>2, <2>3, <2>4 DEF LostOnlyByReset, AllKindsCaught
<1>4. CASE Rethrow(t)
  <2> DEFINE what == the_last_just_thrown_exception
  <2>1. /\ Catching(t, what) = {} /\ UNCHANGED <<active, depth>>
        /\ the_last_just_thrown_exception' = what /\ what \in SUBSET Kinds
    BY <1>2, <1>4 DEF Rethrow, FramesInv, TypeOK
  <2>2. depth[t] > 0 /\ InHandler(t) /\ Innermost(t).function \in Library
    BY <1>4 DEF Rethrow, InHandler
  <2>3. CASE ~AllKindsCaught(t)
    BY <2>1, <2>2, <2>3 DEF LostOnlyByReset, AllKindsCaught
  <2>4. CASE AllKindsCaught(t)
    <3>1. what = {}
      BY <1>1, <2>1, <2>2, <2>4, NotFoundIsNone
    <3>2. Threads # {t}
      BY <1>1, <2>2, <3>1 DEF AllCaught, Caught
    <3>3. InHandler(t)'
      BY <2>1, <2>2 DEF InHandler, Innermost
    <3> QED
      BY <2>1, <3>1, <3>2, <3>3 DEF LostOnlyByReset
  <2> QED
    BY <2>3, <2>4
<1>5. ASSUME NEW f \in Functions, Catch(t, f) PROVE FALSE
  BY <1>1, <1>5 DEF Catch
<1>6. CASE CatchFull(t) \/ Recover(t)
  BY <1>1, <1>6 DEF CatchFull, Recover, Abort
<1>7. CASE Uncatch(t)
  BY <1>7, UncatchStep
<1> QED
  BY <1>3, <1>4, <1>5, <1>6, <1>7 DEF Step

(***************************************************************************)
(* For any number of threads, nested functions and masks: when every       *)
(* thread calls the library under a CATCH for all exceptions, an exception *)
(* is lost only by a reset of the global variable by another thread, while *)
(* a handler runs.  A program with one thread loses none.                  *)
(***************************************************************************)
THEOREM LostOnlyByResetCorrect == Spec => []LostOnlyByReset
<1>1. Init => AllCaught /\ LostOnlyByReset
  BY DEF Init, AllCaught, Caught, InHandler, LostOnlyByReset
<1>2. ASSUME FramesInv, AllCaught, LostOnlyByReset, [Next]_vars
      PROVE  AllCaught' /\ LostOnlyByReset'
  <2>1. CASE UNCHANGED vars
    BY <1>2, <2>1 DEF vars, AllCaught, Caught, LostOnlyByReset, AllKindsCaught,
                      InHandler, Innermost
  <2>2. CASE Next
    <3>1. PICK t \in Threads : Step(t)
      BY <2>2 DEF Next
    <3>2. CASE status' = "exception not found"
      BY <1>2, <3>1, <3>2, CaughtStep, LostStep
    <3>3. CASE status' # "exception not found"
      BY <1>2, <3>1, <3>3, CaughtStep DEF LostOnlyByReset
    <3> QED
      BY <3>2, <3>3
  <2> QED
    BY <1>2, <2>1, <2>2
<1> QED
  BY <1>1, <1>2, FramesInit, FramesNext, PTL DEF Spec

\* What the counter of t is after Counted.
LEMMA CountedValue ==
  ASSUME TypeOK, NEW t \in Threads, NEW n \in Int
  PROVE  Counted(t, n)[t] = IF callbacks THEN pushed[t] + n ELSE pushed[t]
<1>1. pushed \in [Threads -> Int]
  BY DEF TypeOK
<1>2. [pushed EXCEPT ![t] = @ + n][t] = pushed[t] + n
  BY <1>1
<1> QED
  BY <1>2, Zenon DEF Counted

Balanced(t) == pushed[t] = IF callbacks THEN exception_index[t] ELSE 0

\* A step counts what it pushes or takes.
LEMMA BalancedCounted ==
  ASSUME TypeOK, NEW t \in Threads, Balanced(t), NEW n \in Int,
         pushed' = Counted(t, n), callbacks' = callbacks,
         exception_index'[t] = exception_index[t] + n
  PROVE  Balanced(t)'
<1>1. pushed'[t] = IF callbacks THEN pushed[t] + n ELSE pushed[t]
  BY CountedValue
<1>2. exception_index[t] \in Depths /\ callbacks \in BOOLEAN
  BY DEF TypeOK
<1>3. CASE callbacks = TRUE
  <2>1. pushed'[t] = pushed[t] + n /\ pushed[t] = exception_index[t]
    BY <1>1, <1>3 DEF Balanced
  <2> QED
    BY <2>1, <1>3 DEF Balanced
<1>4. CASE callbacks = FALSE
  BY <1>1, <1>4 DEF Balanced
<1> QED
  BY <1>2, <1>3, <1>4

LEMMA BalancedThrow ==
  ASSUME TypeOK, NEW t \in Threads, Balanced(t), NEW what,
         throw_exception(t, what), status' = "running"
  PROVE  Balanced(t)'
<1>1. ~NotFound(t, what)
  BY DEF NotFound
<1>2. ASSUME NEW n \in Catching(t, what), ThrowTo(t, what, n) PROVE Balanced(t)'
  <2>1. n \in 0 .. exception_index[t] - 1 /\ exception_index[t] \in Depths
    BY DEF Catching, TypeOK
  <2>2. n \in Int /\ exception_index[t] \in Int
    BY <2>1, MaxAssumption DEF Depths
  <2>3. exception_index' = [exception_index EXCEPT ![t] = n]
    BY <1>2 DEF ThrowTo, AfterCatch
  <2>4. exception_index'[t] = exception_index[t] + PopCallbacks(t, n)
    <3>1. exception_index'[t] = n
      BY <2>3 DEF TypeOK
    <3>2. n = exception_index[t] + (n - exception_index[t])
      BY <2>2
    <3> QED
      BY <3>1, <3>2 DEF PopCallbacks
  <2>5. PopCallbacks(t, n) \in Int
    BY <2>2 DEF PopCallbacks
  <2>6. pushed' = Counted(t, PopCallbacks(t, n)) /\ callbacks' = callbacks
    BY <1>2 DEF ThrowTo
  <2> QED
    BY <2>4, <2>5, <2>6, BalancedCounted
<1> QED
  BY <1>1, <1>2 DEF throw_exception

LEMMA BalancedStep ==
  ASSUME FramesInv, NEW t \in Threads, Balanced(t), Step(t), status' = "running"
  PROVE  Balanced(t)'
<1>0. TypeOK
  BY DEF FramesInv
<1>1. ASSUME NEW f \in Functions, Catch(t, f) PROVE Balanced(t)'
  <2>1. exception_index'[t] = exception_index[t] + 1
    BY <1>0, <1>1 DEF Catch, TypeOK
  <2> QED
    BY <2>1, <1>0, <1>1, BalancedCounted DEF Catch
<1>2. CASE Uncatch(t)
  <2>1. Pop(t)
    BY <1>2, PopsEntry
  <2>2. -1 \in Int
    OBVIOUS
  <2>3. exception_index' = [exception_index EXCEPT ![t] = @ - 1]
    BY <2>1 DEF Pop, AfterPop
  <2>4. exception_index'[t] = exception_index[t] + (-1)
    <3>1. exception_index'[t] = exception_index[t] - 1
      BY <2>3, <1>0 DEF TypeOK
    <3>2. exception_index[t] \in Int
      <4>1. exception_index[t] \in Depths
        BY <1>0 DEF TypeOK
      <4> QED
        BY <4>1, MaxAssumption DEF Depths
    <3> QED
      BY <3>1, <3>2
  <2>5. pushed' = Counted(t, -1) /\ callbacks' = callbacks
    BY <2>1, Zenon DEF Pop
  <2> QED
    BY <2>2, <2>4, <2>5, <1>0, BalancedCounted
<1>3. CASE CatchFull(t) \/ Recover(t)
  <2>1. UNCHANGED <<pushed, callbacks, exception_index>>
    BY <1>3 DEF CatchFull, Abort, Recover
  <2> QED
    BY <2>1, Zenon DEF Balanced
<1>4. CASE Throw(t)
  BY <1>0, <1>4, BalancedThrow DEF Throw
<1>5. CASE Rethrow(t)
  BY <1>0, <1>5, BalancedThrow DEF Rethrow
<1> QED
  BY <1>1, <1>2, <1>3, <1>4, <1>5 DEF Step

(***************************************************************************)
(* The callbacks of a client are called once per entry pushed and once per *)
(* entry that goes, also by an exception that skips some: for any nesting  *)
(* of calls its counter is the number of entries on the stack.             *)
(***************************************************************************)
THEOREM CallbacksBalancedCorrect == Spec => []CallbacksBalanced
<1>1. Init => CallbacksBalanced
  BY Zenon DEF Init, CallbacksBalanced
<1>2. ASSUME FramesInv, CallbacksBalanced, [Next]_vars PROVE CallbacksBalanced'
  <2>1. CASE UNCHANGED vars
    BY <2>1, <1>2 DEF vars, CallbacksBalanced
  <2>2. CASE Next
    <3>1. PICK t \in Threads : Step(t)
      BY <2>2 DEF Next
    <3>2. callbacks' = callbacks
      <4>1. CASE Uncatch(t)
        BY <4>1, <1>2, PopsEntry DEF Pop
      <4>2. ASSUME NEW what, throw_exception(t, what) PROVE callbacks' = callbacks
        BY <4>2 DEF throw_exception, ThrowTo, NotFound
      <4> QED
        BY <3>1, <4>1, <4>2
        DEF Step, Catch, CatchFull, Abort, Throw, Rethrow, Recover
    <3>3. \A s \in Threads : Balanced(s)
      <4>1. status = "running"
        BY <3>1 DEF Step, Catch, CatchFull, Uncatch, Throw, Rethrow, Recover
      <4> QED
        BY <1>2, <4>1 DEF CallbacksBalanced, Balanced
    <3>4. ASSUME NEW s \in Threads, s # t PROVE Balanced(s)'
      BY <1>2, <3>1, <3>2, <3>3, <3>4, StepOwn DEF OwnState, Balanced
    <3>5. status' = "running" => Balanced(t)'
      BY <1>2, <3>1, <3>3, BalancedStep
    <3> QED
      BY <3>4, <3>5 DEF CallbacksBalanced, Balanced
  <2> QED
    BY <1>2, <2>1, <2>2
<1> QED
  BY <1>1, <1>2, FramesInit, FramesNext, PTL DEF Spec
============================================================================
